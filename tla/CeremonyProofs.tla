---------------------------- MODULE CeremonyProofs ----------------------------
(***************************************************************************)
(* Theorems about the ceremonies that a node drives or follows besides the *)
(* governed ones: the signing rounds (FrostRound), the distributed key     *)
(* generation (Dkg) and the move to a new enclave build (Migration).       *)
(***************************************************************************)
EXTENDS FrostRound, Dkg, Migration, FiniteSetTheorems, WellFoundedInduction, TLAPS

-------------------------------------------------------------------------------
(* FrostRound.                                                             *)

\* The participant asked next is one of those still to be asked.
LEMMA NextOfIn ==
    ASSUME NEW S, S \subseteq Nat, S # {}
    PROVE  NextOf(S) \in S
<1>1. \E x \in S : \A y \in S : <<y, x>> \notin OpToRel(<, Nat)
  BY NatLessThanWellFounded, WFMin
<1>2. PICK x \in S : \A y \in S : <<y, x>> \notin OpToRel(<, Nat)
  BY <1>1
<1>3. \A y \in S : x <= y
  <2> SUFFICES ASSUME NEW y \in S, ~(x <= y) PROVE FALSE
    OBVIOUS
  <2>1. x \in Nat /\ y \in Nat /\ y < x
    OBVIOUS
  <2>2. <<y, x>> \in Nat \X Nat /\ <<y, x>>[1] = y /\ <<y, x>>[2] = x
    BY <2>1
  <2>3. <<y, x>> \in {ss \in Nat \X Nat : ss[1] < ss[2]}
    BY <2>1, <2>2
  <2>4. <<y, x>> \in OpToRel(<, Nat)
    BY <2>3 DEF OpToRel
  <2> QED BY <2>4, <1>2
<1> QED BY <1>3 DEF NextOf

RoundRecords ==
    [pc : {"idle", "nonces", "partials", "refused", "failed", "verified", "unverified", "dropped"},
     ids : SUBSET SignerIds, todo : SUBSET SignerIds,
     set : SUBSET (SignerIds \X Nat), partials : SUBSET (SignerIds \X Nat)]

FrostTypeInv ==
    /\ claim \in BOOLEAN /\ drawn \in Nat
    /\ round \in [Rounds -> RoundRecords] /\ nonce \in [SignerIds -> Nat]
    /\ \A l \in late : l.signer \in SignerIds

LiveRound(r) == round[r].pc \in {"nonces", "partials"}

\* At most one round is in flight, and it holds the claim.
OneClaim ==
    \A r \in Rounds : LiveRound(r) => claim /\ \A q \in Rounds : LiveRound(q) => q = r

\* The published nonces of S, as the enclave holds them.
Held(S) == {<<s, nonce[s]>> : s \in S}

\* What a round has published is what the enclave still holds, or has used for it.
Undisturbed(r) ==
    /\ round[r].todo \subseteq round[r].ids
    /\ round[r].pc = "nonces" =>
         round[r].partials = {} /\ round[r].set = Held(round[r].ids \ round[r].todo)
    /\ round[r].pc = "partials" =>
         round[r].set = round[r].partials \cup Held(round[r].todo)

NoneDropped == \A r \in Rounds : round[r].pc # "dropped"

CleanUnlessDropped ==
    NoneDropped =>
        /\ late = {}
        /\ \A r \in Rounds : round[r].pc # "unverified" /\ (LiveRound(r) => Undisturbed(r))

FrostInv == FrostTypeInv /\ OneClaim /\ CleanUnlessDropped

\* The initial state satisfies the invariant.
LEMMA FrostInitInv == FrostInit => FrostInv
<1> SUFFICES ASSUME FrostInit PROVE FrostInv
  OBVIOUS
<1>1. NoRound \in RoundRecords /\ NoRound.pc = "idle"
  BY DEF NoRound, RoundRecords
<1> HIDE DEF NoRound
<1>2. FrostTypeInv
  BY <1>1 DEF FrostInit, FrostTypeInv
<1>3. \A r \in Rounds : round[r].pc = "idle" /\ ~LiveRound(r)
  BY <1>1 DEF FrostInit, LiveRound
<1> QED BY <1>2, <1>3 DEF FrostInit, FrostInv, OneClaim, CleanUnlessDropped

\* What a step that sets one round to x does to the others.
LEMMA SetRound ==
    ASSUME FrostTypeInv, NEW r \in Rounds, NEW x \in RoundRecords, round' = [round EXCEPT ![r] = x]
    PROVE  /\ round' \in [Rounds -> RoundRecords] /\ round'[r] = x
           /\ \A q \in Rounds \ {r} : round'[q] = round[q]
BY DEF FrostTypeInv

\* The end of a round that is in flight keeps the invariant, unless it was dropped.
LEMMA EndKeeps ==
    ASSUME FrostInv, NEW r \in Rounds, LiveRound(r),
           NEW pc \in {"failed", "verified", "unverified"}, EndRound(r, pc),
           pc = "unverified" => ~NoneDropped, UNCHANGED <<nonce, drawn, late>>
    PROVE  FrostInv'
<1>1. PICK x : x = [NoRound EXCEPT !.pc = pc]
  OBVIOUS
<1>2. x \in RoundRecords /\ x.pc = pc
  BY <1>1 DEF NoRound, RoundRecords
<1>3. round' = [round EXCEPT ![r] = x] /\ claim' = FALSE
  BY <1>1 DEF EndRound
<1>4. /\ round' \in [Rounds -> RoundRecords] /\ round'[r] = x
      /\ \A q \in Rounds \ {r} : round'[q] = round[q]
  BY <1>2, <1>3, SetRound DEF FrostInv
<1>5. \A q \in Rounds : ~LiveRound(q)'
  BY <1>2, <1>4 DEF FrostInv, OneClaim, LiveRound
<1>6. FrostTypeInv'
  BY <1>3, <1>4 DEF FrostInv, FrostTypeInv
<1>7. NoneDropped' => NoneDropped
  BY <1>2, <1>4 DEF LiveRound, NoneDropped
<1>8. CleanUnlessDropped'
  <2> SUFFICES ASSUME NoneDropped' PROVE late = {} /\ \A q \in Rounds : round'[q].pc # "unverified"
    BY <1>5 DEF CleanUnlessDropped
  <2> QED BY <1>2, <1>4, <1>7 DEF FrostInv, CleanUnlessDropped
<1> QED BY <1>5, <1>6, <1>8 DEF FrostInv, OneClaim

\* A step of the round in flight: the others are not touched, and the round is left
\* undisturbed if it was.
LEMMA LiveStep ==
    ASSUME FrostInv, NEW r \in Rounds, LiveRound(r), NEW x \in RoundRecords,
           round' = [round EXCEPT ![r] = x], x.pc \in {"nonces", "partials"},
           UNCHANGED <<claim, late>>, drawn' \in Nat, nonce' \in [SignerIds -> Nat],
           Undisturbed(r) => Undisturbed(r)'
    PROVE  FrostInv'
<1>1. /\ round' \in [Rounds -> RoundRecords] /\ round'[r] = x
      /\ \A q \in Rounds \ {r} : round'[q] = round[q]
  BY SetRound DEF FrostInv
<1>2. FrostTypeInv'
  BY <1>1 DEF FrostInv, FrostTypeInv
<1>3. \A q \in Rounds : LiveRound(q)' <=> q = r
  BY <1>1 DEF FrostInv, OneClaim, LiveRound
<1>4. OneClaim'
  BY <1>3 DEF FrostInv, OneClaim
<1>5. NoneDropped' => NoneDropped
  BY <1>1 DEF LiveRound, NoneDropped
<1>6. CleanUnlessDropped'
  <2> SUFFICES ASSUME NoneDropped'
               PROVE  /\ late = {}
                      /\ \A q \in Rounds : round'[q].pc # "unverified" /\ (LiveRound(q)' => Undisturbed(q)')
    BY DEF CleanUnlessDropped
  <2>1. late = {} /\ Undisturbed(r) /\ \A q \in Rounds : round[q].pc # "unverified"
    BY <1>5 DEF FrostInv, CleanUnlessDropped
  <2> QED BY <2>1, <1>1, <1>3
<1> QED BY <1>2, <1>4, <1>6 DEF FrostInv

\* Pass 1 publishes exactly the nonce that the enclave then holds.
LEMMA NonceGenKeeps ==
    ASSUME FrostInv, NEW r \in Rounds, NonceGen(r)
    PROVE  FrostInv'
<1>1. PICK s : s = NextOf(round[r].todo)
  OBVIOUS
<1>2. round[r] \in RoundRecords /\ drawn \in Nat /\ nonce \in [SignerIds -> Nat]
  BY DEF FrostInv, FrostTypeInv
<1>3. s \in round[r].todo /\ s \in SignerIds /\ round[r].pc = "nonces"
  <2>1. round[r].todo \subseteq SignerIds /\ round[r].todo # {} /\ round[r].pc = "nonces"
    BY <1>2 DEF RoundRecords, NonceGen
  <2>2. round[r].todo \subseteq Nat
    BY <2>1, FrostAssumption
  <2> QED BY <1>1, <2>1, <2>2, NextOfIn
<1>4. PICK x : x = [round[r] EXCEPT !.todo = @ \ {s}, !.set = @ \cup {<<s, drawn + 1>>}]
  OBVIOUS
<1>5. /\ x \in RoundRecords /\ x.pc = "nonces" /\ x.ids = round[r].ids
      /\ x.todo = round[r].todo \ {s} /\ x.set = round[r].set \cup {<<s, drawn + 1>>}
      /\ x.partials = round[r].partials
  <2>1. <<s, drawn + 1>> \in SignerIds \X Nat
    BY <1>2, <1>3
  <2>2. PICK todo, set : todo = round[r].todo \ {s} /\ set = round[r].set \cup {<<s, drawn + 1>>}
    OBVIOUS
  <2>3. todo \in SUBSET SignerIds /\ set \in SUBSET (SignerIds \X Nat)
    BY <1>2, <2>1, <2>2 DEF RoundRecords
  <2>4. x = [round[r] EXCEPT !.todo = todo, !.set = set]
    BY <1>4, <2>2
  <2> QED BY <1>2, <1>3, <2>2, <2>3, <2>4 DEF RoundRecords
<1>6. /\ round' = [round EXCEPT ![r] = x]
      /\ drawn' = drawn + 1 /\ nonce' = [nonce EXCEPT ![s] = drawn + 1] /\ UNCHANGED <<claim, late>>
  <2>1. round' = [round EXCEPT ![r].todo = @ \ {s}, ![r].set = @ \cup {<<s, drawn + 1>>}]
    BY <1>1 DEF NonceGen
  <2>2. round' = [round EXCEPT ![r] = x]
    BY <2>1, <1>2, <1>4 DEF FrostInv, FrostTypeInv, RoundRecords
  <2> QED BY <2>2, <1>1 DEF NonceGen, DrawNonce
<1>7. drawn' \in Nat /\ nonce' \in [SignerIds -> Nat]
  <2>1. drawn + 1 \in Nat
    BY <1>2
  <2> QED BY <1>2, <1>3, <1>6, <2>1
<1>8. round'[r] = x
  BY <1>6 DEF FrostInv, FrostTypeInv
<1>9. Undisturbed(r) => Undisturbed(r)'
  <2> SUFFICES ASSUME Undisturbed(r) PROVE Undisturbed(r)'
    OBVIOUS
  <2>1. round[r].todo \subseteq round[r].ids /\ round[r].partials = {}
        /\ round[r].set = Held(round[r].ids \ round[r].todo)
    BY <1>3 DEF Undisturbed
  <2>2. x.ids \ x.todo = (round[r].ids \ round[r].todo) \cup {s}
    BY <1>3, <1>5, <2>1
  <2>3. \A t \in SignerIds : nonce'[t] = IF t = s THEN drawn + 1 ELSE nonce[t]
    BY <1>2, <1>3, <1>6
  <2>4. round[r].ids \subseteq SignerIds
    BY <1>2 DEF RoundRecords
  <2>5. x.set = {<<t, nonce'[t]>> : t \in x.ids \ x.todo}
    BY <1>3, <1>5, <2>1, <2>2, <2>3, <2>4 DEF Held
  <2> QED BY <1>5, <1>8, <2>1, <2>5 DEF Undisturbed, Held
<1> QED BY <1>3, <1>5, <1>6, <1>7, <1>9, LiveStep DEF LiveRound

\* Pass 2 begins with every published nonce still held.
LEMMA CloseKeeps ==
    ASSUME FrostInv, NEW r \in Rounds, CloseNonces(r)
    PROVE  FrostInv'
<1>1. CASE SignerSetOk(round[r].set)
  <2>1. round[r] \in RoundRecords /\ drawn \in Nat /\ nonce \in [SignerIds -> Nat]
    BY DEF FrostInv, FrostTypeInv
  <2>2. PICK x : x = [round[r] EXCEPT !.pc = "partials", !.todo = round[r].ids]
    OBVIOUS
  <2>3. /\ x \in RoundRecords /\ x.pc = "partials" /\ x.ids = round[r].ids /\ x.todo = round[r].ids
        /\ x.set = round[r].set /\ x.partials = round[r].partials
    BY <2>1, <2>2 DEF RoundRecords
  <2>4. round' = [round EXCEPT ![r] = x] /\ UNCHANGED <<claim, nonce, drawn, late>>
    BY <1>1, <2>1, <2>2 DEF CloseNonces, FrostInv, FrostTypeInv, RoundRecords
  <2>5. round'[r] = x /\ LiveRound(r)
    BY <2>4 DEF FrostInv, FrostTypeInv, CloseNonces, LiveRound
  <2>6. Undisturbed(r) => Undisturbed(r)'
    <3> SUFFICES ASSUME Undisturbed(r) PROVE Undisturbed(r)'
      OBVIOUS
    <3>1. round[r].todo = {} /\ round[r].partials = {} /\ round[r].set = Held(round[r].ids \ round[r].todo)
      BY DEF CloseNonces, Undisturbed
    <3>2. round[r].ids \ round[r].todo = round[r].ids
      BY <3>1
    <3>3. x.set = x.partials \cup Held(x.todo)
      BY <2>3, <3>1, <3>2
    <3> QED BY <2>3, <2>4, <2>5, <3>3 DEF Undisturbed, Held
  <2> QED BY <2>1, <2>3, <2>4, <2>5, <2>6, LiveStep
<1>2. CASE ~SignerSetOk(round[r].set)
  BY <1>2, EndKeeps DEF CloseNonces, LiveRound
<1> QED BY <1>1, <1>2

\* Pass 2 uses the nonce that was published, if nothing disturbed it.
LEMMA PartialSignKeeps ==
    ASSUME FrostInv, NEW r \in Rounds, PartialSign(r)
    PROVE  FrostInv'
<1>1. PICK s : s = NextOf(round[r].todo)
  OBVIOUS
<1>2. round[r] \in RoundRecords /\ drawn \in Nat /\ nonce \in [SignerIds -> Nat]
  BY DEF FrostInv, FrostTypeInv
<1>3. s \in round[r].todo /\ s \in SignerIds /\ round[r].pc = "partials"
  <2>1. round[r].todo \subseteq SignerIds /\ round[r].todo # {} /\ round[r].pc = "partials"
    BY <1>2 DEF RoundRecords, PartialSign
  <2>2. round[r].todo \subseteq Nat
    BY <2>1, FrostAssumption
  <2> QED BY <1>1, <2>1, <2>2, NextOfIn
<1>4. CASE nonce[s] = 0
  BY <1>1, <1>3, <1>4, EndKeeps DEF PartialSign, LiveRound
<1>5. CASE nonce[s] # 0
  <2>1. PICK k : k = nonce[s]
    OBVIOUS
  <2>2. PICK x : x = [round[r] EXCEPT !.todo = @ \ {s}, !.partials = @ \cup {<<s, k>>}]
    OBVIOUS
  <2>3. /\ x \in RoundRecords /\ x.pc = "partials" /\ x.ids = round[r].ids
        /\ x.todo = round[r].todo \ {s} /\ x.partials = round[r].partials \cup {<<s, k>>}
        /\ x.set = round[r].set
    <3>1. <<s, k>> \in SignerIds \X Nat
      BY <1>2, <1>3, <2>1
    <3>2. PICK todo, set : todo = round[r].todo \ {s} /\ set = round[r].partials \cup {<<s, k>>}
      OBVIOUS
    <3>3. todo \in SUBSET SignerIds /\ set \in SUBSET (SignerIds \X Nat)
      BY <1>2, <3>1, <3>2 DEF RoundRecords
    <3>4. x = [round[r] EXCEPT !.todo = todo, !.partials = set]
      BY <2>2, <3>2
    <3> QED BY <1>2, <1>3, <3>2, <3>3, <3>4 DEF RoundRecords
  <2>4. /\ round' = [round EXCEPT ![r] = x]
        /\ nonce' = [nonce EXCEPT ![s] = 0] /\ UNCHANGED <<claim, late, drawn>>
    <3>1. /\ round' = [round EXCEPT ![r].todo = @ \ {s}, ![r].partials = @ \cup {<<s, k>>}]
          /\ nonce' = [nonce EXCEPT ![s] = 0] /\ UNCHANGED <<claim, late, drawn>>
      BY <1>1, <1>5, <2>1 DEF PartialSign, UseNonce
    <3>2. round' = [round EXCEPT ![r] = x]
      BY <3>1, <1>2, <2>2 DEF FrostInv, FrostTypeInv, RoundRecords
    <3> QED BY <3>1, <3>2
  <2>5. nonce' \in [SignerIds -> Nat] /\ round'[r] = x
    BY <1>2, <2>4 DEF FrostInv, FrostTypeInv
  <2>6. Undisturbed(r) => Undisturbed(r)'
    <3> SUFFICES ASSUME Undisturbed(r) PROVE Undisturbed(r)'
      OBVIOUS
    <3>1. round[r].todo \subseteq round[r].ids
          /\ round[r].set = round[r].partials \cup Held(round[r].todo)
      BY <1>3 DEF Undisturbed
    <3>2. \A t \in SignerIds : nonce'[t] = IF t = s THEN 0 ELSE nonce[t]
      BY <1>2, <1>3, <2>4
    <3>3. round[r].todo \subseteq SignerIds
      BY <1>2 DEF RoundRecords
    <3>4. Held(round[r].todo) = {<<s, k>>} \cup {<<t, nonce'[t]>> : t \in x.todo}
      BY <1>3, <2>1, <2>3, <3>2, <3>3 DEF Held
    <3>5. x.set = x.partials \cup {<<t, nonce'[t]>> : t \in x.todo}
      BY <2>3, <3>1, <3>4
    <3> QED BY <2>3, <2>5, <3>1, <3>5 DEF Undisturbed, Held
  <2> QED BY <1>2, <1>3, <2>3, <2>4, <2>5, <2>6, LiveStep DEF LiveRound
<1> QED BY <1>4, <1>5

\* A round that nothing disturbed verifies.
LEMMA AggregateKeeps ==
    ASSUME FrostInv, NEW r \in Rounds, Aggregate(r)
    PROVE  FrostInv'
<1>1. LiveRound(r) /\ round[r].pc = "partials" /\ round[r].todo = {}
  BY DEF Aggregate, LiveRound
<1>2. NoneDropped => Verifies(r)
  <2> SUFFICES ASSUME NoneDropped PROVE round[r].partials = round[r].set
    BY DEF Verifies
  <2>1. round[r].set = round[r].partials \cup Held({})
    BY <1>1 DEF FrostInv, CleanUnlessDropped, Undisturbed
  <2> QED BY <2>1 DEF Held
<1> QED BY <1>1, <1>2, EndKeeps DEF Aggregate

\* A request is admitted only while no round is in flight.
LEMMA StartKeeps ==
    ASSUME FrostInv, NEW r \in Rounds, NEW ids \in AskedSets, StartRound(r, ids)
    PROVE  FrostInv'
<1>0. PICK go \in BOOLEAN : go = (ClaimFree /\ Cardinality(ids) >= RoundThreshold)
  OBVIOUS
<1>1. PICK x : x = IF go THEN [NoRound EXCEPT !.pc = "nonces", !.ids = ids, !.todo = ids]
                         ELSE [NoRound EXCEPT !.pc = "refused"]
  OBVIOUS
<1>2. ids \subseteq SignerIds
  BY FrostAssumption
<1>3. /\ x \in RoundRecords
      /\ go => x.pc = "nonces" /\ x.ids = ids /\ x.todo = ids /\ x.set = {} /\ x.partials = {}
      /\ ~go => x.pc = "refused"
  BY <1>1, <1>2 DEF NoRound, RoundRecords
<1>4. /\ round' = [round EXCEPT ![r] = x] /\ claim' = (claim \/ go) /\ UNCHANGED <<nonce, drawn, late>>
      /\ round[r].pc = "idle"
  BY <1>0, <1>1 DEF StartRound
<1>5. /\ round' \in [Rounds -> RoundRecords] /\ round'[r] = x
      /\ \A q \in Rounds \ {r} : round'[q] = round[q]
  BY <1>3, <1>4, SetRound DEF FrostInv
<1>6. go => \A q \in Rounds : ~LiveRound(q)
  BY <1>0 DEF ClaimFree, FrostInv, OneClaim
<1>7. FrostTypeInv'
  BY <1>4, <1>5 DEF FrostInv, FrostTypeInv
<1>8. \A q \in Rounds : LiveRound(q)' => (go /\ q = r) \/ (q # r /\ LiveRound(q))
  BY <1>3, <1>5 DEF LiveRound
<1>9. OneClaim'
  BY <1>4, <1>6, <1>8 DEF FrostInv, OneClaim
<1>10. CleanUnlessDropped'
  <2> SUFFICES ASSUME NoneDropped'
               PROVE  /\ late = {}
                      /\ \A q \in Rounds : round'[q].pc # "unverified" /\ (LiveRound(q)' => Undisturbed(q)')
    BY <1>4 DEF CleanUnlessDropped
  <2>1. NoneDropped
    BY <1>4, <1>5 DEF NoneDropped
  <2>2. late = {} /\ \A q \in Rounds : round[q].pc # "unverified" /\ (LiveRound(q) => Undisturbed(q))
    BY <2>1 DEF FrostInv, CleanUnlessDropped
  <2>3. go => Undisturbed(r)'
    BY <1>3, <1>5 DEF Undisturbed, Held
  <2>4. \A q \in Rounds \ {r} : Undisturbed(q) => Undisturbed(q)'
    BY <1>4, <1>5 DEF Undisturbed, Held
  <2>5. round'[r].pc # "unverified"
    BY <1>3, <1>5
  <2> QED BY <1>5, <1>8, <2>2, <2>3, <2>4, <2>5
<1> QED BY <1>7, <1>9, <1>10 DEF FrostInv

\* Once a handler was dropped, only the claim is still promised.
LEMMA DropKeeps ==
    ASSUME FrostInv, NEW r \in Rounds, DropRound(r)
    PROVE  FrostInv'
<1>1. PICK x : x = [NoRound EXCEPT !.pc = "dropped"]
  OBVIOUS
<1>2. x \in RoundRecords /\ x.pc = "dropped"
  BY <1>1 DEF NoRound, RoundRecords
<1>3. round' = [round EXCEPT ![r] = x] /\ claim' = FALSE /\ UNCHANGED <<nonce, drawn>> /\ LiveRound(r)
  BY <1>1 DEF DropRound, EndRound, LiveRound
<1>4. /\ round' \in [Rounds -> RoundRecords] /\ round'[r] = x
      /\ \A q \in Rounds \ {r} : round'[q] = round[q]
  BY <1>2, <1>3, SetRound DEF FrostInv
<1>5. \A q \in Rounds : ~LiveRound(q)'
  BY <1>2, <1>3, <1>4 DEF FrostInv, OneClaim, LiveRound
<1>6. NextOf(round[r].todo) \in SignerIds
  <2>1. round[r].todo \subseteq SignerIds /\ round[r].todo # {}
    BY DEF FrostInv, FrostTypeInv, RoundRecords, DropRound
  <2>2. round[r].todo \subseteq Nat
    BY <2>1, FrostAssumption
  <2> QED BY <2>1, <2>2, NextOfIn
<1>7. PICK l : l = [pass |-> round[r].pc, signer |-> NextOf(round[r].todo)]
  OBVIOUS
<1>8. late' = late \cup {l} /\ l.signer \in SignerIds
  BY <1>6, <1>7 DEF DropRound
<1>9. FrostTypeInv'
  BY <1>3, <1>4, <1>8 DEF FrostInv, FrostTypeInv
<1>10. ~NoneDropped'
  BY <1>2, <1>4 DEF NoneDropped
<1> QED BY <1>5, <1>9, <1>10 DEF FrostInv, OneClaim, CleanUnlessDropped

\* An abandoned call arrives only after a drop.
LEMMA LateKeeps ==
    ASSUME FrostInv, NEW l \in late, LateCall(l)
    PROVE  FrostInv'
<1>1. UNCHANGED <<claim, round>> /\ late' \subseteq late
  BY DEF LateCall
<1>2. l.signer \in SignerIds /\ drawn \in Nat /\ nonce \in [SignerIds -> Nat]
  BY DEF FrostInv, FrostTypeInv
<1>3. drawn' \in Nat /\ nonce' \in [SignerIds -> Nat]
  BY <1>2 DEF LateCall, DrawNonce, UseNonce
<1>4. FrostTypeInv' /\ OneClaim'
  BY <1>1, <1>3 DEF FrostInv, FrostTypeInv, OneClaim, LiveRound
<1>5. ~NoneDropped'
  BY <1>1 DEF FrostInv, CleanUnlessDropped, NoneDropped
<1> QED BY <1>4, <1>5 DEF FrostInv, CleanUnlessDropped

\* Every step keeps the invariant.
LEMMA FrostStepInv == FrostInv /\ [FrostNext]_frostVars => FrostInv'
<1> SUFFICES ASSUME FrostInv, [FrostNext]_frostVars PROVE FrostInv'
  OBVIOUS
<1>1. ASSUME NEW r \in Rounds, CallFails(r) PROVE FrostInv'
  BY <1>1, EndKeeps DEF CallFails, LiveRound
<1>2. CASE UNCHANGED frostVars
  <2>1. UNCHANGED <<claim, round, nonce, drawn, late>>
    BY <1>2 DEF frostVars
  <2> QED BY <2>1 DEF FrostInv, FrostTypeInv, OneClaim, CleanUnlessDropped, NoneDropped,
                      LiveRound, Undisturbed, Held
<1> QED
  BY <1>1, <1>2, StartKeeps, NonceGenKeeps, CloseKeeps, PartialSignKeeps, AggregateKeeps,
     DropKeeps, LateKeeps DEF FrostNext

\* For every set of requests and signers: a round that runs to its end yields a signature
\* that verifies, unless the handler of some round was dropped (frost_round.rs:45).
THEOREM RoundsVerify == FrostSpec => []UnverifiedOnlyAfterDrop
<1>1. FrostInv => UnverifiedOnlyAfterDrop
  BY DEF FrostInv, CleanUnlessDropped, NoneDropped, UnverifiedOnlyAfterDrop
<1> QED BY <1>1, FrostInitInv, FrostStepInv, PTL DEF FrostSpec

-------------------------------------------------------------------------------
(* Dkg.                                                                    *)

\* The records are records; what their other fields hold does not matter here.
CeremonyShape(a) ==
    a = [cer |-> a.cer, parts |-> a.parts, vss |-> a.vss, r1 |-> a.r1, r15 |-> a.r15,
         r2 |-> a.r2, fin |-> a.fin, imported |-> a.imported]
DriveShape(v) ==
    v = [pc |-> v.pc, leader |-> v.leader, sent15 |-> v.sent15, sent2 |-> v.sent2,
         sentFin |-> v.sentFin, group |-> v.group]

DkgShape ==
    /\ active = [n \in Dealers |-> active[n]] /\ \A n \in Dealers : CeremonyShape(active[n])
    /\ groups = [n \in Dealers |-> groups[n]]
    /\ drive = [c \in DkgIds |-> drive[c]] /\ \A c \in DkgIds : DriveShape(drive[c])
    /\ \A c \in DkgIds : drive[c].pc \in {"drive", "success"} => drive[c].leader \in Dealers

\* A start of round 1 comes from the leader that drives its ceremony, to another node; a
\* key reported as sealed is sealed.
MessageSound(e) ==
    /\ e.to \in Dealers /\ e.msg.from \in Dealers
    /\ e.msg.type = "FinalizeDone" => e.msg.val \in groups[e.msg.from]
    /\ e.msg.type = "Round1Start" =>
         /\ e.msg.cer \in DkgIds /\ e.to # e.msg.from
         /\ drive[e.msg.cer].pc # "idle"
         /\ drive[e.msg.cer].pc = "drive" => drive[e.msg.cer].leader = e.msg.from

NetSound == \A e \in net : MessageSound(e)

\* The keys a record has noted are sealed where they were reported from.
FinSound == \A n \in Dealers : \A f \in active[n].fin : f[1] \in Dealers /\ f[2] \in groups[f[1]]

\* While a leader drives a ceremony, its record names the participants it computed.
LeaderParts ==
    \A c \in DkgIds : drive[c].pc = "drive" /\ active[drive[c].leader].cer = c =>
        active[drive[c].leader].parts = PidAssignment(drive[c].leader)

DkgInv == DkgShape /\ NetSound /\ FinSound /\ LeaderParts /\ SuccessIsShared

\* Messages about which nothing is promised.
QuietMessage(e) ==
    e.to \in Dealers /\ e.msg.from \in Dealers /\ e.msg.type \notin {"FinalizeDone", "Round1Start"}

\* A publication of other steps, or of shares, is quiet.
LEMMA QuietSteps ==
    ASSUME NEW from \in Dealers, NEW type, type \notin {"FinalizeDone", "Round1Start"}, NEW c, NEW val
    PROVE  \A e \in Publish(from, {Step(type, c, from, val)}) : QuietMessage(e)
<1> SUFFICES ASSUME NEW t \in Dealers \ {from}, NEW e, e = [to |-> t, msg |-> Step(type, c, from, val)]
             PROVE  QuietMessage(e)
  BY DEF Publish
<1>1. e.to = t /\ e.msg = Step(type, c, from, val)
  OBVIOUS
<1>2. Step(type, c, from, val).type = type /\ Step(type, c, from, val).from = from
  BY DEF Step
<1> QED BY <1>1, <1>2 DEF QuietMessage

\* Two messages published together are each published.
LEMMA PublishTwo ==
    ASSUME NEW from, NEW m1, NEW m2
    PROVE  Publish(from, {m1, m2}) = Publish(from, {m1}) \cup Publish(from, {m2})
BY DEF Publish

\* So are shares.
LEMMA QuietShares ==
    ASSUME NEW n \in Dealers, NEW targets, targets \subseteq Dealers
    PROVE  \A e \in Shares(n, targets) : QuietMessage(e)
<1> SUFFICES ASSUME NEW t \in targets, NEW e, e = [to |-> t, msg |-> Step("Share", 0, n, session[n].own)]
             PROVE  QuietMessage(e)
  BY DEF Shares, ToPeer
<1>1. e.to = t /\ e.msg = Step("Share", 0, n, session[n].own)
  OBVIOUS
<1>2. e.msg.type = "Share" /\ e.msg.from = n
  BY <1>1 DEF Step
<1> QED BY <1>1, <1>2 DEF QuietMessage

\* An abort is quiet.
LEMMA QuietAbort ==
    ASSUME NEW n \in Dealers
    PROVE  \A e \in AbortActive(n) : QuietMessage(e)
BY QuietSteps DEF AbortActive

\* What is left of the step of one node when its record becomes x, keys are only added,
\* and no ceremony starts or succeeds.
LEMMA NodeStep ==
    ASSUME DkgInv, NEW n \in Dealers, NEW x, CeremonyShape(x), active' = [active EXCEPT ![n] = x],
           \A c \in DkgIds : drive[c].pc = "drive" /\ drive[c].leader = n /\ x.cer = c =>
                                x.parts = PidAssignment(n),
           \A f \in x.fin : f[1] \in Dealers /\ f[2] \in groups'[f[1]],
           groups' = [i \in Dealers |-> groups'[i]], \A i \in Dealers : groups[i] \subseteq groups'[i],
           drive' = [c \in DkgIds |-> drive'[c]],
           \A c \in DkgIds : DriveShape(drive'[c]) /\ drive'[c].pc = drive[c].pc
                             /\ drive'[c].leader = drive[c].leader /\ drive'[c].group = drive[c].group,
           \A e \in net' : e \in net \/ QuietMessage(e) \/ MessageSound(e)'
    PROVE  DkgInv'
<1>1. active'[n] = x /\ \A i \in Dealers \ {n} : active'[i] = active[i]
  BY DEF DkgInv, DkgShape
<1>2. DkgShape'
  BY <1>1 DEF DkgInv, DkgShape
<1>3. NetSound'
  <2>1. ASSUME NEW e \in net PROVE MessageSound(e)'
    BY DEF DkgInv, NetSound, MessageSound
  <2>2. ASSUME NEW e, QuietMessage(e) PROVE MessageSound(e)'
    BY <2>2 DEF QuietMessage, MessageSound
  <2> QED BY <2>1, <2>2 DEF NetSound
<1>4. FinSound'
  BY <1>1 DEF DkgInv, FinSound
<1>5. LeaderParts'
  <2> SUFFICES ASSUME NEW c \in DkgIds, drive[c].pc = "drive", active'[drive[c].leader].cer = c
               PROVE  active'[drive[c].leader].parts = PidAssignment(drive[c].leader)
    BY DEF LeaderParts
  <2>1. drive[c].leader \in Dealers
    BY DEF DkgInv, DkgShape
  <2> QED BY <2>1, <1>1 DEF DkgInv, LeaderParts
<1>6. SuccessIsShared'
  <2> SUFFICES ASSUME NEW c \in DkgIds, drive[c].pc = "success",
                      NEW i \in PidAssignment(drive[c].leader)
               PROVE  drive[c].group \in groups'[i]
    BY DEF SuccessIsShared
  <2>1. drive[c].group \in groups[i]
    BY DEF DkgInv, SuccessIsShared
  <2>2. drive[c].leader \in Dealers
    BY DEF DkgInv, DkgShape
  <2>3. i \in Dealers
    BY <2>2, DkgAssumption DEF PidAssignment
  <2> QED BY <2>1, <2>3
<1> QED BY <1>2, <1>3, <1>4, <1>5, <1>6 DEF DkgInv

\* The record of n keeps its ceremony and its participants.
LEMMA SameCeremony ==
    ASSUME DkgInv, NEW n \in Dealers, NEW x,
           (x.cer = active[n].cer /\ x.parts = active[n].parts) \/ x.cer = 0
    PROVE  \A c \in DkgIds : drive[c].pc = "drive" /\ drive[c].leader = n /\ x.cer = c =>
               x.parts = PidAssignment(n)
<1> SUFFICES ASSUME NEW c \in DkgIds, drive[c].pc = "drive", drive[c].leader = n, x.cer = c
             PROVE  x.parts = PidAssignment(n)
  OBVIOUS
<1>1. c # 0
  BY DkgAssumption
<1> QED BY <1>1 DEF DkgInv, LeaderParts

\* A step of n that leaves the drivers and the sealed keys alone.
LEMMA RecordStep ==
    ASSUME DkgInv, NEW n \in Dealers, NEW x, CeremonyShape(x), active' = [active EXCEPT ![n] = x],
           (x.cer = active[n].cer /\ x.parts = active[n].parts) \/ x.cer = 0,
           \A f \in x.fin : f[1] \in Dealers /\ f[2] \in groups[f[1]],
           UNCHANGED <<groups, drive>>,
           \A e \in net' : e \in net \/ QuietMessage(e)
    PROVE  DkgInv'
<1>1. /\ groups' = [i \in Dealers |-> groups'[i]]
      /\ drive' = [c \in DkgIds |-> drive'[c]]
      /\ \A c \in DkgIds : DriveShape(drive'[c])
  BY DEF DkgInv, DkgShape
<1>2. \A c \in DkgIds : drive[c].pc = "drive" /\ drive[c].leader = n /\ x.cer = c =>
          x.parts = PidAssignment(n)
  BY SameCeremony
<1>3. /\ \A f \in x.fin : f[1] \in Dealers /\ f[2] \in groups'[f[1]]
      /\ \A i \in Dealers : groups[i] \subseteq groups'[i]
      /\ \A c \in DkgIds : drive'[c].pc = drive[c].pc /\ drive'[c].leader = drive[c].leader
                             /\ drive'[c].group = drive[c].group
  OBVIOUS
<1> QED BY <1>1, <1>2, <1>3, NodeStep

\* A step of n that leaves all records, drivers and sealed keys alone.
LEMMA QuietDkg ==
    ASSUME DkgInv, UNCHANGED <<active, groups, drive>>,
           \A e \in net' : e \in net \/ QuietMessage(e)
    PROVE  DkgInv'
<1>1. DkgShape' /\ FinSound' /\ LeaderParts' /\ SuccessIsShared'
  BY DEF DkgInv, DkgShape, FinSound, LeaderParts, SuccessIsShared
<1>2. NetSound'
  <2>1. ASSUME NEW e \in net PROVE MessageSound(e)'
    BY DEF DkgInv, NetSound, MessageSound
  <2>2. ASSUME NEW e, QuietMessage(e) PROVE MessageSound(e)'
    BY <2>2 DEF QuietMessage, MessageSound
  <2> QED BY <2>1, <2>2 DEF NetSound
<1> QED BY <1>1, <1>2 DEF DkgInv

\* The record of no ceremony.
LEMMA NoneShape == CeremonyShape(NoCeremony) /\ NoCeremony.cer = 0 /\ NoCeremony.fin = {}
BY DEF CeremonyShape, NoCeremony

\* A node seals the key of its session, notes it and reports it.
LEMMA FinalizeKeeps ==
    ASSUME DkgInv, NEW n \in Dealers, NEW c, FinalizeStart(n, c),
           drive' = [b \in DkgIds |-> drive'[b]],
           \A b \in DkgIds : DriveShape(drive'[b]) /\ drive'[b].pc = drive[b].pc
                             /\ drive'[b].leader = drive[b].leader /\ drive'[b].group = drive[b].group,
           \A e \in net' : \/ e \in net \/ QuietMessage(e)
                           \/ e \in Publish(n, {Step("FinalizeDone", c, n, GroupKey(n))})
    PROVE  DkgInv'
<1>1. PICK a, k : a = active[n] /\ k = GroupKey(n)
  OBVIOUS
<1>2. CeremonyShape(a) /\ \A f \in a.fin : f[1] \in Dealers /\ f[2] \in groups[f[1]]
  BY <1>1 DEF DkgInv, DkgShape, FinSound
<1>3. PICK x : x = [a EXCEPT !.fin = @ \cup {<<n, k>>}]
  OBVIOUS
<1>4. CeremonyShape(x) /\ x.cer = a.cer /\ x.parts = a.parts /\ x.fin = a.fin \cup {<<n, k>>}
  BY <1>2, <1>3 DEF CeremonyShape
<1>5. groups' = [groups EXCEPT ![n] = @ \cup {k}] /\ active' = [active EXCEPT ![n] = x]
  <2>1. groups' = [groups EXCEPT ![n] = @ \cup {k}] /\ active' = [active EXCEPT ![n].fin = @ \cup {<<n, k>>}]
    BY <1>1 DEF FinalizeStart
  <2> QED BY <2>1, <1>1, <1>3 DEF DkgInv, DkgShape
<1>6. /\ groups' = [i \in Dealers |-> groups'[i]] /\ \A i \in Dealers : groups[i] \subseteq groups'[i]
      /\ k \in groups'[n]
  BY <1>5 DEF DkgInv, DkgShape
<1>7. \A f \in x.fin : f[1] \in Dealers /\ f[2] \in groups'[f[1]]
  BY <1>2, <1>4, <1>6
<1>8. ASSUME NEW e \in Publish(n, {Step("FinalizeDone", c, n, k)}) PROVE MessageSound(e)'
  <2>1. PICK t \in Dealers : e = [to |-> t, msg |-> Step("FinalizeDone", c, n, k)]
    BY DEF Publish
  <2>2. e.to = t /\ e.msg = Step("FinalizeDone", c, n, k)
    BY <2>1
  <2>3. e.msg.type = "FinalizeDone" /\ e.msg.from = n /\ e.msg.val = k
    BY <2>2 DEF Step
  <2> QED BY <2>2, <2>3, <1>6 DEF MessageSound
<1>9. \A e \in net' : e \in net \/ QuietMessage(e) \/ MessageSound(e)'
  BY <1>1, <1>8
<1>10. \A b \in DkgIds : drive[b].pc = "drive" /\ drive[b].leader = n /\ x.cer = b =>
           x.parts = PidAssignment(n)
  BY <1>1, <1>4, SameCeremony
<1> QED BY <1>4, <1>5, <1>6, <1>7, <1>9, <1>10, NodeStep

\* The acknowledgements of the others.
LEMMA FollowAckKeeps ==
    ASSUME DkgInv, NEW e \in net, FollowAck(e.to, e.msg)
    PROVE  DkgInv'
<1>1. PICK n, m : n = e.to /\ m = e.msg
  OBVIOUS
<1>2. MessageSound(e) /\ n \in Dealers /\ m.from \in Dealers
  BY <1>1 DEF DkgInv, NetSound, MessageSound
<1>3. PICK a : a = active[n]
  OBVIOUS
<1>4. CeremonyShape(a) /\ \A f \in a.fin : f[1] \in Dealers /\ f[2] \in groups[f[1]]
  BY <1>2, <1>3 DEF DkgInv, DkgShape, FinSound
<1>5. PICK x : x = Observe(n, m)
  OBVIOUS
<1>6. active' = [active EXCEPT ![n] = x] /\ net' \subseteq net /\ UNCHANGED <<groups, drive>>
      /\ m.type \in Acks
  BY <1>1, <1>5 DEF FollowAck
<1>7. /\ CeremonyShape(x)
      /\ (x.cer = a.cer /\ x.parts = a.parts) \/ x.cer = 0
      /\ \A f \in x.fin : f[1] \in Dealers /\ f[2] \in groups[f[1]]
  <2>1. CASE x = a
    BY <2>1, <1>4
  <2>2. CASE x = [a EXCEPT !.vss = @ \cup {m.val}, !.r1 = @ \cup {m.from}]
    BY <2>2, <1>4 DEF CeremonyShape
  <2>3. CASE x = [a EXCEPT !.r15 = @ \cup {m.from}]
    BY <2>3, <1>4 DEF CeremonyShape
  <2>4. CASE x = [a EXCEPT !.r2 = @ \cup {m.from}]
    BY <2>4, <1>4 DEF CeremonyShape
  <2>5. CASE m.type = "FinalizeDone" /\ x = [a EXCEPT !.fin = @ \cup {<<m.from, m.val>>}]
    <3>1. m.val \in groups[m.from]
      BY <2>5, <1>1, <1>2 DEF MessageSound
    <3>2. /\ CeremonyShape(x) /\ x.cer = a.cer /\ x.parts = a.parts
          /\ x.fin = a.fin \cup {<<m.from, m.val>>}
      BY <2>5, <1>4 DEF CeremonyShape
    <3> QED BY <3>1, <3>2, <1>2, <1>4
  <2>6. CASE x = NoCeremony
    BY <2>6, NoneShape
  <2> QED BY <2>1, <2>2, <2>3, <2>4, <2>5, <2>6, <1>3, <1>5 DEF Observe
<1> QED BY <1>2, <1>3, <1>6, <1>7, RecordStep

\* The starts that the leader publishes.
LEMMA FollowStartKeeps ==
    ASSUME DkgInv, NEW e \in net, FollowStart(e.to, e.msg)
    PROVE  DkgInv'
<1>1. PICK n, m : n = e.to /\ m = e.msg
  OBVIOUS
<1>2. MessageSound(e) /\ n \in Dealers /\ m.from \in Dealers
  BY <1>1 DEF DkgInv, NetSound, MessageSound
<1>3. PICK a : a = active[n]
  OBVIOUS
<1>4. CeremonyShape(a) /\ \A f \in a.fin : f[1] \in Dealers /\ f[2] \in groups[f[1]]
  BY <1>2, <1>3 DEF DkgInv, DkgShape, FinSound
<1>5. /\ groups = [i \in Dealers |-> groups[i]] /\ drive = [c \in DkgIds |-> drive[c]]
      /\ \A c \in DkgIds : DriveShape(drive[c])
  BY DEF DkgInv, DkgShape
<1>6. CASE m.type = "Round1Start" /\ Round1Start(n, m)
             /\ Sends(net \ {ToPeer(n, m)}, Publish(n, {Step("Round1Done", m.cer, n, <<n, m.cer>>)}))
  <2>0. PICK x : x = [NoCeremony EXCEPT !.cer = m.cer, !.parts = m.val, !.vss = {<<n, m.cer>>}, !.r1 = {n}]
    OBVIOUS
  <2>1. CeremonyShape(x) /\ x.cer = m.cer /\ x.parts = m.val /\ x.fin = {}
    BY <2>0 DEF CeremonyShape, NoCeremony
  <2>2. active' = [active EXCEPT ![n] = x] /\ UNCHANGED <<groups, drive>>
    BY <1>1, <1>6, <2>0 DEF Round1Start, FollowStart
  <2>3. \A c \in DkgIds : drive[c].pc = "drive" /\ drive[c].leader = n => x.cer # c
    BY <1>1, <1>2, <1>6, <2>1 DEF MessageSound
  <2>4. \A d \in net' : d \in net \/ QuietMessage(d)
    BY <1>2, <1>6, QuietSteps DEF Sends
  <2> QED BY <1>2, <1>5, <2>1, <2>2, <2>3, <2>4, NodeStep
<1>7. CASE m.type = "Round15Start" /\ Round15Start(n)
             /\ Sends(net \ {ToPeer(n, m)}, Shares(n, Round15Targets(n))
                        \cup Publish(n, {Step("Round15Done", m.cer, n, {})}))
  <2>1. PICK x : x = [a EXCEPT !.r15 = @ \cup {n}]
    OBVIOUS
  <2>2. CeremonyShape(x) /\ x.cer = a.cer /\ x.parts = a.parts /\ x.fin = a.fin
    BY <1>4, <2>1 DEF CeremonyShape
  <2>3. active' = [active EXCEPT ![n] = x] /\ UNCHANGED <<groups, drive>>
    BY <1>1, <1>2, <1>3, <1>7, <2>1 DEF Round15Start, FollowStart, DkgInv, DkgShape
  <2>4. Round15Targets(n) \subseteq Dealers
    BY <1>1, <1>2, <1>7, DkgAssumption DEF FollowStart, CanStep
  <2>5. \A d \in net' : d \in net \/ QuietMessage(d)
    BY <1>2, <1>7, <2>4, QuietSteps, QuietShares DEF Sends
  <2> QED BY <1>2, <1>3, <1>4, <2>2, <2>3, <2>5, RecordStep
<1>8. CASE m.type = "Round2Start" /\ net' = net \ {ToPeer(n, m)}
             /\ UNCHANGED <<active, session, groups, importing>>
  BY <1>8, QuietDkg DEF FollowStart
<1>9. CASE m.type = "FinalizeStart" /\ FinalizeStart(n, m.cer)
             /\ Sends(net \ {ToPeer(n, m)}, Publish(n, {Step("FinalizeDone", m.cer, n, GroupKey(n))}))
  <2>1. UNCHANGED drive
    BY DEF FollowStart
  <2>2. \A d \in net' : d \in net \/ d \in Publish(n, {Step("FinalizeDone", m.cer, n, GroupKey(n))})
    BY <1>9 DEF Sends
  <2>3. \A b \in DkgIds : DriveShape(drive'[b]) /\ drive'[b].pc = drive[b].pc
                           /\ drive'[b].leader = drive[b].leader /\ drive'[b].group = drive[b].group
    BY <1>5, <2>1
  <2>4. drive' = [b \in DkgIds |-> drive'[b]]
    BY <1>5, <2>1
  <2> QED BY <1>2, <1>9, <2>2, <2>3, <2>4, FinalizeKeeps
<1> QED BY <1>1, <1>6, <1>7, <1>8, <1>9 DEF FollowStart

\* A step of n that keeps its ceremony, its participants and the keys it has noted, while
\* the driver of a ceremony may note how far it is.
LEMMA PlainStep ==
    ASSUME DkgInv, NEW n \in Dealers, NEW x, CeremonyShape(x), active' = [active EXCEPT ![n] = x],
           x.cer = active[n].cer, x.parts = active[n].parts, x.fin = active[n].fin, UNCHANGED groups,
           drive' = [b \in DkgIds |-> drive'[b]],
           \A b \in DkgIds : DriveShape(drive'[b]) /\ drive'[b].pc = drive[b].pc
                             /\ drive'[b].leader = drive[b].leader /\ drive'[b].group = drive[b].group,
           \A e \in net' : e \in net \/ QuietMessage(e)
    PROVE  DkgInv'
<1>1. groups' = [i \in Dealers |-> groups'[i]] /\ \A i \in Dealers : groups[i] \subseteq groups'[i]
  BY DEF DkgInv, DkgShape
<1>2. \A c \in DkgIds : drive[c].pc = "drive" /\ drive[c].leader = n /\ x.cer = c =>
          x.parts = PidAssignment(n)
  BY SameCeremony
<1>3. \A f \in x.fin : f[1] \in Dealers /\ f[2] \in groups'[f[1]]
  BY DEF DkgInv, FinSound
<1> QED BY <1>1, <1>2, <1>3, NodeStep

\* A node notes that it has finished round 2.
LEMMA Round2Keeps ==
    ASSUME DkgInv, NEW n \in Dealers, NEW c, Round2Start(n, c),
           drive' = [b \in DkgIds |-> drive'[b]],
           \A b \in DkgIds : DriveShape(drive'[b]) /\ drive'[b].pc = drive[b].pc
                             /\ drive'[b].leader = drive[b].leader /\ drive'[b].group = drive[b].group,
           \A e \in net' : e \in net \/ QuietMessage(e)
    PROVE  DkgInv'
<1>1. PICK a, s : a = active[n] /\ s = IF active[n].cer = c THEN active[n].r2 \cup {n} ELSE active[n].r2
  OBVIOUS
<1>2. PICK x : x = [a EXCEPT !.r2 = s]
  OBVIOUS
<1>3. active' = [active EXCEPT ![n] = x] /\ UNCHANGED groups
  BY <1>1, <1>2 DEF Round2Start, DkgInv, DkgShape
<1>4. CeremonyShape(a)
  BY <1>1 DEF DkgInv, DkgShape
<1>5. CeremonyShape(x) /\ x.cer = a.cer /\ x.parts = a.parts /\ x.fin = a.fin
  BY <1>2, <1>4 DEF CeremonyShape
<1> QED BY <1>1, <1>3, <1>5, PlainStep

\* The leader notes that it has sent its shares.
LEMMA Round15Keeps ==
    ASSUME DkgInv, NEW n \in Dealers, Round15Start(n),
           drive' = [b \in DkgIds |-> drive'[b]],
           \A b \in DkgIds : DriveShape(drive'[b]) /\ drive'[b].pc = drive[b].pc
                             /\ drive'[b].leader = drive[b].leader /\ drive'[b].group = drive[b].group,
           \A e \in net' : e \in net \/ QuietMessage(e)
    PROVE  DkgInv'
<1>1. PICK a : a = active[n]
  OBVIOUS
<1>2. PICK x : x = [a EXCEPT !.r15 = @ \cup {n}]
  OBVIOUS
<1>3. active' = [active EXCEPT ![n] = x] /\ UNCHANGED groups
  BY <1>1, <1>2 DEF Round15Start, DkgInv, DkgShape
<1>4. CeremonyShape(a)
  BY <1>1 DEF DkgInv, DkgShape
<1>5. CeremonyShape(x) /\ x.cer = a.cer /\ x.parts = a.parts /\ x.fin = a.fin
  BY <1>2, <1>4 DEF CeremonyShape
<1> QED BY <1>1, <1>3, <1>5, PlainStep

\* The other steps of the follower and the importer.
LEMMA FollowRestKeeps ==
    ASSUME DkgInv
    PROVE  /\ \A e \in net : FollowError(e.to, e.msg) => DkgInv'
           /\ \A e \in net : LookUpShare(e.to, e.msg) \/ LoseMessage(e) => DkgInv'
           /\ \A n \in Dealers, tardy \in BOOLEAN : FollowRound2(n, tardy) => DkgInv'
           /\ \A n \in Dealers : ImportShare(n) \/ MarkImported(n) => DkgInv'
<1>1. ASSUME NEW e \in net, FollowError(e.to, e.msg) PROVE DkgInv'
  <2>1. PICK n : n = e.to
    OBVIOUS
  <2>2. n \in Dealers /\ Roster[n] \subseteq Dealers
    BY <2>1, DkgAssumption DEF DkgInv, NetSound, MessageSound
  <2>3. PICK sent \in SUBSET (Roster[n] \cap Round15Targets(n)) :
           Sends(net \ {ToPeer(e.to, e.msg)}, Shares(n, sent) \cup AbortActive(n))
    BY <1>1, <2>1 DEF FollowError
  <2>4. \A d \in net' : d \in net \/ QuietMessage(d)
    BY <2>2, <2>3, QuietShares, QuietAbort DEF Sends
  <2> QED BY <1>1, <2>4, QuietDkg DEF FollowError
<1>2. ASSUME NEW e \in net, LookUpShare(e.to, e.msg) \/ LoseMessage(e) PROVE DkgInv'
  <2>1. net' \subseteq net /\ UNCHANGED <<active, groups, drive>>
    BY <1>2 DEF LookUpShare, LoseMessage
  <2> QED BY <2>1, QuietDkg
<1>3. ASSUME NEW n \in Dealers, NEW tardy \in BOOLEAN, FollowRound2(n, tardy) PROVE DkgInv'
  <2>1. CASE tardy
    <3>1. UNCHANGED <<active, groups, drive>> /\ net' = net \cup AbortActive(n)
      BY <1>3, <2>1 DEF FollowRound2, Sends
    <3> QED BY <3>1, QuietAbort, QuietDkg
  <2>2. CASE ~tardy
    <3>1. Round2Start(n, waiting[n]) /\ UNCHANGED drive
          /\ net' = net \cup Publish(n, {Step("Round2Done", waiting[n], n, {})})
      BY <1>3, <2>2 DEF FollowRound2, Sends
    <3>2. \A d \in net' : d \in net \/ QuietMessage(d)
      BY <3>1, QuietSteps
    <3>3. /\ drive' = [b \in DkgIds |-> drive'[b]]
          /\ \A b \in DkgIds : DriveShape(drive'[b]) /\ drive'[b].pc = drive[b].pc
                               /\ drive'[b].leader = drive[b].leader /\ drive'[b].group = drive[b].group
      BY <3>1 DEF DkgInv, DkgShape
    <3> QED BY <3>1, <3>2, <3>3, Round2Keeps
  <2> QED BY <2>1, <2>2
<1>4. ASSUME NEW n \in Dealers, ImportShare(n) PROVE DkgInv'
  BY <1>4, QuietDkg DEF ImportShare
<1>5. ASSUME NEW n \in Dealers, MarkImported(n) PROVE DkgInv'
  <2>1. PICK a, i : a = active[n] /\ i = IF active[n] = NoCeremony THEN active[n].imported
                                         ELSE active[n].imported \cup {importing[n].from}
    OBVIOUS
  <2>2. CeremonyShape(a) /\ \A f \in a.fin : f[1] \in Dealers /\ f[2] \in groups[f[1]]
    BY <2>1 DEF DkgInv, DkgShape, FinSound
  <2>3. PICK x : x = [a EXCEPT !.imported = i]
    OBVIOUS
  <2>4. CeremonyShape(x) /\ x.cer = a.cer /\ x.parts = a.parts /\ x.fin = a.fin
    BY <2>2, <2>3 DEF CeremonyShape
  <2>5. active' = [active EXCEPT ![n] = x]
    BY <1>5, <2>1, <2>3 DEF MarkImported, DkgInv, DkgShape
  <2> QED BY <1>5, <2>1, <2>2, <2>4, <2>5, RecordStep DEF MarkImported
<1> QED BY <1>1, <1>2, <1>3, <1>4, <1>5

\* What setting one field of a driver's record leaves alone.
LEMMA DriveNoted ==
    ASSUME DkgInv, NEW c \in DkgIds,
           \/ drive' = [drive EXCEPT ![c].sent15 = TRUE]
           \/ drive' = [drive EXCEPT ![c].sent2 = TRUE]
           \/ drive' = [drive EXCEPT ![c].sentFin = TRUE]
    PROVE  /\ drive' = [b \in DkgIds |-> drive'[b]]
           /\ \A b \in DkgIds : DriveShape(drive'[b]) /\ drive'[b].pc = drive[b].pc
                                /\ drive'[b].leader = drive[b].leader /\ drive'[b].group = drive[b].group
<1>1. drive = [b \in DkgIds |-> drive[b]] /\ \A b \in DkgIds : DriveShape(drive[b])
  BY DEF DkgInv, DkgShape
<1>2. PICK v : /\ drive' = [drive EXCEPT ![c] = v]
               /\ \/ v = [drive[c] EXCEPT !.sent15 = TRUE] \/ v = [drive[c] EXCEPT !.sent2 = TRUE]
                  \/ v = [drive[c] EXCEPT !.sentFin = TRUE]
  BY <1>1
<1>3. /\ DriveShape(v) /\ v.pc = drive[c].pc /\ v.leader = drive[c].leader /\ v.group = drive[c].group
  BY <1>1, <1>2 DEF DriveShape
<1>4. drive'[c] = v /\ \A b \in DkgIds \ {c} : drive'[b] = drive[b]
  BY <1>1, <1>2
<1>5. drive' = [b \in DkgIds |-> drive'[b]]
  BY <1>1, <1>2
<1> QED BY <1>1, <1>3, <1>4, <1>5

\* The driver of a ceremony goes on: a round starts, or cannot.
LEMMA DriveOnKeeps ==
    ASSUME DkgInv, NEW c \in DkgIds
    PROVE  /\ DriveRound15(c) => DkgInv'
           /\ \A tardy \in BOOLEAN : DriveRound2(c, tardy) => DkgInv'
           /\ DriveFinalize(c) => DkgInv'
<1>1. PICK d : d = drive[c].leader
  OBVIOUS
<1>2. drive[c].pc = "drive" => d \in Dealers /\ CeremonyShape(active[d])
  BY <1>1 DEF DkgInv, DkgShape
<1>3. ASSUME d \in Dealers, UNCHANGED <<active, groups, net>>, 
             drive' = [b \in DkgIds |-> drive'[b]],
             \A b \in DkgIds : DriveShape(drive'[b]) /\ drive'[b].pc = drive[b].pc
                             /\ drive'[b].leader = drive[b].leader /\ drive'[b].group = drive[b].group
      PROVE  DkgInv'
  <2>1. active' = [active EXCEPT ![d] = active[d]] /\ CeremonyShape(active[d])
    BY <1>3 DEF DkgInv, DkgShape
  <2> QED BY <1>3, <2>1, PlainStep
<1>4. ASSUME DriveRound15(c) PROVE DkgInv'
  <2>1. d \in Dealers
    BY <1>2, <1>4 DEF DriveRound15, Leading
  <2>2. /\ drive' = [b \in DkgIds |-> drive'[b]]
        /\ \A b \in DkgIds : DriveShape(drive'[b]) /\ drive'[b].pc = drive[b].pc
                             /\ drive'[b].leader = drive[b].leader /\ drive'[b].group = drive[b].group
    BY <1>4, DriveNoted DEF DriveRound15
  <2>3. CASE Round15Targets(d) \subseteq Roster[d]
    <3>1. Round15Targets(d) \subseteq Dealers
      BY <2>1, <2>3, DkgAssumption
    <3>2. /\ Round15Start(d)
          /\ net' = net \cup (Shares(d, Round15Targets(d)) \cup
                   Publish(d, {Step("Round15Done", c, d, {}), Step("Round15Start", c, d, {})}))
      BY <1>1, <1>4, <2>3 DEF DriveRound15, Sends
    <3>3. Publish(d, {Step("Round15Done", c, d, {}), Step("Round15Start", c, d, {})})
            = Publish(d, {Step("Round15Done", c, d, {})}) \cup Publish(d, {Step("Round15Start", c, d, {})})
      BY PublishTwo, Zenon
    <3>4. /\ \A e \in Publish(d, {Step("Round15Done", c, d, {})}) : QuietMessage(e)
          /\ \A e \in Publish(d, {Step("Round15Start", c, d, {})}) : QuietMessage(e)
          /\ \A e \in Shares(d, Round15Targets(d)) : QuietMessage(e)
      BY <2>1, <3>1, QuietSteps, QuietShares
    <3>5. \A e \in net' : e \in net \/ QuietMessage(e)
      BY <3>2, <3>3, <3>4
    <3> QED BY <2>1, <2>2, <3>2, <3>5, Round15Keeps
  <2>4. CASE ~(Round15Targets(d) \subseteq Roster[d])
    BY <1>1, <1>3, <1>4, <2>1, <2>2, <2>4 DEF DriveRound15
  <2> QED BY <2>3, <2>4
<1>5. ASSUME NEW tardy \in BOOLEAN, DriveRound2(c, tardy) PROVE DkgInv'
  <2>1. d \in Dealers
    BY <1>2, <1>5 DEF DriveRound2, Leading
  <2>2. /\ drive' = [b \in DkgIds |-> drive'[b]]
        /\ \A b \in DkgIds : DriveShape(drive'[b]) /\ drive'[b].pc = drive[b].pc
                             /\ drive'[b].leader = drive[b].leader /\ drive'[b].group = drive[b].group
    BY <1>5, DriveNoted DEF DriveRound2
  <2>3. CASE ~tardy
    <3>2. /\ Round2Start(d, c)
          /\ net' = net \cup Publish(d, {Step("Round2Done", c, d, {}), Step("Round2Start", c, d, {})})
      BY <1>1, <1>5, <2>3 DEF DriveRound2, Sends
    <3>3. Publish(d, {Step("Round2Done", c, d, {}), Step("Round2Start", c, d, {})})
            = Publish(d, {Step("Round2Done", c, d, {})}) \cup Publish(d, {Step("Round2Start", c, d, {})})
      BY PublishTwo, Zenon
    <3>4. /\ \A e \in Publish(d, {Step("Round2Done", c, d, {})}) : QuietMessage(e)
          /\ \A e \in Publish(d, {Step("Round2Start", c, d, {})}) : QuietMessage(e)
      BY <2>1, QuietSteps
    <3>5. \A e \in net' : e \in net \/ QuietMessage(e)
      BY <3>2, <3>3, <3>4
    <3> QED BY <2>1, <2>2, <3>2, <3>5, Round2Keeps
  <2>4. CASE tardy
    BY <1>3, <1>5, <2>1, <2>2, <2>4 DEF DriveRound2
  <2> QED BY <2>3, <2>4
<1>6. ASSUME DriveFinalize(c) PROVE DkgInv'
  <2>1. d \in Dealers
    BY <1>2, <1>6 DEF DriveFinalize, Leading
  <2>2. /\ drive' = [b \in DkgIds |-> drive'[b]]
        /\ \A b \in DkgIds : DriveShape(drive'[b]) /\ drive'[b].pc = drive[b].pc
                             /\ drive'[b].leader = drive[b].leader /\ drive'[b].group = drive[b].group
    BY <1>6, DriveNoted DEF DriveFinalize
  <2>3. CASE SessionFull(d)
    <3>2. /\ FinalizeStart(d, c)
          /\ net' = net \cup Publish(d, {Step("FinalizeDone", c, d, GroupKey(d)),
                                         Step("FinalizeStart", c, d, {})})
      BY <1>1, <1>6, <2>3 DEF DriveFinalize, Sends
    <3>3. \A e \in net' : \/ e \in net \/ QuietMessage(e)
                          \/ e \in Publish(d, {Step("FinalizeDone", c, d, GroupKey(d))})
      <4>1. Publish(d, {Step("FinalizeDone", c, d, GroupKey(d)), Step("FinalizeStart", c, d, {})})
              = Publish(d, {Step("FinalizeDone", c, d, GroupKey(d))})
                  \cup Publish(d, {Step("FinalizeStart", c, d, {})})
        BY PublishTwo, Zenon
      <4>2. \A e \in Publish(d, {Step("FinalizeStart", c, d, {})}) : QuietMessage(e)
        BY <2>1, QuietSteps
      <4> QED BY <3>2, <4>1, <4>2
    <3> QED BY <2>1, <2>2, <3>2, <3>3, FinalizeKeeps
  <2>4. CASE ~SessionFull(d)
    BY <1>1, <1>3, <1>6, <2>1, <2>2, <2>4 DEF DriveFinalize
  <2> QED BY <2>3, <2>4
<1> QED BY <1>4, <1>5, <1>6

\* The driver of c is replaced by v, which drives nothing, and the leader's record may
\* be cleared: what v reports as a success must be shared.
LEMMA DriverEnds ==
    ASSUME DkgInv, NEW c \in DkgIds, drive[c].pc = "drive", NEW v, DriveShape(v),
           drive' = [drive EXCEPT ![c] = v], v.pc \notin {"idle", "drive"},
           v.pc = "success" => /\ v.leader = drive[c].leader
                               /\ \A n \in PidAssignment(v.leader) : v.group \in groups[n],
           UNCHANGED <<groups, net>>,
           UNCHANGED active \/ active' = [active EXCEPT ![drive[c].leader] = NoCeremony]
    PROVE  DkgInv'
<1>1. drive'[c] = v /\ \A b \in DkgIds \ {c} : drive'[b] = drive[b]
  BY DEF DkgInv, DkgShape
<1>2. drive' = [b \in DkgIds |-> drive'[b]] /\ drive[c].leader \in Dealers
  BY DEF DkgInv, DkgShape
<1>3. \A n \in Dealers : active'[n] = active[n] \/ active'[n] = NoCeremony
  BY DEF DkgInv, DkgShape
<1>4. DkgShape'
  <2>1. active' = [n \in Dealers |-> active'[n]] /\ \A n \in Dealers : CeremonyShape(active'[n])
    BY <1>3, NoneShape DEF DkgInv, DkgShape
  <2>2. \A b \in DkgIds : DriveShape(drive'[b])
                          /\ (drive'[b].pc \in {"drive", "success"} => drive'[b].leader \in Dealers)
    BY <1>1, <1>2 DEF DkgInv, DkgShape
  <2> QED BY <1>2, <2>1, <2>2 DEF DkgInv, DkgShape
<1>5. NetSound'
  <2>1. ASSUME NEW e \in net PROVE MessageSound(e)'
    BY <1>1 DEF DkgInv, NetSound, MessageSound
  <2> QED BY <2>1 DEF NetSound
<1>6. FinSound'
  BY <1>3, NoneShape DEF DkgInv, FinSound
<1>7. LeaderParts'
  <2> SUFFICES ASSUME NEW b \in DkgIds, drive'[b].pc = "drive", active'[drive'[b].leader].cer = b
               PROVE  active'[drive'[b].leader].parts = PidAssignment(drive'[b].leader)
    BY DEF LeaderParts
  <2>1. drive'[b] = drive[b] /\ drive[b].leader \in Dealers /\ b # 0
    BY <1>1, DkgAssumption DEF DkgInv, DkgShape
  <2>2. active'[drive[b].leader] = active[drive[b].leader]
    BY <1>3, <2>1, NoneShape
  <2> QED BY <2>1, <2>2 DEF DkgInv, LeaderParts
<1>8. SuccessIsShared'
  BY <1>1 DEF DkgInv, SuccessIsShared
<1> QED BY <1>4, <1>5, <1>6, <1>7, <1>8 DEF DkgInv

\* The comparison of the keys reported by everyone.
LEMMA DriveDoneKeeps ==
    ASSUME DkgInv, NEW c \in DkgIds, DriveDone(c)
    PROVE  DkgInv'
<1>1. PICK d, fin : d = drive[c].leader /\ fin = active[d].fin
  OBVIOUS
<1>2. drive[c].pc = "drive" /\ d \in Dealers /\ active[d].cer = c
  BY <1>1 DEF DkgInv, DkgShape, DriveDone, Leading
<1>3. {f[1] : f \in fin} = PidAssignment(d)
  BY <1>1, <1>2 DEF DkgInv, LeaderParts, DriveDone, Everyone
<1>4. \A f \in fin : f[2] \in groups[f[1]]
  BY <1>1, <1>2 DEF DkgInv, FinSound
<1>5. CASE Consistent(fin)
  <2>1. PICK k : k = (CHOOSE f \in fin : TRUE)[2]
    OBVIOUS
  <2>2. fin # {}
    BY <1>3 DEF PidAssignment
  <2>3. \A f \in fin : f[2] = k
    BY <1>5, <2>1, <2>2 DEF Consistent
  <2>4. \A n \in PidAssignment(d) : k \in groups[n]
    BY <1>3, <1>4, <2>3
  <2>5. PICK v : v = [NoDrive EXCEPT !.pc = "success", !.leader = drive[c].leader, !.group = k]
    OBVIOUS
  <2>6. DriveShape(v) /\ v.pc = "success" /\ v.leader = d /\ v.group = k
    BY <1>1, <2>5 DEF DriveShape, NoDrive
  <2>7. drive' = [drive EXCEPT ![c] = v]
    BY <1>1, <1>5, <2>1, <2>5 DEF DriveDone
  <2> QED BY <1>1, <1>2, <2>4, <2>6, <2>7, DriverEnds DEF DriveDone
<1>6. CASE ~Consistent(fin)
  <2>1. PICK v : v = [NoDrive EXCEPT !.pc = "diverged"]
    OBVIOUS
  <2>2. DriveShape(v) /\ v.pc = "diverged"
    BY <2>1 DEF DriveShape, NoDrive
  <2>3. drive' = [drive EXCEPT ![c] = v]
    BY <1>1, <1>6, <2>1 DEF DriveDone
  <2> QED BY <1>2, <2>2, <2>3, DriverEnds DEF DriveDone
<1> QED BY <1>5, <1>6

\* The handler's deadline.
LEMMA DriveTimeoutKeeps ==
    ASSUME DkgInv, NEW c \in DkgIds, DriveTimeout(c)
    PROVE  DkgInv'
<1>1. PICK v : v = [NoDrive EXCEPT !.pc = "timeout"]
  OBVIOUS
<1>2. DriveShape(v) /\ v.pc = "timeout"
  BY <1>1 DEF DriveShape, NoDrive
<1>3. drive' = [drive EXCEPT ![c] = v]
  BY <1>1 DEF DriveTimeout
<1> QED BY <1>2, <1>3, DriverEnds DEF DriveTimeout

\* A leader starts a ceremony whose number nobody has used.
LEMMA StartDkgKeeps ==
    ASSUME DkgInv, NEW c \in DkgIds, NEW d \in Dealers, StartDkg(c, d)
    PROVE  DkgInv'
<1>1. PICK m : m = Step("Round1Start", c, d, PidAssignment(d))
  OBVIOUS
<1>2. m.type = "Round1Start" /\ m.cer = c /\ m.from = d /\ m.val = PidAssignment(d)
  BY <1>1 DEF Step
<1>3. PICK x : x = [NoCeremony EXCEPT !.cer = c, !.parts = PidAssignment(d), !.vss = {<<d, c>>}, !.r1 = {d}]
  OBVIOUS
<1>4. CeremonyShape(x) /\ x.cer = c /\ x.parts = PidAssignment(d) /\ x.fin = {}
  BY <1>3 DEF CeremonyShape, NoCeremony
<1>5. PICK v : v = [NoDrive EXCEPT !.pc = "drive", !.leader = d]
  OBVIOUS
<1>6. DriveShape(v) /\ v.pc = "drive" /\ v.leader = d
  BY <1>5 DEF DriveShape, NoDrive
<1>7. /\ active' = [active EXCEPT ![d] = x] /\ drive' = [drive EXCEPT ![c] = v] /\ UNCHANGED groups
      /\ drive[c].pc = "idle"
      /\ net' = net \cup Publish(d, {Step("Round1Done", c, d, <<d, c>>), m})
  <2>1. Round1Start(d, m) /\ drive[c] = NoDrive
        /\ Sends(net, Publish(d, {Step("Round1Done", c, d, <<d, c>>), m}))
        /\ drive' = [drive EXCEPT ![c] = v]
    BY <1>1, <1>5 DEF StartDkg
  <2>2. active' = [active EXCEPT ![d] = x] /\ UNCHANGED groups
    BY <1>2, <1>3, <2>1 DEF Round1Start
  <2>3. drive[c].pc = "idle"
    BY <2>1 DEF NoDrive
  <2> QED BY <2>1, <2>2, <2>3 DEF Sends
<1>8. active'[d] = x /\ \A i \in Dealers \ {d} : active'[i] = active[i]
  BY <1>7 DEF DkgInv, DkgShape
<1>9. drive'[c] = v /\ \A b \in DkgIds \ {c} : drive'[b] = drive[b]
  BY <1>7 DEF DkgInv, DkgShape
<1>10. DkgShape'
  <2>1. active' = [n \in Dealers |-> active'[n]] /\ drive' = [b \in DkgIds |-> drive'[b]]
    BY <1>7 DEF DkgInv, DkgShape
  <2> QED BY <2>1, <1>4, <1>6, <1>7, <1>8, <1>9 DEF DkgInv, DkgShape
<1>11. NetSound'
  <2> SUFFICES ASSUME NEW e \in net' PROVE MessageSound(e)'
    BY DEF NetSound
  <2>1. CASE e \in net
    <3>1. MessageSound(e)
      BY <2>1 DEF DkgInv, NetSound
    <3> QED BY <3>1, <1>7, <1>9 DEF MessageSound
  <2>2. CASE e \in Publish(d, {Step("Round1Done", c, d, <<d, c>>)})
    BY <2>2, QuietSteps DEF QuietMessage, MessageSound
  <2>3. CASE e \in Publish(d, {m})
    <3>1. PICK t \in Dealers \ {d} : e = [to |-> t, msg |-> m]
      BY <2>3 DEF Publish
    <3>2. e.to = t /\ e.msg = m
      BY <3>1
    <3> QED BY <3>1, <3>2, <1>2, <1>6, <1>9 DEF MessageSound
  <2>4. Publish(d, {Step("Round1Done", c, d, <<d, c>>), m})
          = Publish(d, {Step("Round1Done", c, d, <<d, c>>)}) \cup Publish(d, {m})
    BY PublishTwo, Zenon
  <2> QED BY <2>1, <2>2, <2>3, <2>4, <1>7
<1>12. FinSound'
  BY <1>4, <1>7, <1>8 DEF DkgInv, FinSound
<1>13. LeaderParts'
  <2> SUFFICES ASSUME NEW b \in DkgIds, drive'[b].pc = "drive", active'[drive'[b].leader].cer = b
               PROVE  active'[drive'[b].leader].parts = PidAssignment(drive'[b].leader)
    BY DEF LeaderParts
  <2>1. CASE b = c
    BY <2>1, <1>4, <1>6, <1>8, <1>9
  <2>2. CASE b # c
    <3>1. drive'[b] = drive[b] /\ drive[b].leader \in Dealers
      BY <2>2, <1>9 DEF DkgInv, DkgShape
    <3>2. drive[b].leader # d
      BY <2>2, <3>1, <1>4, <1>8
    <3> QED BY <3>1, <3>2, <1>8 DEF DkgInv, LeaderParts
  <2> QED BY <2>1, <2>2
<1>14. SuccessIsShared'
  BY <1>6, <1>7, <1>9 DEF DkgInv, SuccessIsShared
<1> QED BY <1>10, <1>11, <1>12, <1>13, <1>14 DEF DkgInv

\* The initial state satisfies the invariant.
LEMMA DkgInitInv == DkgInit => DkgInv
<1> SUFFICES ASSUME DkgInit PROVE DkgInv
  OBVIOUS
<1>1. DriveShape(NoDrive) /\ NoDrive.pc = "idle"
  BY DEF DriveShape, NoDrive
<1> HIDE DEF NoDrive, NoCeremony
<1>2. DkgShape
  BY <1>1, NoneShape DEF DkgInit, DkgShape
<1>3. NetSound /\ FinSound /\ LeaderParts /\ SuccessIsShared
  BY <1>1, NoneShape DEF DkgInit, NetSound, FinSound, LeaderParts, SuccessIsShared
<1> QED BY <1>2, <1>3 DEF DkgInv

\* Every step keeps the invariant.
LEMMA DkgStepInv == DkgInv /\ [DkgNext]_dkgVars => DkgInv'
<1> SUFFICES ASSUME DkgInv, [DkgNext]_dkgVars PROVE DkgInv'
  OBVIOUS
<1>1. Leaders \subseteq Dealers
  BY DkgAssumption
<1>2. CASE UNCHANGED dkgVars
  <2>1. UNCHANGED <<active, groups, drive, net>>
    BY <1>2 DEF dkgVars
  <2> QED BY <2>1, QuietDkg
<1>3. ASSUME NEW c \in DkgIds,
             \/ \E d \in Leaders : StartDkg(c, d)
             \/ DriveRound15(c)
             \/ \E tardy \in BOOLEAN : DriveRound2(c, tardy)
             \/ DriveFinalize(c) \/ DriveDone(c) \/ DriveTimeout(c)
      PROVE  DkgInv'
  BY <1>1, <1>3, StartDkgKeeps, DriveOnKeeps, DriveDoneKeeps, DriveTimeoutKeeps
<1>4. ASSUME NEW n \in Dealers,
             \/ \E tardy \in BOOLEAN : FollowRound2(n, tardy)
             \/ ImportShare(n) \/ MarkImported(n)
      PROVE  DkgInv'
  BY <1>4, FollowRestKeeps
<1>5. ASSUME NEW e \in net,
             \/ FollowAck(e.to, e.msg) \/ FollowStart(e.to, e.msg) \/ FollowError(e.to, e.msg)
             \/ LookUpShare(e.to, e.msg) \/ LoseMessage(e)
      PROVE  DkgInv'
  BY <1>5, FollowAckKeeps, FollowStartKeeps, FollowRestKeeps
<1> QED BY <1>2, <1>3, <1>4, <1>5 DEF DkgNext

\* For every roster and every number of overlapping ceremonies: one reported as a success
\* has left the key it reports sealed in every participant's enclave
\* (dkg_coordinate.rs:529).
THEOREM SuccessMeansShared == DkgSpec => []SuccessIsShared
<1>1. DkgInv => SuccessIsShared
  BY DEF DkgInv
<1> QED BY <1>1, DkgInitInv, DkgStepInv, PTL DEF DkgSpec

-------------------------------------------------------------------------------
(* Migration.                                                              *)

SlotRecords ==
    [up : BOOLEAN, files : SUBSET AllFiles, retired : BOOLEAN, key : Nat, pending : Nat,
     manifest : Nat, writes : Nat]
Places ==
    {"idle", "keypair", "delegation", "export", "import", "confirm", "boot", "restart", "judge",
     "reset", "done"}
Ends ==
    {"refused", "failed", "ok", "boot-failed", "boot-not-run", "dry-run-ok", "dry-run-ok-reset-failed"}
RequestRecords ==
    [pc : Places, dry : BOOLEAN, old : Ports, new : Ports, before : SUBSET AllFiles, since : Nat,
     booted : SUBSET AllFiles, how : {"none", "dead", "refused", "silent", "verified"},
     result : Ends \cup {"none"}]

MigrationTypeInv ==
    /\ enclave \in [Ports -> SlotRecords] /\ backup \subseteq AllFiles
    /\ req \in [Requests -> RequestRecords] /\ mixed \in BOOLEAN

\* A request that is under way moves the state out of the slot this node serves.
Outwards ==
    \A r \in Requests : Running(r) => req[r].old = OwnPort /\ req[r].new \in Ports \ {OwnPort}

\* Only a rehearsal boots and resets NEW, only a real run asks OLD to retire.
KindOK(x) ==
    /\ x.pc \in {"boot", "restart", "judge", "reset"} => x.dry
    /\ x.pc = "confirm" => ~x.dry
Kinds == \A r \in Requests : KindOK(req[r])

\* The requests under way are all rehearsals or all real.
Alike == \A r, q \in Requests : Running(r) /\ Running(q) => (req[r].dry <=> req[q].dry)

\* A slot that a migration has filled.
Filled(p) == enclave[p].manifest # 0 /\ enclave[p].files # {}

Early == {"keypair", "delegation", "export"}

\* Until a deployment moves it aside, OLD keeps every file; what an export took is all of
\* it; NEW is filled before OLD is asked to retire; and once OLD has retired no rehearsal
\* gets past the export.
BeforeBackup ==
    /\ backup = {} /\ enclave[OwnPort].files = AllFiles
    /\ \A r \in Requests : req[r].pc = "import" => req[r].before = AllFiles
    /\ \A r \in Requests : req[r].pc = "confirm" => Filled(req[r].new)
    /\ enclave[OwnPort].retired =>
         /\ \E p \in Ports \ {OwnPort} : Filled(p)
         /\ \A r \in Requests : Running(r) /\ req[r].dry => req[r].pc \in Early

SomewhereHeld == mixed \/ (Alike /\ (Essential \subseteq backup \/ BeforeBackup))

\* Only what matters is ever imported; OLD has everything or nothing.
Carried ==
    /\ \A p \in Ports \ {OwnPort} : enclave[p].files \subseteq Essential
    /\ enclave[OwnPort].files \in {AllFiles, {}}

\* What a rehearsal knows of the files it boots on: as long as nobody has written them
\* since the count they are the ones counted; after one write, either the boot came before
\* it, on the files counted, or after it, on the files that are there.
RehearsalOK(x, s) ==
    x.pc \in {"restart", "judge"} =>
      /\ x.before \subseteq Essential /\ x.since <= s.writes
      /\ x.pc = "restart" /\ s.writes = x.since => s.files = x.before
      /\ x.pc = "judge" /\ s.writes = x.since => x.booted = x.before
      /\ x.pc = "judge" /\ s.writes = x.since + 1 => x.booted = x.before \/ x.booted = s.files
Rehearsed == \A r \in Requests : RehearsalOK(req[r], enclave[req[r].new])

MigrationInv == MigrationTypeInv /\ Outwards /\ Kinds /\ SomewhereHeld /\ Carried /\ Rehearsed

\* The invariant is enough.
LEMMA MigrationInvHolds == MigrationInv => StateHeld
BY DEF MigrationInv, SomewhereHeld, BeforeBackup, StateHeld, AllFiles, Filled

\* The initial state satisfies the invariant.
LEMMA MigrationInitInv == MigrationInit => MigrationInv
<1> SUFFICES ASSUME MigrationInit PROVE MigrationInv
  OBVIOUS
<1>1. PICK own : own = [NoFiles EXCEPT !.up = TRUE, !.files = AllFiles]
  OBVIOUS
<1>2. /\ own \in SlotRecords /\ NoFiles \in SlotRecords /\ own.files = AllFiles /\ own.retired = FALSE
      /\ NoFiles.files = {}
  BY <1>1 DEF SlotRecords, NoFiles
<1>3. NoRequest \in RequestRecords /\ NoRequest.pc = "idle"
  BY MigrationAssumption DEF NoRequest, RequestRecords, Places, Ends
<1> HIDE DEF NoRequest, NoFiles
<1>4. /\ enclave = [p \in Ports |-> IF p = OwnPort THEN own ELSE NoFiles] /\ backup = {}
      /\ req = [r \in Requests |-> NoRequest] /\ mixed = FALSE
  BY <1>1 DEF MigrationInit
<1>5. MigrationTypeInv
  BY <1>2, <1>3, <1>4 DEF MigrationTypeInv
<1>6. \A r \in Requests : ~Running(r) /\ req[r].pc = "idle"
  BY <1>3, <1>4 DEF Running
<1>7. enclave[OwnPort].files = AllFiles /\ enclave[OwnPort].retired = FALSE
  BY <1>2, <1>4, MigrationAssumption
<1>8. BeforeBackup /\ Alike
  BY <1>4, <1>6, <1>7 DEF BeforeBackup, Alike
<1>9. Carried
  BY <1>2, <1>4, <1>7 DEF Carried
<1>10. Outwards /\ Kinds /\ Rehearsed
  BY <1>6 DEF Outwards, Kinds, KindOK, Rehearsed, RehearsalOK
<1> QED BY <1>5, <1>8, <1>9, <1>10 DEF MigrationInv, SomewhereHeld

\* The state of a slot is a slot, and the record of a request a record.
LEMMA Typed ==
    ASSUME MigrationInv, NEW r \in Requests
    PROVE  /\ req[r] \in RequestRecords /\ r \in Nat /\ r # 0
           /\ \A p \in Ports : enclave[p] \in SlotRecords
           /\ Running(r) => req[r].old = OwnPort /\ req[r].new \in Ports \ {OwnPort}
           /\ OwnPort \in Ports
BY MigrationAssumption DEF MigrationInv, MigrationTypeInv, Outwards

\* A step of request r that leaves its ports and its kind alone, with the slot it writes:
\* what it must establish for the invariant to be kept.
LEMMA SlotStep ==
    ASSUME MigrationInv, NEW r \in Requests, Running(r), NEW x \in RequestRecords,
           req' = [req EXCEPT ![r] = x], x.pc # "idle", x.old = req[r].old, x.new = req[r].new,
           x.dry = req[r].dry, KindOK(x),
           NEW p \in Ports, NEW e \in SlotRecords, enclave' = [enclave EXCEPT ![p] = e],
           UNCHANGED <<backup, mixed>>,
           p = OwnPort => e.files = enclave[p].files,
           p # OwnPort => e.files \subseteq Essential,
           \/ e.files = enclave[p].files /\ e.writes = enclave[p].writes
           \/ e.writes = enclave[p].writes + 1,
           RehearsalOK(x, enclave'[x.new]),
           ~mixed /\ BeforeBackup =>
             /\ x.pc = "import" => x.before = AllFiles
             /\ x.pc = "confirm" => Filled(x.new)'
             /\ \/ Filled(p) => Filled(p)'
                \/ req[r].pc = "reset"
             /\ enclave'[OwnPort].retired =>
                  /\ enclave[OwnPort].retired \/ (~req[r].dry /\ Filled(x.new)')
                  /\ x.dry => x.pc \in Early \cup {"done"}
    PROVE  MigrationInv'
<1>1. req' \in [Requests -> RequestRecords] /\ req'[r] = x /\ \A q \in Requests \ {r} : req'[q] = req[q]
  BY DEF MigrationInv, MigrationTypeInv
<1>2. /\ enclave' \in [Ports -> SlotRecords] /\ enclave'[p] = e
      /\ \A o \in Ports \ {p} : enclave'[o] = enclave[o]
  BY DEF MigrationInv, MigrationTypeInv
<1>3. MigrationTypeInv'
  BY <1>1, <1>2 DEF MigrationInv, MigrationTypeInv
<1>4. \A q \in Requests : /\ Running(q)' => Running(q)
                          /\ req'[q].old = req[q].old /\ req'[q].new = req[q].new
                          /\ req'[q].dry = req[q].dry
  BY <1>1 DEF Running
<1>5. Outwards' /\ Kinds'
  BY <1>1, <1>4 DEF MigrationInv, Outwards, Kinds
<1>6. Alike => Alike'
  BY <1>4 DEF Alike
<1>7. Carried'
  BY <1>2, MigrationAssumption DEF MigrationInv, Carried
<1>8. Rehearsed'
  <2> SUFFICES ASSUME NEW q \in Requests PROVE RehearsalOK(req'[q], enclave'[req'[q].new])
    BY DEF Rehearsed
  <2>1. CASE q = r
    BY <1>1, <2>1
  <2>2. CASE q # r
    <3>1. req'[q] = req[q] /\ req[q] \in RequestRecords
      BY <1>1, <2>2, Typed
    <3>2. PICK o : o = req[q].new
      OBVIOUS
    <3>3. o \in Ports /\ enclave[o] \in SlotRecords /\ enclave'[o] \in SlotRecords
      BY <1>2, <3>1, <3>2, Typed DEF RequestRecords
    <3>4. RehearsalOK(req[q], enclave[o])
      BY <3>2 DEF MigrationInv, Rehearsed
    <3>5. \/ enclave'[o].files = enclave[o].files /\ enclave'[o].writes = enclave[o].writes
          \/ enclave'[o].writes = enclave[o].writes + 1
      BY <1>2, <3>3
    <3>6. enclave[o].writes \in Nat /\ enclave'[o].writes \in Nat /\ req[q].since \in Nat
      BY <3>1, <3>3 DEF SlotRecords, RequestRecords
    <3>7. RehearsalOK(req[q], enclave'[o])
      BY <3>4, <3>5, <3>6 DEF RehearsalOK
    <3> QED BY <3>1, <3>2, <3>7
  <2> QED BY <2>1, <2>2
<1>9. ASSUME ~mixed, Alike, BeforeBackup PROVE BeforeBackup'
  <2>1. backup' = {} /\ enclave'[OwnPort].files = AllFiles
    BY <1>2, <1>9, MigrationAssumption DEF BeforeBackup
  <2>2. \A q \in Requests : req'[q].pc = "import" => req'[q].before = AllFiles
    BY <1>1, <1>9 DEF BeforeBackup
  <2>3. CASE Filled(p) => Filled(p)'
    <3>1. \A o \in Ports : Filled(o) => Filled(o)'
      BY <1>2, <2>3 DEF Filled
    <3>2. \A q \in Requests : (req[q].pc = "confirm" => Filled(req[q].new))'
      <4> SUFFICES ASSUME NEW q \in Requests, req'[q].pc = "confirm"
                   PROVE  (Filled(req[q].new))'
        OBVIOUS
      <4>1. CASE q = r
        BY <1>1, <1>9, <4>1 DEF Filled
      <4>2. CASE q # r
        <5>1. PICK o : o = req[q].new
          OBVIOUS
        <5>2. o \in Ports /\ req'[q].new = o /\ Filled(o)
          BY <1>1, <1>9, <4>2, <5>1, Typed DEF BeforeBackup, RequestRecords
        <5> QED BY <3>1, <5>2 DEF Filled
      <4> QED BY <4>1, <4>2
    <3>3. ASSUME enclave'[OwnPort].retired
          PROVE  /\ \E o \in Ports \ {OwnPort} : Filled(o)'
                 /\ \A q \in Requests : Running(q)' /\ req'[q].dry => req'[q].pc \in Early
      <4>1. CASE enclave[OwnPort].retired
        <5>1. \A q \in Requests : Running(q) /\ req[q].dry => req[q].pc \in Early
          BY <1>9, <4>1 DEF BeforeBackup
        <5>2. \A q \in Requests : Running(q)' /\ req'[q].dry => req'[q].pc \in Early
          BY <1>1, <1>4, <1>9, <3>3, <5>1 DEF Running
        <5> QED BY <1>9, <3>1, <4>1, <5>2 DEF BeforeBackup
      <4>2. CASE ~req[r].dry /\ Filled(x.new)'
        <5>1. x.new \in Ports \ {OwnPort}
          BY Typed
        <5>2. PICK o : o = x.new
          OBVIOUS
        <5>3. \E o1 \in Ports \ {OwnPort} : Filled(o1)'
          BY <4>2, <5>1, <5>2 DEF Filled
        <5>4. \A q \in Requests : Running(q)' /\ req'[q].dry => FALSE
          BY <1>4, <1>9, <4>2 DEF Alike
        <5> QED BY <5>3, <5>4
      <4> QED BY <1>9, <3>3, <4>1, <4>2
    <3> QED BY <2>1, <2>2, <3>2, <3>3 DEF BeforeBackup
  <2>4. CASE req[r].pc = "reset"
    <3>1. req[r].dry
      BY <2>4 DEF MigrationInv, Kinds, KindOK
    <3>2. ~enclave[OwnPort].retired
      BY <1>9, <2>4, <3>1 DEF BeforeBackup, Running, Early
    <3>3. ~enclave'[OwnPort].retired
      BY <1>9, <3>1, <3>2
    <3>4. \A q \in Requests : req'[q].pc # "confirm"
      <4> SUFFICES ASSUME NEW q \in Requests, req'[q].pc = "confirm" PROVE FALSE
        OBVIOUS
      <4>1. ~req'[q].dry
        BY <1>5 DEF Kinds, KindOK
      <4>2. Running(q)'
        BY DEF Running
      <4> QED BY <1>4, <1>9, <3>1, <4>1, <4>2 DEF Alike
    <3> QED BY <2>1, <2>2, <3>3, <3>4 DEF BeforeBackup
  <2> QED BY <1>9, <2>3, <2>4
<1>10. SomewhereHeld'
  BY <1>6, <1>9 DEF MigrationInv, SomewhereHeld
<1> QED BY <1>3, <1>5, <1>7, <1>8, <1>10 DEF MigrationInv

\* A step of a request that writes no slot.
LEMMA OnlyRequest ==
    ASSUME MigrationInv, NEW r \in Requests, Running(r), NEW x \in RequestRecords,
           req' = [req EXCEPT ![r] = x], x.pc # "idle", x.old = req[r].old, x.new = req[r].new,
           x.dry = req[r].dry, KindOK(x), RehearsalOK(x, enclave[x.new]),
           UNCHANGED <<enclave, backup, mixed>>,
           BeforeBackup =>
             /\ x.pc \notin {"import", "confirm"}
             /\ enclave[OwnPort].retired /\ x.dry => x.pc \in Early \cup {"done"}
    PROVE  MigrationInv'
<1>1. PICK e : e = enclave[OwnPort]
  OBVIOUS
<1>2. e \in SlotRecords /\ OwnPort \in Ports /\ enclave' = [enclave EXCEPT ![OwnPort] = e]
  BY <1>1, MigrationAssumption DEF MigrationInv, MigrationTypeInv
<1>3. Filled(OwnPort) => Filled(OwnPort)'
  BY DEF Filled
<1>4. /\ e.files = enclave[OwnPort].files /\ e.writes = enclave[OwnPort].writes
      /\ RehearsalOK(x, enclave'[x.new]) /\ UNCHANGED <<backup, mixed>>
  BY <1>1
<1>5. ~mixed /\ BeforeBackup =>
        /\ x.pc # "import" /\ x.pc # "confirm"
        /\ enclave'[OwnPort].retired => enclave[OwnPort].retired /\ (x.dry => x.pc \in Early \cup {"done"})
  OBVIOUS
<1> HIDE DEF BeforeBackup, KindOK, RehearsalOK, Filled
<1> QED BY <1>2, <1>3, <1>4, <1>5, SlotStep

\* The ways a request's record moves on: to another place, or to its end.
LEMMA Moves ==
    ASSUME MigrationInv, NEW r \in Requests
    PROVE  /\ \A pc \in Places :
                Goto(r, pc) => \E x \in RequestRecords :
                    /\ req' = [req EXCEPT ![r] = x] /\ x.pc = pc /\ x.before = req[r].before
                    /\ x.old = req[r].old /\ x.new = req[r].new /\ x.dry = req[r].dry
           /\ \A why \in Ends :
                Fail(r, why) => \E x \in RequestRecords :
                    /\ req' = [req EXCEPT ![r] = x] /\ x.pc = "done"
                    /\ x.old = req[r].old /\ x.new = req[r].new /\ x.dry = req[r].dry
<1>1. ASSUME NEW pc \in Places, Goto(r, pc)
      PROVE  \E x \in RequestRecords :
                    /\ req' = [req EXCEPT ![r] = x] /\ x.pc = pc /\ x.before = req[r].before
                    /\ x.old = req[r].old /\ x.new = req[r].new /\ x.dry = req[r].dry
  <2>1. PICK x : x = [req[r] EXCEPT !.pc = pc]
    OBVIOUS
  <2>2. /\ x \in RequestRecords /\ x.pc = pc /\ x.before = req[r].before
        /\ x.old = req[r].old /\ x.new = req[r].new /\ x.dry = req[r].dry
    BY <2>1, Typed DEF RequestRecords
  <2>3. req' = [req EXCEPT ![r] = x]
    BY <1>1, <2>1 DEF Goto, MigrationInv, MigrationTypeInv
  <2> QED BY <2>2, <2>3
<1>2. ASSUME NEW why \in Ends, Fail(r, why)
      PROVE  \E x \in RequestRecords :
                    /\ req' = [req EXCEPT ![r] = x] /\ x.pc = "done"
                    /\ x.old = req[r].old /\ x.new = req[r].new /\ x.dry = req[r].dry
  <2>1. PICK x : x = [req[r] EXCEPT !.pc = "done", !.result = why]
    OBVIOUS
  <2>2. x \in RequestRecords /\ x.pc = "done" /\ x.old = req[r].old /\ x.new = req[r].new /\ x.dry = req[r].dry
    BY <2>1, Typed DEF RequestRecords, Places
  <2>3. req' = [req EXCEPT ![r] = x]
    BY <1>2, <2>1 DEF Fail, MigrationInv, MigrationTypeInv
  <2> QED BY <2>2, <2>3
<1> QED BY <1>1, <1>2

\* A request that fails, or ends, leaves the slots as they are.
LEMMA FailKeeps ==
    ASSUME MigrationInv, NEW r \in Requests, Running(r), NEW why \in Ends,
           Fail(r, why), UNCHANGED <<enclave, backup, mixed>>
    PROVE  MigrationInv'
<1>1. PICK x \in RequestRecords : /\ req' = [req EXCEPT ![r] = x] /\ x.pc = "done"
                                  /\ x.old = req[r].old /\ x.new = req[r].new /\ x.dry = req[r].dry
  BY Moves
<1>2. KindOK(x) /\ RehearsalOK(x, enclave[x.new])
  BY <1>1 DEF KindOK, RehearsalOK
<1> QED BY <1>1, <1>2, OnlyRequest

\* Step 3 writes NEW's key only.
LEMMA GenerateKeypairKeeps ==
    ASSUME MigrationInv, NEW r \in Requests, NEW answered \in BOOLEAN, GenerateKeypair(r, answered)
    PROVE  MigrationInv'
<1>1. Running(r) /\ req[r].pc = "keypair"
  BY DEF GenerateKeypair, Running
<1>2. PICK new : new = req[r].new
  OBVIOUS
<1>3. new \in Ports \ {OwnPort} /\ enclave[new] \in SlotRecords /\ r \in Nat
  BY <1>1, <1>2, Typed
<1>4. CASE ~(enclave[new].up /\ enclave[req[r].old].up)
  BY <1>1, <1>2, <1>4, FailKeeps DEF GenerateKeypair, Ends
<1>5. CASE enclave[new].up /\ enclave[req[r].old].up
  <2>1. PICK e : e = [enclave[new] EXCEPT !.key = r]
    OBVIOUS
  <2>2. /\ e \in SlotRecords /\ e.files = enclave[new].files /\ e.manifest = enclave[new].manifest
        /\ e.writes = enclave[new].writes
    BY <1>3, <2>1 DEF SlotRecords
  <2>3. enclave' = [enclave EXCEPT ![new] = e] /\ UNCHANGED <<backup, mixed>>
    BY <1>2, <1>3, <1>5, <2>1 DEF GenerateKeypair, MigrationInv, MigrationTypeInv
  <2>4. PICK x \in RequestRecords :
           /\ req' = [req EXCEPT ![r] = x] /\ x.pc \in {"delegation", "done"}
           /\ x.old = req[r].old /\ x.new = req[r].new /\ x.dry = req[r].dry
    <3>1. Goto(r, "delegation") \/ Fail(r, "failed")
      BY <1>2, <1>5 DEF GenerateKeypair
    <3> QED BY <3>1, Moves DEF Places, Ends
  <2>5. enclave'[OwnPort] = enclave[OwnPort] /\ enclave'[new] = e
    BY <1>3, <2>3, MigrationAssumption DEF MigrationInv, MigrationTypeInv
  <2>6. Filled(new) => Filled(new)'
    BY <2>2, <2>5 DEF Filled
  <2>7. KindOK(x) /\ RehearsalOK(x, enclave'[x.new])
    BY <2>4 DEF KindOK, RehearsalOK
  <2>8. e.files \subseteq Essential
    BY <1>3, <2>2 DEF MigrationInv, Carried
  <2>9. x.pc \in Early \cup {"done"} /\ x.pc # "import" /\ x.pc # "confirm" /\ x.pc # "idle"
    BY <2>4 DEF Early
  <2> HIDE DEF BeforeBackup, KindOK, RehearsalOK, Filled, Early
  <2> QED BY <1>1, <1>3, <2>2, <2>3, <2>4, <2>5, <2>6, <2>7, <2>8, <2>9, SlotStep
<1> QED BY <1>4, <1>5

\* Step 4 takes all of OLD's files, unless OLD has retired.
LEMMA ExportStateKeeps ==
    ASSUME MigrationInv, NEW r \in Requests, NEW answered \in BOOLEAN, ExportState(r, answered)
    PROVE  MigrationInv'
<1>1. Running(r) /\ req[r].pc = "export"
  BY DEF ExportState, Running
<1>2. /\ req[r].old = OwnPort /\ OwnPort \in Ports /\ enclave[OwnPort] \in SlotRecords
      /\ r \in Nat /\ req[r] \in RequestRecords
  BY <1>1, Typed
<1>3. CASE ~(enclave[OwnPort].up /\ ~enclave[OwnPort].retired)
  BY <1>1, <1>2, <1>3, FailKeeps DEF ExportState, Ends
<1>4. CASE enclave[OwnPort].up /\ ~enclave[OwnPort].retired
  <2>1. PICK e : e = [enclave[OwnPort] EXCEPT !.pending = IF req[r].dry THEN @ ELSE r]
    OBVIOUS
  <2>2. /\ e \in SlotRecords /\ e.files = enclave[OwnPort].files /\ e.retired = FALSE
        /\ e.writes = enclave[OwnPort].writes /\ e.manifest = enclave[OwnPort].manifest
    BY <1>2, <1>4, <2>1 DEF SlotRecords
  <2>3. enclave' = [enclave EXCEPT ![OwnPort] = e] /\ UNCHANGED <<backup, mixed>>
    BY <1>2, <1>4, <2>1 DEF ExportState, MigrationInv, MigrationTypeInv
  <2>4. PICK pc, res : /\ pc = IF answered THEN "import" ELSE "done"
                       /\ res = IF answered THEN req[r].result ELSE "failed"
    OBVIOUS
  <2>5. PICK x : x = [req[r] EXCEPT !.pc = pc, !.result = res, !.before = enclave[OwnPort].files]
    OBVIOUS
  <2>6. /\ x \in RequestRecords /\ x.pc \in {"import", "done"} /\ x.before = enclave[OwnPort].files
        /\ x.old = req[r].old /\ x.new = req[r].new /\ x.dry = req[r].dry
    BY <1>2, <2>4, <2>5 DEF RequestRecords, SlotRecords, Places, Ends
  <2>7. req' = [req EXCEPT ![r] = x]
    BY <1>2, <1>4, <2>4, <2>5 DEF ExportState, MigrationInv, MigrationTypeInv, RequestRecords
  <2>8. BeforeBackup => enclave[OwnPort].files = AllFiles
    BY DEF BeforeBackup
  <2>9. enclave'[OwnPort].retired = FALSE /\ enclave'[OwnPort] = e
    BY <1>2, <2>2, <2>3 DEF MigrationInv, MigrationTypeInv
  <2>10. Filled(OwnPort) => Filled(OwnPort)'
    BY <2>2, <2>9 DEF Filled
  <2>11. KindOK(x) /\ RehearsalOK(x, enclave'[x.new]) /\ x.pc # "confirm" /\ x.pc # "idle"
    BY <2>6 DEF KindOK, RehearsalOK
  <2> HIDE DEF BeforeBackup, KindOK, RehearsalOK, Filled, Early
  <2> QED BY <1>1, <1>2, <2>2, <2>3, <2>6, <2>7, <2>8, <2>9, <2>10, <2>11, SlotStep
<1> QED BY <1>3, <1>4

\* Step 5 fills NEW: a build that leaves one file out still carries another.
LEMMA ImportStateKeeps ==
    ASSUME MigrationInv, NEW r \in Requests, NEW left \in {{}} \cup {{f} : f \in Essential},
           NEW answered \in BOOLEAN, ImportState(r, left, answered)
    PROVE  MigrationInv'
<1>1. Running(r) /\ req[r].pc = "import"
  BY DEF ImportState, Running
<1>2. PICK new : new = req[r].new
  OBVIOUS
<1>3. new \in Ports \ {OwnPort} /\ enclave[new] \in SlotRecords /\ r \in Nat /\ r # 0 /\ req[r] \in RequestRecords
  BY <1>1, <1>2, Typed
<1>4. CASE ~(enclave[new].up /\ enclave[new].key = r)
  BY <1>1, <1>2, <1>4, FailKeeps DEF ImportState, Ends
<1>5. CASE enclave[new].up /\ enclave[new].key = r
  <2>1. PICK files : files = (req[r].before \ MayBeAbsent) \ left
    OBVIOUS
  <2>2. files \in SUBSET AllFiles /\ files \subseteq Essential
    BY <1>3, <2>1 DEF RequestRecords, AllFiles
  <2>a. PICK w : w = enclave[new].writes + 1
    OBVIOUS
  <2>b. w \in Nat
    BY <1>3, <2>a DEF SlotRecords
  <2>3. PICK e : e = [enclave[new] EXCEPT !.files = files, !.manifest = r, !.writes = w]
    OBVIOUS
  <2>4. e \in SlotRecords /\ e.files = files /\ e.manifest = r /\ e.writes = enclave[new].writes + 1
    BY <1>3, <2>2, <2>3, <2>a, <2>b DEF SlotRecords
  <2>5. enclave' = [enclave EXCEPT ![new] = e] /\ UNCHANGED <<backup, mixed>>
    BY <1>2, <1>3, <1>5, <2>1, <2>3, <2>a DEF ImportState, MigrationInv, MigrationTypeInv, SlotRecords
  <2>6. PICK x \in RequestRecords :
           /\ req' = [req EXCEPT ![r] = x] /\ x.old = req[r].old /\ x.new = req[r].new
           /\ x.dry = req[r].dry /\ x.pc \in {"boot", "confirm", "done"} /\ KindOK(x)
    <3>1. CASE Goto(r, "boot") /\ req[r].dry
      BY <3>1, Moves DEF Places, KindOK
    <3>2. CASE Goto(r, "confirm") /\ ~req[r].dry
      BY <3>2, Moves DEF Places, KindOK
    <3>3. CASE Fail(r, "failed")
      BY <3>3, Moves DEF Ends, KindOK
    <3> QED BY <1>2, <1>5, <3>1, <3>2, <3>3 DEF ImportState
  <2>7. BeforeBackup => files # {}
    <3>1. BeforeBackup => req[r].before = AllFiles
      BY <1>1 DEF BeforeBackup
    <3>2. PICK f, g \in Essential : f # g
      BY MigrationAssumption
    <3>3. f \notin MayBeAbsent /\ g \notin MayBeAbsent /\ (f \notin left \/ g \notin left)
      BY <3>2, MigrationAssumption
    <3> QED BY <2>1, <3>1, <3>2, <3>3 DEF AllFiles
  <2>8. enclave'[new] = e /\ enclave'[OwnPort] = enclave[OwnPort]
    BY <1>3, <2>5, MigrationAssumption DEF MigrationInv, MigrationTypeInv
  <2>9. BeforeBackup /\ enclave'[OwnPort].retired => ~req[r].dry
    BY <1>1, <2>8 DEF BeforeBackup, Early
  <2>10. BeforeBackup => Filled(new)'
    BY <1>3, <2>4, <2>7, <2>8 DEF Filled
  <2>11. BeforeBackup => Filled(x.new)'
    BY <1>2, <2>6, <2>10 DEF Filled
  <2>12. RehearsalOK(x, enclave'[x.new]) /\ x.pc # "import" /\ x.pc # "idle"
    BY <2>6 DEF RehearsalOK
  <2> HIDE DEF BeforeBackup, KindOK, RehearsalOK, Filled, Early
  <2> QED BY <1>1, <1>3, <2>2, <2>4, <2>5, <2>6, <2>8, <2>9, <2>10, <2>11, <2>12, SlotStep
<1> QED BY <1>4, <1>5

\* Step 6 retires OLD when NEW is filled.
LEMMA VerifyConfirmationKeeps ==
    ASSUME MigrationInv, NEW r \in Requests, NEW answered \in BOOLEAN, VerifyConfirmation(r, answered)
    PROVE  MigrationInv'
<1>1. Running(r) /\ req[r].pc = "confirm"
  BY DEF VerifyConfirmation, Running
<1>2. /\ req[r].old = OwnPort /\ OwnPort \in Ports /\ enclave[OwnPort] \in SlotRecords
      /\ req[r].new \in Ports \ {OwnPort}
  BY <1>1, Typed
<1>3. CASE ~(enclave[OwnPort].up /\ enclave[OwnPort].pending = r)
  BY <1>1, <1>2, <1>3, FailKeeps DEF VerifyConfirmation, Ends
<1>4. CASE enclave[OwnPort].up /\ enclave[OwnPort].pending = r
  <2>1. PICK e : e = [enclave[OwnPort] EXCEPT !.retired = TRUE, !.pending = 0]
    OBVIOUS
  <2>2. /\ e \in SlotRecords /\ e.files = enclave[OwnPort].files
        /\ e.writes = enclave[OwnPort].writes /\ e.manifest = enclave[OwnPort].manifest
    BY <1>2, <2>1 DEF SlotRecords
  <2>3. enclave' = [enclave EXCEPT ![OwnPort] = e] /\ UNCHANGED <<backup, mixed>>
    BY <1>2, <1>4, <2>1 DEF VerifyConfirmation, MigrationInv, MigrationTypeInv, SlotRecords
  <2>4. PICK x \in RequestRecords :
           /\ req' = [req EXCEPT ![r] = x] /\ x.pc = "done"
           /\ x.old = req[r].old /\ x.new = req[r].new /\ x.dry = req[r].dry
    <3>1. Fail(r, "ok") \/ Fail(r, "failed")
      BY <1>2, <1>4 DEF VerifyConfirmation
    <3> QED BY <3>1, Moves DEF Ends
  <2>5. BeforeBackup => Filled(req[r].new)
    BY <1>1 DEF BeforeBackup
  <2>6. enclave'[req[r].new] = enclave[req[r].new] /\ enclave'[OwnPort] = e
    BY <1>2, <2>3 DEF MigrationInv, MigrationTypeInv
  <2>7. BeforeBackup => Filled(x.new)'
    BY <2>4, <2>5, <2>6 DEF Filled
  <2>8. ~req[r].dry
    BY <1>1 DEF MigrationInv, Kinds, KindOK
  <2>9. KindOK(x) /\ RehearsalOK(x, enclave'[x.new])
    BY <2>4 DEF KindOK, RehearsalOK
  <2>10. Filled(OwnPort) => Filled(OwnPort)'
    BY <2>2, <2>6 DEF Filled
  <2> HIDE DEF BeforeBackup, KindOK, RehearsalOK, Filled, Early
  <2> QED BY <1>1, <1>2, <2>2, <2>3, <2>4, <2>7, <2>8, <2>9, <2>10, SlotStep
<1> QED BY <1>3, <1>4

\* The count before the boot of a rehearsal.
LEMMA CountSealedKeeps ==
    ASSUME MigrationInv, NEW r \in Requests, CountSealed(r)
    PROVE  MigrationInv'
<1>1. Running(r) /\ req[r].pc = "boot" /\ UNCHANGED <<enclave, backup, mixed>>
  BY DEF CountSealed, Running
<1>2. PICK new : new = enclave[req[r].new]
  OBVIOUS
<1>3. new \in SlotRecords /\ req[r] \in RequestRecords /\ new.files \subseteq Essential
  BY <1>1, <1>2, Typed DEF MigrationInv, Carried
<1>4. PICK x : x = [req[r] EXCEPT !.pc = "restart", !.before = new.files, !.since = new.writes]
  OBVIOUS
<1>5. /\ x \in RequestRecords /\ x.pc = "restart" /\ x.old = req[r].old /\ x.new = req[r].new
      /\ x.dry = req[r].dry /\ x.before = new.files /\ x.since = new.writes
  BY <1>3, <1>4 DEF RequestRecords, SlotRecords, Places
<1>6. req' = [req EXCEPT ![r] = x]
  BY <1>2, <1>4 DEF CountSealed, MigrationInv, MigrationTypeInv
<1>7. new.writes \in Nat
  BY <1>3 DEF SlotRecords
<1>8. RehearsalOK(x, enclave[x.new])
  BY <1>2, <1>3, <1>5, <1>7 DEF RehearsalOK
<1>9. req[r].dry
  BY <1>1 DEF MigrationInv, Kinds, KindOK
<1>10. KindOK(x)
  BY <1>5, <1>9 DEF KindOK
<1>11. BeforeBackup => ~enclave[OwnPort].retired
  BY <1>1, <1>9 DEF BeforeBackup, Early
<1> HIDE DEF BeforeBackup, KindOK, RehearsalOK, Filled, Early
<1> QED BY <1>1, <1>5, <1>6, <1>8, <1>10, <1>11, OnlyRequest

\* The boot of a rehearsal.
LEMMA RestartNewKeeps ==
    ASSUME MigrationInv, NEW r \in Requests, NEW how, RestartNew(r, how)
    PROVE  MigrationInv'
<1>1. Running(r) /\ req[r].pc = "restart" /\ UNCHANGED <<backup, mixed>>
  BY DEF RestartNew, Running
<1>2. PICK new : new = req[r].new
  OBVIOUS
<1>3. new \in Ports \ {OwnPort} /\ enclave[new] \in SlotRecords /\ req[r] \in RequestRecords
  BY <1>1, <1>2, Typed
<1>4. req[r].dry /\ enclave[new].files \subseteq Essential
  BY <1>1, <1>3 DEF MigrationInv, Kinds, KindOK, Carried
<1>5. BeforeBackup => ~enclave[OwnPort].retired
  BY <1>1, <1>4 DEF BeforeBackup, Early
<1>6. ASSUME NEW up \in BOOLEAN, enclave' = [enclave EXCEPT ![new].up = up, ![new].key = 0],
             NEW x \in RequestRecords, req' = [req EXCEPT ![r] = x], x.pc \in {"judge", "done"},
             x.old = req[r].old, x.new = req[r].new, x.dry = req[r].dry,
             RehearsalOK(x, enclave[new])
      PROVE  MigrationInv'
  <2>1. PICK e : e = [enclave[new] EXCEPT !.up = up, !.key = 0]
    OBVIOUS
  <2>2. /\ e \in SlotRecords /\ e.files = enclave[new].files /\ e.manifest = enclave[new].manifest
        /\ e.writes = enclave[new].writes
    BY <1>3, <2>1 DEF SlotRecords
  <2>3. enclave' = [enclave EXCEPT ![new] = e]
    BY <1>3, <1>6, <2>1 DEF MigrationInv, MigrationTypeInv, SlotRecords
  <2>4. enclave'[new] = e /\ enclave'[OwnPort] = enclave[OwnPort]
    BY <1>3, <2>3, MigrationAssumption DEF MigrationInv, MigrationTypeInv
  <2>5. Filled(new) => Filled(new)'
    BY <2>2, <2>4 DEF Filled
  <2>6. RehearsalOK(x, enclave'[x.new])
    BY <1>2, <1>6, <2>2, <2>4 DEF RehearsalOK
  <2>7. KindOK(x) /\ x.pc # "idle" /\ x.pc # "import" /\ x.pc # "confirm"
    BY <1>4, <1>6 DEF KindOK
  <2>8. BeforeBackup => ~enclave'[OwnPort].retired
    BY <1>5, <2>4
  <2>9. e.files \subseteq Essential
    BY <1>4, <2>2
  <2>10. /\ req' = [req EXCEPT ![r] = x] /\ x.old = req[r].old /\ x.new = req[r].new
         /\ x.dry = req[r].dry
    BY <1>6
  <2> HIDE DEF BeforeBackup, KindOK, RehearsalOK, Filled, Early
  <2> QED BY <1>1, <1>3, <2>2, <2>3, <2>5, <2>6, <2>7, <2>8, <2>9, <2>10, SlotStep
<1>7. CASE how = "not-stopped" /\ Fail(r, "boot-not-run") /\ UNCHANGED enclave
  BY <1>1, <1>7, FailKeeps DEF Ends
<1>8. CASE /\ Fail(r, "boot-not-run")
           /\ enclave' = [enclave EXCEPT ![new].up = FALSE, ![new].key = 0]
  <2>1. PICK x \in RequestRecords : /\ req' = [req EXCEPT ![r] = x] /\ x.pc = "done"
                                    /\ x.old = req[r].old /\ x.new = req[r].new /\ x.dry = req[r].dry
    BY <1>8, Moves DEF Ends
  <2>2. RehearsalOK(x, enclave[new])
    BY <2>1 DEF RehearsalOK
  <2> QED BY <1>6, <1>8, <2>1, <2>2
<1>9. CASE /\ how \in {"dead", "refused", "silent", "verified"}
           /\ enclave' = [enclave EXCEPT ![new].up = (how # "dead"), ![new].key = 0]
           /\ req' = [req EXCEPT ![r].pc = "judge", ![r].booted = enclave[new].files, ![r].how = how]
  <2>1. PICK x : x = [req[r] EXCEPT !.pc = "judge", !.booted = enclave[new].files, !.how = how]
    OBVIOUS
  <2>2. /\ x \in RequestRecords /\ x.pc = "judge" /\ x.old = req[r].old /\ x.new = req[r].new
        /\ x.dry = req[r].dry /\ x.before = req[r].before /\ x.since = req[r].since
        /\ x.booted = enclave[new].files
    BY <1>3, <1>9, <2>1 DEF RequestRecords, SlotRecords, Places
  <2>3. req' = [req EXCEPT ![r] = x]
    BY <1>9, <2>1 DEF MigrationInv, MigrationTypeInv
  <2>4. RehearsalOK(req[r], enclave[new])
    BY <1>2 DEF MigrationInv, Rehearsed
  <2>5. RehearsalOK(x, enclave[new])
    BY <1>1, <2>2, <2>4 DEF RehearsalOK
  <2>6. (how # "dead") \in BOOLEAN
    OBVIOUS
  <2> QED BY <1>6, <1>9, <2>2, <2>3, <2>5, <2>6
<1> QED BY <1>2, <1>7, <1>8, <1>9 DEF RestartNew

\* The reset after a rehearsal.
LEMMA ResetNewKeeps ==
    ASSUME MigrationInv, NEW r \in Requests, NEW how, NEW left \in SUBSET Essential,
           ResetNew(r, how, left)
    PROVE  MigrationInv'
<1>1. Running(r) /\ req[r].pc = "reset" /\ UNCHANGED <<backup, mixed>>
  BY DEF ResetNew, Running
<1>2. PICK new : new = req[r].new
  OBVIOUS
<1>3. new \in Ports \ {OwnPort} /\ enclave[new] \in SlotRecords /\ enclave[new].writes \in Nat
      /\ enclave[new].manifest \in Nat
  BY <1>1, <1>2, Typed DEF SlotRecords
<1>4. req[r].dry
  BY <1>1 DEF MigrationInv, Kinds, KindOK
<1>5. BeforeBackup => ~enclave[OwnPort].retired
  BY <1>1, <1>4 DEF BeforeBackup, Early
<1>6. \E why \in Ends : Fail(r, why)
  BY DEF ResetNew, Ends
<1>7. CASE UNCHANGED enclave
  BY <1>1, <1>6, <1>7, FailKeeps
<1>8. ASSUME NEW e \in SlotRecords, enclave' = [enclave EXCEPT ![new] = e],
             e.writes = enclave[new].writes + 1, e.files \subseteq Essential
      PROVE  MigrationInv'
  <2>1. PICK x \in RequestRecords : /\ req' = [req EXCEPT ![r] = x] /\ x.pc = "done"
                                    /\ x.old = req[r].old /\ x.new = req[r].new /\ x.dry = req[r].dry
    BY <1>6, Moves
  <2>2. KindOK(x) /\ RehearsalOK(x, enclave'[x.new])
    BY <2>1 DEF KindOK, RehearsalOK
  <2>3. enclave'[OwnPort] = enclave[OwnPort]
    BY <1>3, <1>8, MigrationAssumption DEF MigrationInv, MigrationTypeInv
  <2>4. BeforeBackup => ~enclave'[OwnPort].retired
    BY <1>5, <2>3
  <2> HIDE DEF BeforeBackup, KindOK, RehearsalOK, Filled, Early
  <2> QED BY <1>1, <1>3, <1>8, <2>1, <2>2, <2>4, SlotStep
<1>9. PICK w : w = enclave[new].writes + 1
  OBVIOUS
<1>10. PICK emptied : emptied = [NoFiles EXCEPT !.writes = w]
  OBVIOUS
<1>a. w \in Nat
  BY <1>3, <1>9
<1>11. emptied \in SlotRecords /\ emptied.writes = w /\ emptied.files = {}
  BY <1>a, <1>10 DEF SlotRecords, NoFiles
<1> HIDE DEF NoFiles
<1>12. ASSUME NEW m \in {0, enclave[new].manifest},
              enclave' = [enclave EXCEPT ![new] = [emptied EXCEPT !.files = left, !.manifest = m]]
       PROVE  MigrationInv'
  <2>1. PICK e : e = [emptied EXCEPT !.files = left, !.manifest = m]
    OBVIOUS
  <2>a. m \in Nat /\ left \in SUBSET AllFiles
    BY <1>3 DEF AllFiles
  <2>2. e \in SlotRecords /\ e.writes = w /\ e.files \subseteq Essential
    BY <1>11, <2>1, <2>a DEF SlotRecords
  <2> QED BY <1>8, <1>9, <1>12, <2>1, <2>2
<1>13. CASE enclave' = [enclave EXCEPT ![new] = emptied]
  BY <1>8, <1>9, <1>11, <1>13
<1>14. CASE enclave' = [enclave EXCEPT ![new] = [emptied EXCEPT !.up = TRUE]]
  <2>1. PICK e : e = [emptied EXCEPT !.up = TRUE]
    OBVIOUS
  <2>2. e \in SlotRecords /\ e.writes = w /\ e.files \subseteq Essential
    BY <1>11, <2>1 DEF SlotRecords
  <2> QED BY <1>8, <1>9, <1>14, <2>1, <2>2
<1> QED BY <1>2, <1>7, <1>9, <1>10, <1>12, <1>13, <1>14 DEF ResetNew

\* A new request has taken nothing; if it is of another kind than one under way, that is
\* noted.
LEMMA StartMigrationKeeps ==
    ASSUME MigrationInv, NEW r \in Requests, NEW old \in Ports, NEW new \in Ports,
           NEW dry \in BOOLEAN, StartMigration(r, old, new, dry)
    PROVE  MigrationInv'
<1>1. req[r].pc = "idle" /\ ~Running(r)
  BY DEF StartMigration, Running
<1>2. PICK pc, res : /\ pc = IF CheckMigrationPorts(old, new) THEN "keypair" ELSE "done"
                     /\ res = IF CheckMigrationPorts(old, new) THEN "none" ELSE "refused"
  OBVIOUS
<1>3. PICK x : x = [NoRequest EXCEPT !.pc = pc, !.result = res, !.old = old, !.new = new, !.dry = dry]
  OBVIOUS
<1>4. x \in RequestRecords /\ x.pc = pc /\ x.old = old /\ x.new = new /\ x.dry = dry
  BY <1>2, <1>3 DEF NoRequest, RequestRecords, Places, Ends
<1>5. /\ req' = [req EXCEPT ![r] = x] /\ UNCHANGED <<enclave, backup>>
      /\ mixed' = (mixed \/ \E q \in Requests : Running(q) /\ req[q].dry # dry)
  BY <1>2, <1>3 DEF StartMigration
<1>6. req' \in [Requests -> RequestRecords] /\ req'[r] = x /\ \A q \in Requests \ {r} : req'[q] = req[q]
  BY <1>4, <1>5 DEF MigrationInv, MigrationTypeInv
<1>7. \A q \in Requests \ {r} : Running(q)' <=> Running(q)
  BY <1>6 DEF Running
<1>8. pc = "keypair" => old = OwnPort /\ new \in Ports \ {OwnPort}
  BY <1>2, MigrationAssumption DEF CheckMigrationPorts
<1>9. MigrationTypeInv'
  BY <1>5, <1>6 DEF MigrationInv, MigrationTypeInv
<1>10. pc \in {"keypair", "done"}
  BY <1>2
<1>11. Outwards'
  BY <1>4, <1>6, <1>7, <1>8, <1>10 DEF MigrationInv, Outwards, Running
<1>12. Kinds'
  BY <1>4, <1>6, <1>10 DEF MigrationInv, Kinds, KindOK
<1>13. Carried'
  BY <1>5 DEF MigrationInv, Carried
<1>14. Rehearsed'
  BY <1>4, <1>5, <1>6, <1>10 DEF MigrationInv, Rehearsed, RehearsalOK
<1>15. ASSUME ~mixed', Alike PROVE Alike'
  <2>1. \A q \in Requests : Running(q) => req[q].dry = dry
    BY <1>5, <1>15
  <2>2. \A q \in Requests : Running(q)' => (req'[q].dry <=> dry)
    BY <1>4, <1>6, <1>7, <2>1
  <2> QED BY <2>2 DEF Alike
<1>16. ASSUME BeforeBackup PROVE BeforeBackup'
  <2>1. backup' = {} /\ enclave'[OwnPort].files = AllFiles
    BY <1>5, <1>16 DEF BeforeBackup
  <2>2. \A q \in Requests : req'[q].pc = "import" => req'[q].before = AllFiles
    BY <1>4, <1>6, <1>10, <1>16 DEF BeforeBackup
  <2>3. \A q \in Requests : (req[q].pc = "confirm" => Filled(req[q].new))'
    <3> SUFFICES ASSUME NEW q \in Requests, req'[q].pc = "confirm" PROVE (Filled(req[q].new))'
      OBVIOUS
    <3>1. q # r
      BY <1>4, <1>6, <1>10
    <3>2. req'[q] = req[q]
      BY <1>6, <3>1
    <3>3. Filled(req[q].new)
      BY <1>16, <3>2 DEF BeforeBackup
    <3> QED BY <1>5, <3>2, <3>3 DEF Filled
  <2>4. enclave'[OwnPort].retired => \E p \in Ports \ {OwnPort} : Filled(p)'
    BY <1>5, <1>16 DEF BeforeBackup, Filled
  <2>5. enclave'[OwnPort].retired =>
          \A q \in Requests : Running(q)' /\ req'[q].dry => req'[q].pc \in Early
    <3> SUFFICES ASSUME enclave'[OwnPort].retired, NEW q \in Requests, Running(q)', req'[q].dry
                 PROVE  req'[q].pc \in Early
      OBVIOUS
    <3>1. CASE q = r
      BY <1>4, <1>6, <1>10, <3>1 DEF Running, Early
    <3>2. CASE q # r
      BY <1>5, <1>6, <1>7, <1>16, <3>2 DEF BeforeBackup
    <3> QED BY <3>1, <3>2
  <2> QED BY <2>1, <2>2, <2>3, <2>4, <2>5 DEF BeforeBackup
<1>17. SomewhereHeld'
  BY <1>5, <1>15, <1>16 DEF MigrationInv, SomewhereHeld
<1> QED BY <1>9, <1>11, <1>12, <1>13, <1>14, <1>17 DEF MigrationInv

\* A deployment beside the running enclave only fills a slot that holds nothing.
LEMMA DeploySideBySideKeeps ==
    ASSUME MigrationInv, NEW new \in Ports, DeploySideBySide(new)
    PROVE  MigrationInv'
<1>0. enclave[new] \in SlotRecords
  BY DEF MigrationInv, MigrationTypeInv
<1>1. PICK e : e = [NoFiles EXCEPT !.up = TRUE, !.writes = enclave[new].writes]
  OBVIOUS
<1>2. e \in SlotRecords /\ e.files = {} /\ e.writes = enclave[new].writes
  BY <1>0, <1>1 DEF SlotRecords, NoFiles
<1>3. enclave' = [enclave EXCEPT ![new] = e] /\ UNCHANGED <<backup, req, mixed>> /\ enclave[new].files = {}
  BY <1>1 DEF DeploySideBySide, NewDirClean
<1>4. /\ enclave' \in [Ports -> SlotRecords] /\ \A p \in Ports \ {new} : enclave'[p] = enclave[p]
      /\ enclave'[new] = e
  BY <1>2, <1>3 DEF MigrationInv, MigrationTypeInv
<1>5. MigrationTypeInv' /\ Outwards' /\ Kinds' /\ (Alike <=> Alike')
  BY <1>3, <1>4 DEF MigrationInv, MigrationTypeInv, Outwards, Kinds, Running, Alike
<1>6. Carried'
  BY <1>2, <1>4, MigrationAssumption DEF MigrationInv, Carried
<1>7. Rehearsed'
  <2>1. \A p \in Ports : enclave'[p].files = enclave[p].files /\ enclave'[p].writes = enclave[p].writes
    BY <1>2, <1>3, <1>4
  <2>2. \A r \in Requests : req[r].new \in Ports /\ req'[r] = req[r]
    BY <1>3 DEF MigrationInv, MigrationTypeInv, RequestRecords
  <2> QED BY <2>1, <2>2 DEF MigrationInv, Rehearsed, RehearsalOK
<1>8. ASSUME BeforeBackup PROVE BeforeBackup'
  <2>1. AllFiles # {}
    BY MigrationAssumption DEF AllFiles
  <2>2. new # OwnPort
    BY <1>3, <1>8, <2>1 DEF BeforeBackup
  <2>3. enclave'[OwnPort] = enclave[OwnPort]
    BY <1>4, <2>2, MigrationAssumption
  <2>4. \A p \in Ports : Filled(p) => Filled(p)'
    BY <1>3, <1>4 DEF Filled
  <2>5. \A r \in Requests : Running(r)' <=> Running(r)
    BY <1>3 DEF Running
  <2>6. \A r \in Requests : req[r].pc = "confirm" => req[r].new \in Ports
    BY DEF MigrationInv, MigrationTypeInv, RequestRecords
  <2>7. \A r \in Requests : (req[r].pc = "confirm" => Filled(req[r].new))'
    <3> SUFFICES ASSUME NEW r \in Requests, req[r].pc = "confirm" PROVE (Filled(req[r].new))'
      BY <1>3
    <3>1. PICK p : p = req[r].new
      OBVIOUS
    <3>2. Filled(p)'
      BY <1>8, <2>4, <2>6, <3>1 DEF BeforeBackup
    <3> QED BY <1>3, <3>1, <3>2 DEF Filled
  <2> QED BY <1>3, <1>8, <2>3, <2>4, <2>5, <2>7 DEF BeforeBackup
<1>9. SomewhereHeld'
  BY <1>3, <1>5, <1>8 DEF MigrationInv, SomewhereHeld
<1> QED BY <1>5, <1>6, <1>7, <1>9 DEF MigrationInv

\* A plain deployment moves the whole state aside, once.
LEMMA DeployLocalKeeps ==
    ASSUME MigrationInv, DeployLocal
    PROVE  MigrationInv'
<1>1. PICK e : e = [NoFiles EXCEPT !.up = TRUE]
  OBVIOUS
<1>2. e \in SlotRecords /\ e.files = {}
  BY <1>1 DEF SlotRecords, NoFiles
<1>3. /\ enclave' = [enclave EXCEPT ![OwnPort] = e] /\ UNCHANGED <<req, mixed>>
      /\ backup = {} /\ backup' = enclave[OwnPort].files
  BY <1>1 DEF DeployLocal
<1>4. MigrationTypeInv'
  BY <1>2, <1>3, MigrationAssumption DEF MigrationInv, MigrationTypeInv, SlotRecords
<1>5. Outwards' /\ Kinds' /\ (Alike <=> Alike')
  BY <1>3 DEF MigrationInv, Outwards, Kinds, Running, Alike
<1>6. enclave'[OwnPort] = e /\ \A p \in Ports \ {OwnPort} : enclave'[p] = enclave[p]
  BY <1>3, MigrationAssumption DEF MigrationInv, MigrationTypeInv
<1>7. Carried'
  BY <1>2, <1>6 DEF MigrationInv, Carried
<1>8. Rehearsed'
  <2>1. \A r \in Requests : req[r].pc \in {"restart", "judge"} => req[r].new \in Ports \ {OwnPort}
    BY DEF MigrationInv, Outwards, Running
  <2> QED BY <1>3, <1>6, <2>1 DEF MigrationInv, Rehearsed, RehearsalOK
<1>9. ~mixed => Essential \subseteq backup'
  <2>1. ~(Essential \subseteq backup)
    BY <1>3, MigrationAssumption
  <2> QED BY <1>3, <2>1 DEF MigrationInv, SomewhereHeld, BeforeBackup, AllFiles
<1>10. SomewhereHeld'
  BY <1>3, <1>5, <1>9 DEF MigrationInv, SomewhereHeld
<1> QED BY <1>4, <1>5, <1>7, <1>8, <1>10 DEF MigrationInv

\* The delegation moves its request only.
LEMMA CollectDelegationKeeps ==
    ASSUME MigrationInv, NEW r \in Requests, NEW ok \in BOOLEAN, CollectDelegation(r, ok)
    PROVE  MigrationInv'
<1>1. Running(r) /\ req[r].pc = "delegation" /\ UNCHANGED <<enclave, backup, mixed>>
  BY DEF CollectDelegation, Running
<1>2. CASE Goto(r, "export")
  <2>1. PICK x \in RequestRecords : /\ req' = [req EXCEPT ![r] = x] /\ x.pc = "export"
                                    /\ x.old = req[r].old /\ x.new = req[r].new /\ x.dry = req[r].dry
    BY <1>2, Moves DEF Places
  <2>2. KindOK(x) /\ RehearsalOK(x, enclave[x.new]) /\ x.pc \in Early
    BY <2>1 DEF KindOK, RehearsalOK, Early
  <2> QED BY <1>1, <2>1, <2>2, OnlyRequest
<1>3. CASE Fail(r, "failed")
  BY <1>1, <1>3, FailKeeps DEF Ends
<1> QED BY <1>2, <1>3 DEF CollectDelegation

\* So does the judgement.
LEMMA JudgeBootKeeps ==
    ASSUME MigrationInv, NEW r \in Requests, JudgeBoot(r)
    PROVE  MigrationInv'
<1>1. Running(r) /\ req[r].pc = "judge" /\ UNCHANGED <<enclave, backup, mixed>>
  BY DEF JudgeBoot, Running
<1>2. CASE Goto(r, "reset")
  <2>1. PICK x \in RequestRecords : /\ req' = [req EXCEPT ![r] = x] /\ x.pc = "reset"
                                    /\ x.old = req[r].old /\ x.new = req[r].new /\ x.dry = req[r].dry
    BY <1>2, Moves DEF Places
  <2>2. req[r].dry
    BY <1>1 DEF MigrationInv, Kinds, KindOK
  <2>3. BeforeBackup => ~enclave[OwnPort].retired
    BY <1>1, <2>2 DEF BeforeBackup, Early
  <2>4. KindOK(x) /\ RehearsalOK(x, enclave[x.new])
    BY <2>1, <2>2 DEF KindOK, RehearsalOK
  <2> QED BY <1>1, <2>1, <2>3, <2>4, OnlyRequest
<1>3. CASE Fail(r, "boot-failed")
  BY <1>1, <1>3, FailKeeps DEF Ends
<1> QED BY <1>2, <1>3 DEF JudgeBoot

\* Every step keeps the invariant.
LEMMA MigrationStepInv ==
    ASSUME MigrationInv, [MigrationNext]_migrationVars
    PROVE  MigrationInv'
<1>1. CASE UNCHANGED migrationVars
  <2>1. UNCHANGED <<enclave, backup, req, mixed>>
    BY <1>1 DEF migrationVars
  <2> QED BY <2>1 DEF MigrationInv, MigrationTypeInv, Outwards, Kinds, SomewhereHeld, Alike, BeforeBackup,
                      Running, Filled, Carried, Rehearsed
<1>2. ASSUME NEW r \in Requests, NEW ok \in BOOLEAN,
             \/ GenerateKeypair(r, ok) \/ CollectDelegation(r, ok) \/ ExportState(r, ok)
             \/ \E left \in {{}} \cup {{f} : f \in Essential} : ImportState(r, left, ok)
             \/ VerifyConfirmation(r, ok)
      PROVE  MigrationInv'
  <2>1. CASE \E left \in {{}} \cup {{f} : f \in Essential} : ImportState(r, left, ok)
    BY <2>1, ImportStateKeeps, Zenon
  <2> QED BY <1>2, <2>1, GenerateKeypairKeeps, CollectDelegationKeeps, ExportStateKeeps,
             VerifyConfirmationKeeps
<1>3. ASSUME NEW r \in Requests, NEW how, NEW left \in SUBSET Essential,
             \/ CountSealed(r) \/ JudgeBoot(r) \/ RestartNew(r, how) \/ ResetNew(r, how, left)
      PROVE  MigrationInv'
  BY <1>3, CountSealedKeeps, JudgeBootKeeps, RestartNewKeeps, ResetNewKeeps
<1>4. ASSUME NEW r \in Requests, NEW old \in Ports, NEW new \in Ports, NEW dry \in BOOLEAN,
             StartMigration(r, old, new, dry)
      PROVE  MigrationInv'
  BY <1>4, StartMigrationKeeps
<1>5. ASSUME NEW p \in Ports, DeploySideBySide(p) PROVE MigrationInv'
  BY <1>5, DeploySideBySideKeeps
<1>6. CASE DeployLocal
  BY <1>6, DeployLocalKeeps
<1>7. {} \in SUBSET Essential
  OBVIOUS
<1>8. CASE MigrationNext
  BY <1>2, <1>3, <1>4, <1>5, <1>6, <1>7, <1>8, Zenon DEF MigrationNext
<1> QED BY <1>1, <1>8

\* For every set of files and requests and however many requests overlap: unless a
\* rehearsal and a real run do, the sealed state is never lost (path_a_ceremony.rs:97).
THEOREM SealedStateHeld == MigrationSpec => []StateHeld
<1>1. MigrationInv /\ [MigrationNext]_migrationVars => MigrationInv'
  BY MigrationStepInv
<1> QED BY <1>1, MigrationInitInv, MigrationInvHolds, PTL DEF MigrationSpec

\* The set booted on, of the size of a set that has all that matters, is that set.
LEMMA BootedOnAll ==
    ASSUME MigrationInv, NEW r \in Requests, req[r].pc = "judge",
           enclave[req[r].new].writes <= req[r].since + 1,
           BootProved(enclave[req[r].old].files, req[r].before, enclave[req[r].new].files, req[r].how)
    PROVE  enclave[req[r].old].files \ req[r].booted \subseteq MayBeAbsent
<1>1. /\ req[r].old = OwnPort /\ req[r].new \in Ports \ {OwnPort} /\ req[r] \in RequestRecords
      /\ enclave[req[r].new] \in SlotRecords
  BY Typed DEF Running
<1>2. PICK after : after = enclave[req[r].new].files
  OBVIOUS
<1>3. PICK before : before = req[r].before
  OBVIOUS
<1>4. Cardinality(after) = Cardinality(before) /\ (enclave[OwnPort].files \ after) \subseteq MayBeAbsent
  BY <1>1, <1>2, <1>3 DEF BootProved
<1>5. RehearsalOK(req[r], enclave[req[r].new])
  BY DEF MigrationInv, Rehearsed
<1>6. before \subseteq Essential /\ after \subseteq Essential
  BY <1>1, <1>2, <1>3, <1>5 DEF RehearsalOK, MigrationInv, Carried
<1>7. req[r].since \in Nat /\ enclave[req[r].new].writes \in Nat
  BY <1>1 DEF RequestRecords, SlotRecords
<1>8. req[r].booted = before \/ req[r].booted = after
  BY <1>2, <1>3, <1>5, <1>7 DEF RehearsalOK
<1>9. CASE req[r].booted = after
  BY <1>1, <1>4, <1>9
<1>10. CASE req[r].booted = before
  <2>1. CASE enclave[OwnPort].files = {}
    BY <1>1, <2>1
  <2>2. CASE enclave[OwnPort].files = AllFiles
    <3>1. after = Essential
      BY <1>4, <1>6, <2>2, MigrationAssumption DEF AllFiles
    <3>2. before = Essential
      BY <1>4, <1>6, <3>1, MigrationAssumption, FS_Subset
    <3> QED BY <1>1, <1>10, <2>2, <3>2 DEF AllFiles
  <2> QED BY <2>1, <2>2 DEF MigrationInv, Carried
<1> QED BY <1>8, <1>9, <1>10

\* No request passes its rehearsal in this step.
NonePasses == \A r \in Requests : req[r].pc = "judge" => req'[r].pc # "reset"

\* Only the judgement lets a rehearsal pass.
LEMMA OnlyJudged ==
    ASSUME MigrationInv, MigrationNext
    PROVE  NonePasses \/ \E q \in Requests : JudgeBoot(q)
<1>0. ASSUME NEW q \in Requests, NEW x, req' = [req EXCEPT ![q] = x], x.pc # "reset" PROVE NonePasses
  BY <1>0 DEF MigrationInv, MigrationTypeInv, NonePasses
<1>1. ASSUME NEW q \in Requests, NEW pc \in Places \ {"reset"}, Goto(q, pc) PROVE NonePasses
  BY <1>0, <1>1, Moves
<1>2. ASSUME NEW q \in Requests, NEW why \in Ends, Fail(q, why) PROVE NonePasses
  BY <1>0, <1>2, Moves
<1>3. ASSUME UNCHANGED req PROVE NonePasses
  BY <1>3 DEF NonePasses
<1>4. ASSUME NEW q \in Requests, NEW ok \in BOOLEAN, GenerateKeypair(q, ok) PROVE NonePasses
  <2>1. Goto(q, "delegation") \/ Fail(q, "failed")
    BY <1>4 DEF GenerateKeypair
  <2> QED BY <1>1, <1>2, <2>1 DEF Places, Ends
<1>5. ASSUME NEW q \in Requests, NEW ok \in BOOLEAN, CollectDelegation(q, ok) PROVE NonePasses
  <2>1. Goto(q, "export") \/ Fail(q, "failed")
    BY <1>5 DEF CollectDelegation
  <2> QED BY <1>1, <1>2, <2>1 DEF Places, Ends
<1>6. ASSUME NEW q \in Requests, NEW ok \in BOOLEAN, ExportState(q, ok) PROVE NonePasses
  <2>1. CASE Fail(q, "failed")
    BY <1>2, <2>1 DEF Ends
  <2>2. CASE req' = [req EXCEPT ![q].pc = IF ok THEN "import" ELSE "done",
                                ![q].result = IF ok THEN @ ELSE "failed",
                                ![q].before = enclave[req[q].old].files]
    <3>1. PICK pc : pc = IF ok THEN "import" ELSE "done"
      OBVIOUS
    <3>2. PICK x : x = [req[q] EXCEPT !.pc = pc, !.result = IF ok THEN @ ELSE "failed",
                                      !.before = enclave[req[q].old].files]
      OBVIOUS
    <3>3. x.pc = pc
      BY <3>2, Typed DEF RequestRecords
    <3>4. req' = [req EXCEPT ![q] = x]
      BY <2>2, <3>1, <3>2 DEF MigrationInv, MigrationTypeInv
    <3> QED BY <1>0, <3>1, <3>3, <3>4
  <2> QED BY <1>6, <2>1, <2>2 DEF ExportState
<1>7. ASSUME NEW q \in Requests, NEW left, NEW ok \in BOOLEAN, ImportState(q, left, ok) PROVE NonePasses
  <2>1. Goto(q, "boot") \/ Goto(q, "confirm") \/ Fail(q, "failed")
    BY <1>7 DEF ImportState
  <2> QED BY <1>1, <1>2, <2>1 DEF Places, Ends
<1>8. ASSUME NEW q \in Requests, NEW ok \in BOOLEAN, VerifyConfirmation(q, ok) PROVE NonePasses
  <2>1. Fail(q, "ok") \/ Fail(q, "failed")
    BY <1>8 DEF VerifyConfirmation
  <2> QED BY <1>2, <2>1 DEF Ends
<1>9. ASSUME NEW q \in Requests, CountSealed(q) PROVE NonePasses
  <2>1. PICK x : x = [req[q] EXCEPT !.pc = "restart", !.before = enclave[req[q].new].files,
                                    !.since = enclave[req[q].new].writes]
    OBVIOUS
  <2>2. x.pc = "restart"
    BY <2>1, Typed DEF RequestRecords
  <2>3. req' = [req EXCEPT ![q] = x]
    BY <1>9, <2>1 DEF CountSealed, MigrationInv, MigrationTypeInv
  <2> QED BY <1>0, <2>2, <2>3
<1>10. ASSUME NEW q \in Requests, NEW how, RestartNew(q, how) PROVE NonePasses
  <2>1. CASE Fail(q, "boot-not-run")
    BY <1>2, <2>1 DEF Ends
  <2>2. CASE req' = [req EXCEPT ![q].pc = "judge", ![q].booted = enclave[req[q].new].files, ![q].how = how]
    <3>1. PICK x : x = [req[q] EXCEPT !.pc = "judge", !.booted = enclave[req[q].new].files, !.how = how]
      OBVIOUS
    <3>2. x.pc = "judge"
      BY <3>1, Typed DEF RequestRecords
    <3>3. req' = [req EXCEPT ![q] = x]
      BY <2>2, <3>1 DEF MigrationInv, MigrationTypeInv
    <3> QED BY <1>0, <3>2, <3>3
  <2> QED BY <1>10, <2>1, <2>2 DEF RestartNew
<1>11. ASSUME NEW q \in Requests, NEW how, NEW left, ResetNew(q, how, left) PROVE NonePasses
  <2>1. Fail(q, "dry-run-ok") \/ Fail(q, "dry-run-ok-reset-failed")
    BY <1>11 DEF ResetNew
  <2> QED BY <1>2, <2>1 DEF Ends
<1>12. ASSUME NEW q \in Requests, NEW old \in Ports, NEW new \in Ports, NEW dry \in BOOLEAN,
              StartMigration(q, old, new, dry)
       PROVE  NonePasses
  <2>1. PICK pc, res : /\ pc = IF CheckMigrationPorts(old, new) THEN "keypair" ELSE "done"
                       /\ res = IF CheckMigrationPorts(old, new) THEN "none" ELSE "refused"
    OBVIOUS
  <2>2. PICK x : x = [NoRequest EXCEPT !.pc = pc, !.result = res, !.old = old, !.new = new, !.dry = dry]
    OBVIOUS
  <2>3. x.pc = pc
    BY <2>2 DEF NoRequest
  <2>4. req' = [req EXCEPT ![q] = x]
    BY <1>12, <2>1, <2>2 DEF StartMigration
  <2> QED BY <1>0, <2>1, <2>3, <2>4
<1>13. ASSUME NEW p \in Ports, DeploySideBySide(p) PROVE NonePasses
  BY <1>3, <1>13 DEF DeploySideBySide
<1>14. CASE DeployLocal
  BY <1>3, <1>14 DEF DeployLocal
<1> QED BY <1>4, <1>5, <1>6, <1>7, <1>8, <1>9, <1>10, <1>11, <1>12, <1>13, <1>14, Zenon DEF MigrationNext

\* However many requests overlap: a rehearsal that passes, with NEW's files written at most
\* once since they were counted, has started NEW on every file that matters
\* (node_deploy.rs:697, 826).
THEOREM RehearsalsSound == MigrationSpec => RehearsalSound
<1> DEFINE A == \A r \in Requests :
                  /\ req[r].pc = "judge" /\ req'[r].pc = "reset"
                  /\ enclave[req[r].new].writes <= req[r].since + 1
                  => enclave[req[r].old].files \ req[r].booted \subseteq MayBeAbsent
<1>1. MigrationInv /\ [MigrationNext]_migrationVars => MigrationInv'
  BY MigrationStepInv
<1>2. ASSUME MigrationInv, MigrationNext PROVE A
  <2>1. CASE NonePasses
    BY <2>1 DEF NonePasses
  <2>2. ASSUME NEW q \in Requests, JudgeBoot(q) PROVE A
    <3> SUFFICES ASSUME NEW r \in Requests, req[r].pc = "judge", req'[r].pc = "reset",
                        enclave[req[r].new].writes <= req[r].since + 1
                 PROVE  enclave[req[r].old].files \ req[r].booted \subseteq MayBeAbsent
      OBVIOUS
    <3>1. CASE Fail(q, "boot-failed")
      <4>1. PICK x \in RequestRecords : req' = [req EXCEPT ![q] = x] /\ x.pc = "done"
        BY <1>2, <3>1, Moves DEF Ends
      <4> QED BY <1>2, <4>1 DEF MigrationInv, MigrationTypeInv
    <3>2. CASE /\ BootProved(enclave[req[q].old].files, req[q].before, enclave[req[q].new].files, req[q].how)
               /\ Goto(q, "reset")
      <4>1. PICK x \in RequestRecords : req' = [req EXCEPT ![q] = x]
        BY <1>2, <3>2, Moves DEF Places
      <4>2. r = q
        BY <1>2, <4>1 DEF MigrationInv, MigrationTypeInv
      <4> QED BY <1>2, <3>2, <4>2, BootedOnAll
    <3> QED BY <2>2, <3>1, <3>2 DEF JudgeBoot
  <2> QED BY <1>2, <2>1, <2>2, OnlyJudged
<1>3. MigrationInv /\ [MigrationNext]_migrationVars => [A]_migrationVars
  <2> HIDE DEF A
  <2> QED BY <1>2
<1> QED BY <1>1, <1>3, MigrationInitInv, PTL DEF MigrationSpec, RehearsalSound
===============================================================================
