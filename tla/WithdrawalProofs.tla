-------------------------- MODULE WithdrawalProofs --------------------------
(***************************************************************************)
(* Proofs about Withdrawal: the enclave's settlement always agrees with    *)
(* the ledger.  The argument: a withdrawal has one transaction, whose slot *)
(* and window its row repeats; a proof the sweep carries stays true while  *)
(* the ledger moves on; and a transaction whose slot is taken or whose     *)
(* window has passed is dead for ever.                                     *)
(***************************************************************************)
EXTENDS Withdrawal, TLAPS

\* A transaction that no later ledger can include.
Dead(t) == t.seq < acctSeq \/ t.lls <= ledger

Fresh == {"idle", "ledger", "built"}
Signing == {"reserved", "signing", "submit", "submitted"}

\* A slot is taken once, below the account's Sequence.
SlotsTakenOnce ==
    /\ \A i \in included : i.seq < acctSeq /\ i.at <= ledger
    /\ \A i, j \in included : i.seq = j.seq => i = j

\* Nothing of a withdrawal exists before its reservation.
FreshUnknown ==
    \A w \in Withdrawals : At(w) \in Fresh =>
        /\ \A t \in mempool : t.wd # w
        /\ \A i \in included : i.content # w
        /\ \A r \in pending : r.wd # w
        /\ w \notin restored

\* A row describes the only transaction its withdrawal can have.
RowsDescribe ==
    \A r \in pending :
        /\ \A t \in mempool : t.wd = r.wd => t = r
        /\ \A i \in included : i.content = r.wd => i.seq = r.seq /\ i.at <= r.lls
        /\ At(r.wd) \in Signing => Tx(r.wd) = r

\* A withdrawal that was rolled back has no live transaction.
RestoredDead ==
    \A w \in restored :
        /\ \A t \in mempool : t.wd = w => Dead(t)
        /\ At(w) \in Signing => Dead(Tx(w))

\* The high-water keeps rows apart by slot.
RowsBySlot ==
    /\ \A r \in pending : r.seq <= highWater
    /\ \A r, q \in pending : r.seq = q.seq => r = q

\* What the proofs in the sweep's hands state is still true.
ProofsHold ==
    /\ cur.at = "stolen" => \E i \in included :
            /\ i.seq = cur.seq
            /\ \A r \in pending : r.seq = cur.seq => i.content # r.wd
    /\ cur.at = "rollback" =>
            /\ cur.idx <= ledger
            /\ \A i \in included : i.seq >= cur.seq => i.at > cur.idx

\* What relates the ledger, the enclave and the handlers.
Core ==
    /\ SlotsTakenOnce /\ FreshUnknown /\ RowsDescribe /\ RestoredDead /\ RowsBySlot
    /\ SettledAsPaid

WInv == TypeOK /\ Core /\ ProofsHold

-----------------------------------------------------------------------------
(* Types. *)

\* The initial state is well typed.
LEMMA InitTypes == WithdrawalInit => TypeOK
BY WithdrawalAssumption
   DEF WithdrawalInit, TypeOK, XrplTypeOK, EnclaveTypeOK, HandlerTypeOK,
       JournalTypeOK, SweepTypeOK, At, NoVisit, Visit, Visits, Labels

\* A closing ledger keeps the types.
LEMMA CloseTypes == TypeOK /\ CloseLedger => TypeOK'
<1> SUFFICES ASSUME TypeOK, CloseLedger PROVE TypeOK'
    OBVIOUS
<1>0. Close
    BY DEF CloseLedger, CloseEmpty, ClosePayment, CloseOther, CloseIncoming
<1>1. EnclaveTypeOK' /\ HandlerTypeOK' /\ JournalTypeOK'
    BY <1>0 DEF TypeOK, EnclaveTypeOK, HandlerTypeOK, JournalTypeOK, At, Close,
                enclaveVars
<1>2. SweepTypeOK'
  <2>1. ledger + 1 \in Nat /\ buffered \subseteq Nat
      BY WithdrawalAssumption DEF TypeOK, XrplTypeOK, SweepTypeOK
  <2>2. buffered' \subseteq Nat
      BY <1>0, <2>1 DEF Close
  <2> QED
      BY <1>0, <2>2 DEF TypeOK, SweepTypeOK, Close, sweepVars
<1>3. ASSUME NEW c \in Contents, NEW b \in BOOLEAN, Takes(c, b)
      PROVE  included' \subseteq Inclusion /\ acctSeq' \in Nat \ {0}
    BY <1>3 DEF TypeOK, XrplTypeOK, Takes, Inclusion
<1>4. ledger' \in 0 .. MaxLedger /\ defers' \in 0 .. MaxDefers
    BY <1>0, WithdrawalAssumption DEF TypeOK, XrplTypeOK, Close
<1>5. CASE CloseEmpty
    BY <1>1, <1>2, <1>4, <1>5 DEF CloseEmpty, TypeOK, XrplTypeOK
<1>6. ASSUME NEW t \in mempool, ClosePayment(t) PROVE TypeOK'
  <2>1. t.wd \in Contents
      BY DEF TypeOK, XrplTypeOK, Payment, Contents
  <2>2. mempool' \subseteq Payment /\ faults' \subseteq FaultKinds
      BY <1>6 DEF ClosePayment, TypeOK, XrplTypeOK, Fault
  <2> QED
      BY <1>1, <1>2, <1>3, <1>4, <1>6, <2>1, <2>2 DEF ClosePayment, TypeOK, XrplTypeOK
<1>7. ASSUME NEW c \in {Foreign, NotPayment}, CloseOther(c) PROVE TypeOK'
  <2>1. faults' \subseteq FaultKinds /\ mempool' \subseteq Payment
      BY <1>7 DEF CloseOther, TypeOK, XrplTypeOK, Fault
  <2> QED
      BY <1>1, <1>2, <1>3, <1>4, <1>7, <2>1 DEF CloseOther, TypeOK, XrplTypeOK, Contents
<1>8. ASSUME NEW e \in journal, CloseIncoming(e.seq) PROVE TypeOK'
  <2>1. faults' \subseteq FaultKinds /\ e.seq \in Nat /\ ledger + 1 \in Nat
      BY <1>8, WithdrawalAssumption
         DEF CloseIncoming, TypeOK, XrplTypeOK, JournalTypeOK, PendingWithdrawal, Fault
  <2>2. incoming' \subseteq Incoming
      BY <1>8, <2>1 DEF CloseIncoming, TypeOK, XrplTypeOK, Incoming
  <2> QED
      BY <1>1, <1>2, <1>4, <1>8, <2>1, <2>2 DEF CloseIncoming, TypeOK, XrplTypeOK
<1> QED
    BY <1>5, <1>6, <1>7, <1>8 DEF CloseLedger

\* The steps of a handler keep the types.
LEMMA HandleTypes ==
    ASSUME TypeOK, NEW w \in Withdrawals, Handle(w)
    PROVE  TypeOK'
<1> USE DEF TypeOK
<1>1. local[w].seq \in Nat /\ local[w].lls \in Nat /\ acctSeq \in Nat \ {0} /\ ledger \in Nat
    BY WithdrawalAssumption DEF HandlerTypeOK, XrplTypeOK
<1>2. ASSUME At(w) \notin {"idle", "done"}, NEW hash \in BOOLEAN
      PROVE  Tx(w) \in Payment /\ Entry(w, hash) \in PendingWithdrawal
    BY <1>1, <1>2 DEF HandlerTypeOK, Tx, Entry, Payment, PendingWithdrawal
<1>3. ASSUME NEW label \in Labels, At(w) \notin {"idle", "done"}, Goto(w, label) PROVE HandlerTypeOK'
  <2>1. local' \in [Withdrawals -> [at : Labels, seq : Nat, lls : Nat]]
      BY <1>3 DEF HandlerTypeOK, Goto
  <2>2. ASSUME NEW v \in Withdrawals PROVE local'[v].seq = local[v].seq
      BY <1>3 DEF HandlerTypeOK, Goto
  <2>3. ASSUME NEW v \in Withdrawals, v # w PROVE local'[v].at = local[v].at
      BY <1>3, <2>3 DEF HandlerTypeOK, Goto
  <2> QED
      BY <1>3, <2>1, <2>2, <2>3 DEF HandlerTypeOK, At
<1>4. ASSUME Done(w) PROVE HandlerTypeOK'
    BY <1>4 DEF HandlerTypeOK, Done, At, Labels
<1>5. ASSUME NEW e \in PendingWithdrawal, journal' = Upsert(e) PROVE JournalTypeOK'
    BY <1>5 DEF JournalTypeOK, Upsert
<1>6. ASSUME At(w) = "built", ReserveRow(w) PROVE EnclaveTypeOK'
  <2>1. Tx(w) \in Payment
      BY <1>2, <1>6
  <2> QED
      BY <1>1, <1>6, <2>1 DEF ReserveRow, EnclaveTypeOK
<1>7. CASE ReadSequence(w)
  <2>1. HandlerTypeOK'
    <3>1. PICK s \in Nat \ {0} : local' = [local EXCEPT ![w].at = "ledger", ![w].seq = s]
        BY <1>1, <1>7 DEF ReadSequence, Readable
    <3>2. local' \in [Withdrawals -> [at : Labels, seq : Nat, lls : Nat]]
        BY <3>1 DEF HandlerTypeOK, Labels
    <3>3. ASSUME NEW v \in Withdrawals, v # w PROVE local'[v] = local[v]
        BY <3>1, <3>3 DEF HandlerTypeOK
    <3>4. local'[w].seq = s
        BY <3>1 DEF HandlerTypeOK
    <3> QED
        BY <3>1, <3>2, <3>3, <3>4 DEF HandlerTypeOK, At
  <2>2. faults' \subseteq FaultKinds
      BY <1>7 DEF ReadSequence, Fault
  <2> QED
      BY <1>7, <2>1, <2>2 DEF ReadSequence, xrplVars, enclaveVars, sweepVars,
         XrplTypeOK, EnclaveTypeOK, JournalTypeOK, SweepTypeOK
<1>8. CASE ReadLedger(w)
  <2>1. HandlerTypeOK'
    <3>1. ledger + Window \in Nat
        BY <1>1, WithdrawalAssumption
    <3> QED
        BY <1>8, <3>1 DEF ReadLedger, HandlerTypeOK, At, Labels
  <2> QED
      BY <1>8, <2>1 DEF ReadLedger, xrplVars, enclaveVars, sweepVars,
         XrplTypeOK, EnclaveTypeOK, JournalTypeOK, SweepTypeOK
<1>9. CASE Reserve(w)
    BY <1>3, <1>6, <1>9 DEF Reserve, xrplVars, sweepVars, Labels,
       XrplTypeOK, JournalTypeOK, SweepTypeOK
<1>10. CASE ReserveRefused(w)
    BY <1>4, <1>10 DEF ReserveRefused, xrplVars, enclaveVars, sweepVars,
       XrplTypeOK, EnclaveTypeOK, JournalTypeOK, SweepTypeOK
<1>11. CASE ReserveReplyLost(w)
    BY <1>4, <1>6, <1>11 DEF ReserveReplyLost, Fault, xrplVars, sweepVars,
       XrplTypeOK, JournalTypeOK, SweepTypeOK
<1>12. CASE RecordReserved(w)
    BY <1>2, <1>3, <1>5, <1>12 DEF RecordReserved, xrplVars, enclaveVars, sweepVars,
       Labels, XrplTypeOK, EnclaveTypeOK, SweepTypeOK
<1>13. CASE CollectSignatures(w)
    BY <1>3, <1>4, <1>13 DEF CollectSignatures, xrplVars, enclaveVars, sweepVars,
       Labels, XrplTypeOK, EnclaveTypeOK, JournalTypeOK, SweepTypeOK
<1>14. CASE SubmitMultisigned(w)
  <2>1. HandlerTypeOK'
      BY <1>3, <1>4, <1>14 DEF SubmitMultisigned, Labels
  <2>2. mempool' \subseteq Payment
      BY <1>2, <1>14 DEF SubmitMultisigned, FullTx, XrplTypeOK
  <2> QED
      BY <1>14, <2>1, <2>2 DEF SubmitMultisigned, enclaveVars, sweepVars,
         XrplTypeOK, EnclaveTypeOK, JournalTypeOK, SweepTypeOK
<1>15. CASE RecordSubmitted(w)
    BY <1>2, <1>4, <1>5, <1>15 DEF RecordSubmitted, xrplVars, enclaveVars, sweepVars,
       XrplTypeOK, EnclaveTypeOK, SweepTypeOK
<1> QED
    BY <1>7, <1>8, <1>9, <1>10, <1>11, <1>12, <1>13, <1>14, <1>15 DEF Handle

\* The steps of the sweep keep the types.
LEMMA SweepTypes == TypeOK /\ Sweep => TypeOK'
<1> SUFFICES ASSUME TypeOK, Sweep PROVE TypeOK'
    OBVIOUS
<1> USE DEF TypeOK
<1> DEFINE Swept == JournalTypeOK /\ queue \subseteq PendingWithdrawal
                    /\ cur \in [at : Visits, e : PendingWithdrawal \cup {NoEntry},
                               seq : Nat, idx : Nat]
<1>0. acctSeq \in Nat /\ ledger \in Nat
    BY WithdrawalAssumption DEF XrplTypeOK
<1>1. ASSUME NEW outcome, Conclude(outcome) PROVE Swept'
  <2>1. NoVisit \in [at : Visits, e : PendingWithdrawal \cup {NoEntry}, seq : Nat, idx : Nat]
      BY DEF NoVisit, Visit, Visits
  <2>2. journal' \subseteq journal /\ queue' \subseteq queue /\ cur' = NoVisit
      BY <1>1 DEF Conclude
  <2> QED
      BY <2>1, <2>2 DEF JournalTypeOK, SweepTypeOK
<1>2. ASSUME NEW at \in Visits, NEW n \in Nat, NEW idx \in Nat,
             NEW e \in PendingWithdrawal \cup {NoEntry},
             cur' = Visit(at, e, n, idx), UNCHANGED <<journal, queue>>
      PROVE  Swept'
    BY <1>2 DEF JournalTypeOK, SweepTypeOK, Visit
<1>3. cur.e \in PendingWithdrawal \cup {NoEntry} /\ cur.seq \in Nat
    BY DEF SweepTypeOK
<1>4. ASSUME NEW r \in pending, RollBack(r) PROVE EnclaveTypeOK'
    BY <1>4 DEF RollBack, EnclaveTypeOK, Payment
<1>5. Swept'
  <2>1. CASE StartSweep
      BY <2>1 DEF StartSweep, JournalTypeOK, SweepTypeOK
  <2>2. ASSUME NEW e \in queue, ReadEscrow(e) PROVE Swept'
    <3>1. e \in PendingWithdrawal /\ "sequence" \in Visits
        BY DEF SweepTypeOK, Visits
    <3> QED
        BY <1>0, <1>2, <2>2, <3>1 DEF ReadEscrow
  <2>3. CASE Decide
    <3>1. "SlotConsumed" \in Visits /\ "Expired" \in Visits
        BY DEF Visits
    <3> QED
        BY <1>1, <1>2, <1>3, <2>3, <3>1 DEF Decide
  <2>4. CASE BuildInclusionProof
    <3>1. CASE \E outcome \in {"Deferred", "Anomaly"} : Conclude(outcome)
        BY <1>1, <3>1
    <3>2. CASE cur' = Visit("finalize", cur.e, cur.e.seq, 0) /\ UNCHANGED <<journal, queue>>
               /\ \E i \in Landed(cur.e.seq) : Newest(i, cur.e.seq) /\ i.at \in buffered
      <4>1. PICK i \in included : i.seq = cur.e.seq
          BY <3>2 DEF Landed
      <4>2. cur.e.seq \in Nat /\ "finalize" \in Visits
          BY <4>1 DEF XrplTypeOK, Inclusion, Visits
      <4> QED
          BY <1>2, <1>3, <3>2, <4>2
    <3> QED
        BY <2>4, <3>1, <3>2 DEF BuildInclusionProof
  <2>5. ASSUME NEW at \in Visits, Reply(at) PROVE Swept'
      BY <1>2, <1>3, <2>5 DEF Reply
  <2>6. CASE Finalize
    <3>1. "Finalized" \in Visits /\ "stolen" \in Visits
        BY DEF Visits
    <3> QED
        BY <1>1, <1>2, <1>3, <2>5, <2>6, <3>1 DEF Finalize
  <2>7. CASE RollBackStolen
    <3>1. "RolledBackStolen" \in Visits
        BY DEF Visits
    <3> QED
        BY <2>5, <2>7, <3>1 DEF RollBackStolen
  <2>8. CASE BuildStateProof
    <3>1. "rollback" \in Visits
        BY DEF Visits
    <3> QED
        BY <1>0, <1>2, <1>3, <2>8, <3>1 DEF BuildStateProof
  <2>9. CASE RollBackExpired
    <3>1. "RolledBackExpired" \in Visits
        BY DEF Visits
    <3> QED
        BY <1>1, <2>5, <2>9, <3>1 DEF RollBackExpired
  <2>10. CASE Resolve
      BY <1>1, <2>10 DEF Resolve
  <2>11. CASE Defer
      BY <1>1, <2>11 DEF Defer
  <2> QED
      BY <2>1, <2>2, <2>3, <2>4, <2>6, <2>7, <2>8, <2>9, <2>10, <2>11 DEF Sweep
<1>6. EnclaveTypeOK'
  <2>1. CASE UNCHANGED enclaveVars
      BY <2>1 DEF enclaveVars, EnclaveTypeOK
  <2>2. CASE Finalize
    <3>1. ASSUME NEW r \in pending, pending' = pending \ {r}, final' = final \cup {r.wd},
                 UNCHANGED <<highWater, restored>>
          PROVE  EnclaveTypeOK'
        BY <3>1 DEF EnclaveTypeOK, Payment
    <3> QED
        BY <2>1, <2>2, <3>1 DEF Finalize
  <2>3. CASE RollBackStolen
      BY <1>4, <2>3 DEF RollBackStolen
  <2>4. CASE RollBackExpired
      BY <1>4, <2>1, <2>4 DEF RollBackExpired
  <2> QED
      BY <2>1, <2>2, <2>3, <2>4 DEF Sweep, StartSweep, ReadEscrow, Decide,
         BuildInclusionProof, BuildStateProof, Resolve, Defer
<1>7. UNCHANGED <<xrplVars, local, buffered, faults>>
    BY DEF Sweep, StartSweep, ReadEscrow, Decide, BuildInclusionProof, Finalize,
           RollBackStolen, BuildStateProof, RollBackExpired, Resolve, Defer
<1>8. defers' \in 0 .. MaxDefers
  <2>1. CASE Defer
      BY <2>1, WithdrawalAssumption DEF Defer
  <2> QED
      BY <2>1 DEF Sweep, StartSweep, ReadEscrow, Decide, BuildInclusionProof, Finalize,
         RollBackStolen, BuildStateProof, RollBackExpired, Resolve
<1>9. XrplTypeOK' /\ HandlerTypeOK'
    BY <1>7 DEF XrplTypeOK, HandlerTypeOK, At, xrplVars
<1> QED
    BY <1>5, <1>6, <1>7, <1>8, <1>9 DEF SweepTypeOK

\* A restart keeps the types.
LEMMA CrashTypes == TypeOK /\ Crash => TypeOK'
<1> SUFFICES ASSUME TypeOK, Crash PROVE TypeOK'
    OBVIOUS
<1> USE DEF TypeOK
<1>1. HandlerTypeOK'
    BY DEF Crash, HandlerTypeOK, At, Labels
<1>2. SweepTypeOK'
    BY DEF Crash, SweepTypeOK, NoVisit, Visit, Visits
<1>3. XrplTypeOK' /\ EnclaveTypeOK' /\ JournalTypeOK' /\ faults' \subseteq FaultKinds
      /\ defers' \in 0 .. MaxDefers
    BY DEF Crash, Fault, XrplTypeOK, EnclaveTypeOK, JournalTypeOK, xrplVars, enclaveVars
<1> QED
    BY <1>1, <1>2, <1>3

\* Every step keeps the types.
LEMMA NextTypes == TypeOK /\ [WithdrawalNext]_vars => TypeOK'
<1>1. TypeOK /\ UNCHANGED vars => TypeOK'
    BY DEF TypeOK, XrplTypeOK, EnclaveTypeOK, HandlerTypeOK, JournalTypeOK, SweepTypeOK,
           At, vars, xrplVars, enclaveVars, sweepVars
<1> QED
    BY <1>1, CloseTypes, HandleTypes, SweepTypes, CrashTypes DEF WithdrawalNext

\* The types hold for ever; among them, that the journal never holds two
\* entries for one Sequence slot (upsert in withdrawal_reconcile.rs).
THEOREM WithdrawalTypeCorrect == WithdrawalSpec => []TypeOK
<1> QED
    BY InitTypes, NextTypes, PTL DEF WithdrawalSpec

-----------------------------------------------------------------------------
(* The settlement. *)

\* A transaction takes the account's next slot in the next ledger.
LEMMA TakesNext ==
    ASSUME NEW c, NEW b, Takes(c, b)
    PROVE  \E n : /\ included' = included \cup {n} /\ n.content = c
                  /\ n.seq = acctSeq /\ n.at = ledger + 1 /\ acctSeq' = acctSeq + 1
<1> DEFINE n == [content |-> c, seq |-> acctSeq, at |-> ledger + 1, clean |-> b]
<1>1. /\ included' = included \cup {n} /\ n.content = c
      /\ n.seq = acctSeq /\ n.at = ledger + 1 /\ acctSeq' = acctSeq + 1
    BY DEF Takes
<1> HIDE DEF n
<1> QED
    BY <1>1

\* What a closing ledger adds: at most one transaction, in the next slot, and
\* the Payment of a withdrawal only if it was submitted and is not dead.
LEMMA CloseAdds ==
    ASSUME TypeOK, CloseLedger
    PROVE  /\ Close
           /\ included \subseteq included' /\ mempool' \subseteq mempool
           /\ acctSeq' \in Nat /\ acctSeq' >= acctSeq
           /\ \A i \in included' \ included :
                /\ i.seq = acctSeq /\ acctSeq' = acctSeq + 1 /\ i.at = ledger + 1
                /\ i.content \in Withdrawals =>
                     \E t \in mempool : t.wd = i.content /\ t.seq = acctSeq
                                        /\ ledger + 1 <= t.lls
           /\ \A i, j \in included' \ included : i = j
<1>1. acctSeq \in Nat
    BY DEF TypeOK, XrplTypeOK
<1>2. CASE CloseEmpty
    BY <1>1, <1>2 DEF CloseEmpty
<1>3. CASE \E t \in mempool : ClosePayment(t)
  <2>1. PICK t \in mempool : ClosePayment(t)
      BY <1>3
  <2>2. PICK b \in BOOLEAN : Takes(t.wd, b)
      BY <2>1 DEF ClosePayment
  <2>3. t.seq = acctSeq /\ ledger + 1 <= t.lls /\ mempool' \subseteq mempool /\ Close
      BY <2>1 DEF ClosePayment
  <2>4. PICK n : /\ included' = included \cup {n} /\ n.content = t.wd
                 /\ n.seq = acctSeq /\ n.at = ledger + 1 /\ acctSeq' = acctSeq + 1
      BY <2>2, TakesNext
  <2> QED
      BY <1>1, <2>3, <2>4
<1>4. CASE \E c \in {Foreign, NotPayment} : CloseOther(c)
  <2>1. PICK c \in {Foreign, NotPayment} : CloseOther(c)
      BY <1>4
  <2>2. PICK n : /\ included' = included \cup {n} /\ n.content = c
                 /\ n.seq = acctSeq /\ n.at = ledger + 1 /\ acctSeq' = acctSeq + 1
      BY <2>1, TakesNext DEF CloseOther
  <2>3. n.content \notin Withdrawals
      BY <2>2, WithdrawalAssumption
  <2> QED
      BY <1>1, <2>1, <2>2, <2>3 DEF CloseOther
<1>5. CASE \E e \in journal : CloseIncoming(e.seq)
    BY <1>1, <1>5 DEF CloseIncoming
<1> QED
    BY <1>2, <1>3, <1>4, <1>5 DEF CloseLedger

\* A closing ledger keeps the settlement: it cannot pay what is dead.
LEMMA CloseCore == TypeOK /\ Core /\ ProofsHold /\ CloseLedger => Core' /\ ProofsHold'
<1> SUFFICES ASSUME TypeOK, Core, ProofsHold, CloseLedger PROVE Core' /\ ProofsHold'
    OBVIOUS
<1>1. /\ ledger' = ledger + 1 /\ pending' = pending /\ highWater' = highWater
      /\ final' = final /\ restored' = restored /\ local' = local /\ cur' = cur
    BY CloseAdds DEF Close, enclaveVars, sweepVars
<1>2. ledger \in Nat /\ acctSeq \in Nat /\ cur.idx \in Nat
    BY WithdrawalAssumption DEF TypeOK, XrplTypeOK, SweepTypeOK
<1>3. SlotsTakenOnce'
  <2>1. ASSUME NEW i \in included' PROVE i.seq < acctSeq' /\ i.at <= ledger'
    <3>1. i \in included => i.seq \in Nat /\ i.at \in Nat
        BY DEF TypeOK, XrplTypeOK, Inclusion
    <3> QED
        BY CloseAdds, <1>1, <1>2, <3>1 DEF Core, SlotsTakenOnce
  <2>2. ASSUME NEW i \in included', NEW j \in included', i.seq = j.seq PROVE i = j
    <3>1. ASSUME NEW k \in included PROVE k.seq \in Nat /\ k.seq < acctSeq
        BY DEF TypeOK, XrplTypeOK, Inclusion, Core, SlotsTakenOnce
    <3>2. ASSUME NEW k \in included' \ included PROVE k.seq = acctSeq
        BY CloseAdds
    <3>3. CASE i \in included /\ j \in included
        BY <2>2, <3>3 DEF Core, SlotsTakenOnce
    <3>4. CASE i \notin included /\ j \notin included
        BY <3>4, CloseAdds
    <3> QED
        BY <1>2, <2>2, <3>1, <3>2, <3>3, <3>4
  <2> QED
      BY <2>1, <2>2 DEF SlotsTakenOnce
<1>4. FreshUnknown'
    BY CloseAdds, <1>1 DEF Core, FreshUnknown, At
<1>5. RowsDescribe'
  <2>1. ASSUME NEW r \in pending, NEW i \in included', i.content = r.wd
        PROVE  i.seq = r.seq /\ i.at <= r.lls
    <3>1. CASE i \in included
        BY <2>1, <3>1 DEF Core, RowsDescribe
    <3>2. CASE i \notin included
      <4>1. r.wd \in Withdrawals
          BY DEF TypeOK, EnclaveTypeOK, Payment
      <4>2. PICK t \in mempool : t.wd = r.wd /\ t.seq = acctSeq /\ ledger + 1 <= t.lls
          BY CloseAdds, <2>1, <3>2, <4>1
      <4>3. t = r
          BY <4>2 DEF Core, RowsDescribe
      <4> QED
          BY CloseAdds, <3>2, <4>2, <4>3
    <3> QED
        BY <3>1, <3>2
  <2> QED
      BY CloseAdds, <1>1, <2>1 DEF Core, RowsDescribe, At, Tx
<1>6. RestoredDead'
  <2>1. ASSUME NEW t, t.seq \in Nat, t.lls \in Nat, Dead(t) PROVE Dead(t)'
      BY <1>1, <1>2, <2>1, CloseAdds DEF Dead
  <2>2. ASSUME NEW t \in mempool PROVE t.seq \in Nat /\ t.lls \in Nat
      BY DEF TypeOK, XrplTypeOK, Payment
  <2>3. ASSUME NEW w \in Withdrawals PROVE Tx(w).seq \in Nat /\ Tx(w).lls \in Nat
      BY DEF TypeOK, HandlerTypeOK, Tx
  <2>4. restored \subseteq Withdrawals
      BY DEF TypeOK, EnclaveTypeOK
  <2>5. ASSUME NEW w \in restored, NEW t \in mempool', t.wd = w PROVE Dead(t)'
      BY CloseAdds, <2>1, <2>2, <2>5 DEF Core, RestoredDead
  <2>6. ASSUME NEW w \in restored, At(w) \in Signing PROVE Dead(Tx(w))'
    <3>1. Dead(Tx(w))
        BY <2>6 DEF Core, RestoredDead
    <3> QED
        BY <1>1, <1>2, <2>3, <2>4, <3>1, CloseAdds DEF Dead, Tx
  <2> QED
      BY <1>1, <2>5, <2>6 DEF RestoredDead, At
<1>7. RowsBySlot'
    BY <1>1 DEF Core, RowsBySlot
<1>8. SettledAsPaid'
  <2>1. ASSUME NEW w \in restored PROVE ~Paid(w)'
    <3> SUFFICES ASSUME NEW i \in included', i.content = w, i.clean PROVE FALSE
        BY DEF Paid
    <3>1. i \notin included
        BY DEF Core, SettledAsPaid, Paid
    <3>2. w \in Withdrawals
        BY DEF TypeOK, EnclaveTypeOK
    <3>3. PICK t \in mempool : t.wd = w /\ t.seq = acctSeq /\ ledger + 1 <= t.lls
        BY CloseAdds, <3>1, <3>2
    <3>4. Dead(t)
        BY <3>3 DEF Core, RestoredDead
    <3>5. t.lls \in Nat
        BY DEF TypeOK, XrplTypeOK, Payment
    <3> QED
        BY <1>2, <3>3, <3>4, <3>5 DEF Dead
  <2> QED
      BY CloseAdds, <1>1, <2>1 DEF Core, SettledAsPaid, Paid
<1>9. ProofsHold'
  <2>1. ASSUME NEW i \in included', cur.at = "rollback", i.seq >= cur.seq PROVE i.at > cur.idx
    <3>1. CASE i \in included
        BY <2>1, <3>1 DEF ProofsHold
    <3>2. CASE i \notin included
        BY <1>2, <2>1, <3>2, CloseAdds DEF ProofsHold
    <3> QED
        BY <3>1, <3>2
  <2> QED
      BY CloseAdds, <1>1, <1>2, <2>1 DEF ProofsHold
<1> QED
    BY <1>3, <1>4, <1>5, <1>6, <1>7, <1>8, <1>9 DEF Core

\* The settlement does not depend on where the handlers stand, as long as
\* none becomes fresh and none signs what it did not sign before.
LEMMA MoveCore ==
    ASSUME Core, TypeOK, UNCHANGED <<ledger, acctSeq, included, mempool, enclaveVars>>,
           \A v \in Withdrawals : At(v)' \in Fresh => At(v) \in Fresh,
           \A v \in Withdrawals :
               At(v)' \in Signing => At(v) \in Signing /\ Tx(v)' = Tx(v)
    PROVE  Core'
<1> USE DEF Core
<1>1. pending' = pending /\ highWater' = highWater /\ final' = final /\ restored' = restored
    BY DEF enclaveVars
<1>2. \A r \in pending : r.wd \in Withdrawals
    BY DEF TypeOK, EnclaveTypeOK, Payment
<1>3. restored \subseteq Withdrawals
    BY DEF TypeOK, EnclaveTypeOK
<1>4. SlotsTakenOnce' /\ RowsBySlot' /\ SettledAsPaid'
    BY <1>1 DEF SlotsTakenOnce, RowsBySlot, SettledAsPaid, Paid
<1>5. FreshUnknown'
    BY <1>1 DEF FreshUnknown
<1>6. RowsDescribe'
    BY <1>1, <1>2 DEF RowsDescribe
<1>7. RestoredDead'
  <2>1. ASSUME NEW t, Dead(t) PROVE Dead(t)'
      BY <2>1 DEF Dead
  <2>2. ASSUME NEW w \in restored, At(w)' \in Signing PROVE Dead(Tx(w))'
    <3>1. Dead(Tx(w)) /\ Tx(w)' = Tx(w)
        BY <1>3, <2>2 DEF RestoredDead
    <3> QED
        BY <3>1 DEF Dead
  <2> QED
      BY <1>1, <2>1, <2>2 DEF RestoredDead
<1> QED
    BY <1>4, <1>5, <1>6, <1>7

\* A handler that moves on keeps its transaction.
LEMMA GotoKeeps ==
    ASSUME HandlerTypeOK, NEW w \in Withdrawals, NEW label, Goto(w, label)
    PROVE  /\ At(w)' = label /\ Tx(w)' = Tx(w)
           /\ \A v \in Withdrawals \ {w} : At(v)' = At(v) /\ Tx(v)' = Tx(v)
BY DEF HandlerTypeOK, Goto, At, Tx

\* A handler that ends leaves the others alone.
LEMMA DoneKeeps ==
    ASSUME HandlerTypeOK, NEW w \in Withdrawals, Done(w)
    PROVE  /\ At(w)' = "done"
           /\ \A v \in Withdrawals \ {w} : At(v)' = At(v) /\ Tx(v)' = Tx(v)
BY DEF HandlerTypeOK, Done, At, Tx

\* A reservation keeps the settlement: the withdrawal is new to everyone and
\* its slot is new to the enclave.
LEMMA ReserveCore ==
    ASSUME TypeOK, Core, ProofsHold, NEW w \in Withdrawals, At(w) = "built", ReserveRow(w),
           UNCHANGED <<ledger, acctSeq, included, mempool, cur>>,
           Goto(w, "reserved") \/ Done(w)
    PROVE  Core' /\ ProofsHold'
<1> USE DEF Core
<1>1. /\ \A t \in mempool : t.wd # w
      /\ \A i \in included : i.content # w
      /\ \A r \in pending : r.wd # w
      /\ w \notin restored
    BY DEF FreshUnknown, Fresh
<1>2. /\ At(w)' \notin Fresh
      /\ At(w)' \in Signing => Tx(w)' = Tx(w)
      /\ \A v \in Withdrawals \ {w} : At(v)' = At(v) /\ Tx(v)' = Tx(v)
    BY GotoKeeps, DoneKeeps DEF TypeOK, Fresh, Signing
<1>3. /\ pending' = pending \cup {Tx(w)} /\ final' = final /\ restored' = restored
      /\ Tx(w).wd = w /\ Tx(w).seq > highWater /\ highWater' = Tx(w).seq
    BY DEF ReserveRow, Tx
<1>4. \A r \in pending : r.wd \in Withdrawals /\ r.seq \in Nat
    BY DEF TypeOK, EnclaveTypeOK, Payment
<1>5. restored \subseteq Withdrawals
    BY DEF TypeOK, EnclaveTypeOK
<1>6. SlotsTakenOnce' /\ SettledAsPaid'
    BY <1>3 DEF SlotsTakenOnce, SettledAsPaid, Paid
<1>7. FreshUnknown'
    BY <1>2, <1>3 DEF FreshUnknown
<1>8. RowsDescribe'
  <2>1. ASSUME NEW r \in pending' PROVE
            /\ \A t \in mempool : t.wd = r.wd => t = r
            /\ \A i \in included : i.content = r.wd => i.seq = r.seq /\ i.at <= r.lls
            /\ At(r.wd)' \in Signing => Tx(r.wd)' = r
    <3>1. CASE r \in pending
        BY <1>1, <1>2, <1>4, <3>1 DEF RowsDescribe
    <3>2. CASE r = Tx(w)
        BY <1>1, <1>2, <1>3, <3>2
    <3> QED
        BY <1>3, <3>1, <3>2
  <2> QED
      BY <2>1 DEF RowsDescribe
<1>9. RestoredDead'
  <2>1. ASSUME NEW t, Dead(t) PROVE Dead(t)'
      BY <2>1 DEF Dead
  <2>2. ASSUME NEW v \in restored, At(v)' \in Signing PROVE Dead(Tx(v))'
    <3>1. Dead(Tx(v)) /\ Tx(v)' = Tx(v)
        BY <1>1, <1>2, <1>5, <2>2 DEF RestoredDead
    <3> QED
        BY <3>1 DEF Dead
  <2> QED
      BY <1>3, <2>1, <2>2 DEF RestoredDead
<1>10. RowsBySlot'
  <2>1. highWater \in Nat /\ Tx(w).seq \in Nat
      BY DEF TypeOK, EnclaveTypeOK, HandlerTypeOK, Tx
  <2> QED
      BY <1>3, <1>4, <2>1 DEF RowsBySlot
<1>11. ProofsHold'
    BY <1>1, <1>3 DEF ProofsHold
<1> QED
    BY <1>6, <1>7, <1>8, <1>9, <1>10, <1>11

\* A submission keeps the settlement: what is submitted is what the row
\* describes, and is dead if the row was rolled back.
LEMMA SubmitCore ==
    ASSUME TypeOK, Core, NEW w \in Withdrawals, At(w) = "submit",
           mempool' = mempool \cup {Tx(w)}, Goto(w, "submitted") \/ Done(w),
           UNCHANGED <<ledger, acctSeq, included, enclaveVars>>
    PROVE  Core'
<1> USE DEF Core
<1>1. /\ At(w) \in Signing /\ At(w)' \notin Fresh
      /\ \A v \in Withdrawals : At(v)' \in Fresh => At(v) \in Fresh /\ v # w
      /\ \A v \in Withdrawals :
            At(v)' \in Signing => At(v) \in Signing /\ Tx(v)' = Tx(v)
    BY GotoKeeps, DoneKeeps DEF TypeOK, Fresh, Signing
<1>2. pending' = pending /\ highWater' = highWater /\ final' = final /\ restored' = restored
    BY DEF enclaveVars
<1>3. Tx(w).wd = w
    BY DEF Tx
<1>4. \A r \in pending : r.wd \in Withdrawals
    BY DEF TypeOK, EnclaveTypeOK, Payment
<1>5. restored \subseteq Withdrawals
    BY DEF TypeOK, EnclaveTypeOK
<1>6. SlotsTakenOnce' /\ RowsBySlot' /\ SettledAsPaid'
    BY <1>2 DEF SlotsTakenOnce, RowsBySlot, SettledAsPaid, Paid
<1>7. FreshUnknown'
    BY <1>1, <1>2, <1>3 DEF FreshUnknown
<1>8. RowsDescribe'
    BY <1>1, <1>2, <1>3, <1>4 DEF RowsDescribe
<1>9. RestoredDead'
  <2>1. ASSUME NEW t, Dead(t) PROVE Dead(t)'
      BY <2>1 DEF Dead
  <2>2. ASSUME NEW v \in restored, At(v)' \in Signing PROVE Dead(Tx(v))'
    <3>1. Dead(Tx(v)) /\ Tx(v)' = Tx(v)
        BY <1>1, <1>5, <2>2 DEF RestoredDead
    <3> QED
        BY <3>1 DEF Dead
  <2>3. ASSUME NEW v \in restored, NEW t \in mempool', t.wd = v PROVE Dead(t)'
      BY <1>1, <1>3, <2>1, <2>3 DEF RestoredDead
  <2> QED
      BY <1>2, <2>2, <2>3 DEF RestoredDead
<1> QED
    BY <1>6, <1>7, <1>8, <1>9

\* The steps of a handler keep the settlement.
LEMMA HandleCore ==
    ASSUME TypeOK, Core, ProofsHold, NEW w \in Withdrawals, Handle(w)
    PROVE  Core' /\ ProofsHold'
<1>0. HandlerTypeOK
    BY DEF TypeOK
<1>1. ASSUME UNCHANGED <<xrplVars, enclaveVars, sweepVars>>,
             At(w)' \in Fresh => At(w) \in Fresh,
             At(w)' \in Signing => At(w) \in Signing /\ Tx(w)' = Tx(w),
             \A v \in Withdrawals \ {w} : At(v)' = At(v) /\ Tx(v)' = Tx(v)
      PROVE  Core' /\ ProofsHold'
  <2>1. Core'
      BY <1>1, MoveCore DEF xrplVars
  <2>2. ProofsHold'
      BY <1>1 DEF xrplVars, enclaveVars, sweepVars, ProofsHold
  <2> QED
      BY <2>1, <2>2
<1>2. CASE ReadSequence(w)
  <2>1. PICK s : local' = [local EXCEPT ![w].at = "ledger", ![w].seq = s]
      BY <1>2 DEF ReadSequence
  <2>2. At(w)' = "ledger"
      BY <1>0, <2>1 DEF HandlerTypeOK, At
  <2>3. ASSUME NEW v \in Withdrawals \ {w} PROVE At(v)' = At(v) /\ Tx(v)' = Tx(v)
      BY <1>0, <2>1 DEF HandlerTypeOK, At, Tx
  <2>4. At(w) \in Fresh /\ At(w)' \notin Signing
      BY <1>2, <2>2 DEF ReadSequence, Fresh, Signing
  <2> QED
      BY <1>1, <1>2, <2>3, <2>4 DEF ReadSequence
<1>3. CASE ReadLedger(w)
  <2>1. local' = [local EXCEPT ![w].at = "built", ![w].lls = ledger + Window]
      BY <1>3 DEF ReadLedger
  <2>2. At(w)' = "built"
      BY <1>0, <2>1 DEF HandlerTypeOK, At
  <2>3. ASSUME NEW v \in Withdrawals \ {w} PROVE At(v)' = At(v) /\ Tx(v)' = Tx(v)
      BY <1>0, <2>1 DEF HandlerTypeOK, At, Tx
  <2>4. At(w) \in Fresh /\ At(w)' \notin Signing
      BY <1>3, <2>2 DEF ReadLedger, Fresh, Signing
  <2> QED
      BY <1>1, <1>3, <2>3, <2>4 DEF ReadLedger
<1>4. CASE Reserve(w) \/ ReserveReplyLost(w)
    BY <1>4, ReserveCore DEF Reserve, ReserveReplyLost, xrplVars, sweepVars
<1>5. CASE ReserveRefused(w)
    BY <1>0, <1>1, <1>5, DoneKeeps DEF ReserveRefused, Fresh, Signing
<1>6. CASE RecordReserved(w)
    BY <1>0, <1>1, <1>6, GotoKeeps DEF RecordReserved, Fresh, Signing
<1>7. CASE CollectSignatures(w)
    BY <1>0, <1>1, <1>7, GotoKeeps, DoneKeeps DEF CollectSignatures, Fresh, Signing
<1>8. CASE SubmitMultisigned(w)
  <2>1. CASE mempool' = mempool \cup {FullTx(w)}
    <3>1. Core'
        BY <1>8, <2>1, SubmitCore DEF SubmitMultisigned, FullTx
    <3>2. ProofsHold'
        BY <1>8 DEF SubmitMultisigned, enclaveVars, sweepVars, ProofsHold
    <3> QED
        BY <3>1, <3>2
  <2>2. CASE UNCHANGED mempool /\ Done(w)
      BY <1>0, <1>1, <1>8, <2>2, DoneKeeps DEF SubmitMultisigned, xrplVars, Fresh, Signing
  <2> QED
      BY <1>8, <2>1, <2>2 DEF SubmitMultisigned
<1>9. CASE RecordSubmitted(w)
    BY <1>0, <1>1, <1>9, DoneKeeps DEF RecordSubmitted, Fresh, Signing
<1> QED
    BY <1>2, <1>3, <1>4, <1>5, <1>6, <1>7, <1>8, <1>9 DEF Handle

\* A row that leaves the enclave keeps the settlement, if it is finalized
\* when paid and rolled back only when unpaid and dead.
LEMMA SettleCore ==
    ASSUME TypeOK, Core, NEW r \in pending, pending' = pending \ {r},
           UNCHANGED <<xrplVars, local, highWater>>,
           \/ final' = final \cup {r.wd} /\ restored' = restored /\ Paid(r.wd)
           \/ /\ restored' = restored \cup {r.wd} /\ final' = final
              /\ ~Paid(r.wd) /\ Dead(r)
    PROVE  Core'
<1> USE DEF Core
<1>1. r.wd \in Withdrawals
    BY DEF TypeOK, EnclaveTypeOK, Payment
<1>2. UNCHANGED <<ledger, acctSeq, mempool, included, local>>
    BY DEF xrplVars
<1>3. SlotsTakenOnce' /\ RowsBySlot' /\ RowsDescribe'
    BY <1>2 DEF SlotsTakenOnce, RowsBySlot, RowsDescribe, At, Tx
<1>4. FreshUnknown'
    BY <1>2 DEF FreshUnknown, At
<1>5. RestoredDead'
  <2>1. ASSUME NEW t, Dead(t) PROVE Dead(t)'
      BY <1>2, <2>1 DEF Dead
  <2>2. ASSUME Dead(r), NEW t \in mempool, t.wd = r.wd PROVE Dead(t)
      BY <2>2 DEF RowsDescribe
  <2>3. ASSUME Dead(r), At(r.wd) \in Signing PROVE Dead(Tx(r.wd))
      BY <2>3 DEF RowsDescribe
  <2>4. ASSUME NEW w \in restored' PROVE
            /\ \A t \in mempool : t.wd = w => Dead(t)
            /\ At(w) \in Signing => Dead(Tx(w))
      BY <2>2, <2>3 DEF RestoredDead
  <2>5. ASSUME NEW w, Dead(Tx(w)) PROVE Dead(Tx(w))'
      BY <1>2, <2>5 DEF Dead, Tx
  <2> QED
      BY <1>2, <2>1, <2>4, <2>5 DEF RestoredDead, At
<1>6. SettledAsPaid'
    BY <1>2 DEF SettledAsPaid, Paid
<1> QED
    BY <1>3, <1>4, <1>5, <1>6

\* The steps of the sweep keep the settlement.
LEMMA SweepCore == TypeOK /\ Core /\ ProofsHold /\ Sweep => Core' /\ ProofsHold'
<1> SUFFICES ASSUME TypeOK, Core, ProofsHold, Sweep PROVE Core' /\ ProofsHold'
    OBVIOUS
<1>0. UNCHANGED <<xrplVars, local>>
    BY DEF Sweep, StartSweep, ReadEscrow, Decide, BuildInclusionProof, Finalize,
           RollBackStolen, BuildStateProof, RollBackExpired, Resolve, Defer
<1>1. ASSUME UNCHANGED enclaveVars PROVE Core'
    BY <1>0, <1>1, MoveCore DEF xrplVars, At, Tx
<1>2. ASSUME NEW outcome, Conclude(outcome) PROVE ProofsHold'
  <2>1. cur'.at = "idle"
      BY <1>2 DEF Conclude, NoVisit, Visit
  <2> QED
      BY <2>1 DEF ProofsHold
<1>3. ASSUME NEW at, NEW e, NEW n, NEW idx, at \notin {"stolen", "rollback"},
             cur' = Visit(at, e, n, idx)
      PROVE  ProofsHold'
  <2>1. cur'.at = at
      BY <1>3 DEF Visit
  <2> QED
      BY <1>3, <2>1 DEF ProofsHold
<1>4. \A r \in pending : r.wd \in Withdrawals /\ r.seq \in Nat /\ r.lls \in Nat
    BY DEF TypeOK, EnclaveTypeOK, Payment
<1>5. \A i \in included : i.seq \in Nat /\ i.at \in Nat
    BY DEF TypeOK, XrplTypeOK, Inclusion
<1>6. ledger \in Nat /\ acctSeq \in Nat /\ cur.idx \in Nat /\ cur.seq \in Nat
    BY WithdrawalAssumption DEF TypeOK, XrplTypeOK, SweepTypeOK
<1>7. CASE StartSweep
    BY <1>0, <1>1, <1>7 DEF StartSweep, enclaveVars, xrplVars, ProofsHold
<1>8. ASSUME NEW e \in queue, ReadEscrow(e) PROVE Core' /\ ProofsHold'
    BY <1>1, <1>3, <1>8 DEF ReadEscrow
<1>9. CASE Decide
    BY <1>1, <1>2, <1>3, <1>9 DEF Decide
<1>10. CASE BuildInclusionProof
    BY <1>1, <1>2, <1>3, <1>10 DEF BuildInclusionProof
<1>11. CASE Finalize
  <2>1. CASE Reply("Finalized") /\ UNCHANGED enclaveVars
      BY <1>1, <1>3, <2>1 DEF Reply
  <2>2. ASSUME NEW r \in pending, NEW i \in Landed(cur.seq), Matches(i, r),
               pending' = pending \ {r}, final' = final \cup {r.wd},
               Reply("Finalized"), UNCHANGED <<highWater, restored>>
        PROVE  Core' /\ ProofsHold'
    <3>1. Paid(r.wd)
        BY <2>2 DEF Landed, Matches, Paid
    <3> QED
        BY <1>0, <1>3, <2>2, <3>1, SettleCore DEF Reply
  <2>3. ASSUME NEW r \in pending, r.seq = cur.seq, NEW i \in Landed(cur.seq), Stolen(i, r),
               cur' = Visit("stolen", cur.e, cur.seq, 0), UNCHANGED enclaveVars
        PROVE  Core' /\ ProofsHold'
    <3>1. cur'.at = "stolen" /\ cur'.seq = cur.seq
        BY <2>3 DEF Visit
    <3>2. i \in included' /\ i.seq = cur.seq /\ i.content # r.wd
        BY <1>0, <2>3 DEF Landed, Stolen, xrplVars
    <3>3. \A q \in pending' : q.seq = cur.seq => q = r
        BY <2>3 DEF Core, RowsBySlot, enclaveVars
    <3>4. ProofsHold'
        BY <3>1, <3>2, <3>3 DEF ProofsHold
    <3> QED
        BY <1>1, <2>3, <3>4
  <2>4. CASE Conclude("Anomaly") /\ UNCHANGED enclaveVars
      BY <1>1, <1>2, <2>4
  <2> QED
      BY <1>11, <2>1, <2>2, <2>3, <2>4 DEF Finalize
<1>12. CASE RollBackStolen
  <2>1. PICK r \in pending : r.seq = cur.seq /\ RollBack(r)
      BY <1>12 DEF RollBackStolen
  <2>2. PICK i \in included : i.seq = cur.seq /\ i.content # r.wd
      BY <1>12, <2>1 DEF RollBackStolen, ProofsHold
  <2>3. Dead(r)
      BY <2>1, <2>2 DEF Core, SlotsTakenOnce, Dead
  <2>4. ~Paid(r.wd)
      BY <2>1, <2>2 DEF Core, SlotsTakenOnce, RowsDescribe, Paid
  <2> QED
      BY <1>0, <1>3, <1>12, <2>1, <2>3, <2>4, SettleCore DEF RollBackStolen, RollBack, Reply
<1>13. CASE BuildStateProof
  <2>1. cur'.at = "rollback" /\ cur'.seq = acctSeq /\ cur'.idx = ledger
      BY <1>13 DEF BuildStateProof, Visit
  <2>2. ledger' = ledger /\ included' = included
      BY <1>0 DEF xrplVars
  <2>3. ProofsHold'
      BY <1>5, <1>6, <2>1, <2>2 DEF ProofsHold, Core, SlotsTakenOnce
  <2> QED
      BY <1>1, <1>13, <2>3 DEF BuildStateProof
<1>14. CASE RollBackExpired
  <2>1. CASE Conclude("Anomaly") /\ UNCHANGED enclaveVars
      BY <1>1, <1>2, <2>1
  <2>2. ASSUME NEW r \in pending, r.seq = cur.seq, cur.idx > r.lls, RollBack(r),
               Reply("RolledBackExpired")
        PROVE  Core' /\ ProofsHold'
    <3>1. cur.idx <= ledger /\ \A i \in included : i.seq >= cur.seq => i.at > cur.idx
        BY <1>14 DEF RollBackExpired, ProofsHold
    <3>2. Dead(r)
        BY <1>4, <1>6, <2>2, <3>1 DEF Dead
    <3>3. ~Paid(r.wd)
      <4> SUFFICES ASSUME NEW i \in included, i.content = r.wd PROVE FALSE
          BY DEF Paid
      <4>1. i.seq = r.seq /\ i.at <= r.lls
          BY DEF Core, RowsDescribe
      <4> QED
          BY <1>4, <1>5, <1>6, <2>2, <3>1, <4>1
    <3> QED
        BY <1>0, <1>3, <2>2, <3>2, <3>3, SettleCore DEF RollBack, Reply
  <2> QED
      BY <1>14, <2>1, <2>2 DEF RollBackExpired
<1>15. CASE Resolve
    BY <1>1, <1>2, <1>15 DEF Resolve
<1>16. CASE Defer
    BY <1>1, <1>2, <1>16 DEF Defer
<1> QED
    BY <1>7, <1>8, <1>9, <1>10, <1>11, <1>12, <1>13, <1>14, <1>15, <1>16 DEF Sweep

\* A restart keeps the settlement.
LEMMA CrashCore == TypeOK /\ Core /\ ProofsHold /\ Crash => Core' /\ ProofsHold'
<1> SUFFICES ASSUME TypeOK, Core, ProofsHold, Crash PROVE Core' /\ ProofsHold'
    OBVIOUS
<1>1. ASSUME NEW v \in Withdrawals
      PROVE  (At(v)' \in Fresh => At(v) \in Fresh) /\ At(v)' \notin Signing
    BY DEF Crash, At, Fresh, Signing
<1>2. Core'
    BY <1>1, MoveCore DEF Crash, xrplVars
<1>3. cur'.at = "idle"
    BY DEF Crash, NoVisit, Visit
<1> QED
    BY <1>2, <1>3 DEF ProofsHold

\* Every step keeps the invariant.
LEMMA WInvStep == WInv /\ [WithdrawalNext]_vars => WInv'
<1>1. WInv /\ UNCHANGED vars => Core' /\ ProofsHold'
    BY DEF WInv, Core, SlotsTakenOnce, FreshUnknown, RowsDescribe, RestoredDead, RowsBySlot,
           SettledAsPaid, Paid, ProofsHold, Dead, At, Tx, vars, xrplVars, enclaveVars, sweepVars
<1>2. WInv /\ WithdrawalNext => Core' /\ ProofsHold'
    BY CloseCore, HandleCore, SweepCore, CrashCore DEF WInv, WithdrawalNext
<1> QED
    BY <1>1, <1>2, NextTypes DEF WInv

\* The enclave's settlement always agrees with the ledger, however handlers,
\* sweep, ledger and restarts interleave: a finalized withdrawal was paid and
\* the margin of a rolled-back one was given back for a Payment that never
\* lands (reconcile_one in withdrawal_reconcile.rs).
THEOREM WithdrawalSettles == WithdrawalSpec => []SettledAsPaid
<1>1. WithdrawalInit => Core /\ ProofsHold
    BY DEF WithdrawalInit, Core, SlotsTakenOnce, FreshUnknown, RowsDescribe, RestoredDead,
           RowsBySlot, SettledAsPaid, ProofsHold, NoVisit, Visit
<1>2. WithdrawalInit => WInv
    BY <1>1, InitTypes DEF WInv
<1>3. WInv => SettledAsPaid
    BY DEF WInv, Core
<1> QED
    BY <1>2, <1>3, WInvStep, PTL DEF WithdrawalSpec
=============================================================================
