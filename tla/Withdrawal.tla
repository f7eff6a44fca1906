---------------------------- MODULE Withdrawal ----------------------------
(***************************************************************************)
(* Withdrawals of one operator: the HTTP handlers that reserve, journal,   *)
(* multisign and submit a Payment (withdrawal.rs), and the background      *)
(* sweep that settles every journaled reservation against the validated    *)
(* ledger (withdrawal_reconcile.rs).                                       *)
(*                                                                         *)
(* Both give way at every await, and those are the steps.  The enclave     *)
(* and the XRP Ledger are external.  The enclave holds a row per reserved  *)
(* withdrawal and a high-water over the Sequence slots it signed; it       *)
(* settles a row only against a proof, which here is what the proof        *)
(* states.  The ledger closes with at most one escrow transaction at a     *)
(* time.  A withdrawal stands for its content (destination and amount).    *)
(*                                                                         *)
(* Rare events are `faults', at most MaxFaults in a behaviour:             *)
(*   crash     the process dies and restarts                               *)
(*   sequence  the Sequence cannot be read and defaults to 1               *)
(*   reply     the enclave's answer to the reservation is lost             *)
(*   failed    the Payment takes its slot but fails (a tec result)         *)
(*   slot      another transaction of the escrow takes the next slot       *)
(*   incoming  a deposit carries, on its sender's side, the same Sequence  *)
(***************************************************************************)
EXTENDS Integers, FiniteSets

CONSTANTS
    Withdrawals,   \* withdrawal requests
    FirstSequence, \* the escrow's account Sequence at the start
    Window,        \* WITHDRAWAL_LAST_LEDGER_WINDOW (40)
    BufferLedgers, \* VALIDATION_BUFFER_LEDGERS (256)
    FaultKinds,    \* the faults that may happen
    MaxFaults,     \* how many kinds, each once (exploration bound)
    MaxLedger,     \* bound on the ledger index (exploration bound)
    MaxDefers,     \* bound on transient failures of a sweep (exploration bound)
    Foreign,       \* the content of another Payment of the escrow
    NotPayment,    \* the content of any other transaction
    NoEntry        \* the sweep holds no entry

ASSUME WithdrawalAssumption ==
    /\ FirstSequence \in Nat /\ FirstSequence > 1
    /\ Window \in Nat /\ BufferLedgers \in Nat \ {0}
    /\ FaultKinds \subseteq {"crash", "sequence", "reply", "failed", "slot", "incoming"}
    /\ MaxLedger \in Nat /\ MaxDefers \in Nat /\ MaxFaults \in Nat
    /\ Foreign \notin Withdrawals /\ NotPayment \notin Withdrawals
    /\ Foreign # NotPayment

Contents == Withdrawals \cup {Foreign, NotPayment}
Payment == [wd : Withdrawals, seq : Nat \ {0}, lls : Nat]
PendingWithdrawal == [wd : Withdrawals, seq : Nat \ {0}, lls : Nat, hash : BOOLEAN]
Incoming == [seq : Nat, at : Nat]
Inclusion == [content : Contents, seq : Nat, at : Nat, clean : BOOLEAN]

VARIABLES
    ledger,     \* the validated ledger index
    acctSeq,    \* the escrow's validated account Sequence
    mempool,    \* submitted Payments
    included,   \* validated transactions of the escrow
    incoming,   \* validated transactions of others that name the escrow
    pending,    \* the enclave's reserved rows
    highWater,  \* the enclave's high-water over Sequence slots
    final, restored,   \* withdrawals the enclave finalized, rolled back
    local,      \* each request's handler
    journal,    \* the durable journal
    buffered,   \* ledgers whose validations the process holds
    queue,      \* entries the running sweep has still to visit
    cur,        \* the entry it is at, where, and what it has read
    faults, defers

xrplVars == <<ledger, acctSeq, mempool, included, incoming>>
enclaveVars == <<pending, highWater, final, restored>>
sweepVars == <<queue, cur>>
vars == <<xrplVars, enclaveVars, local, journal, buffered, sweepVars, faults, defers>>

Fault(kind) ==
    /\ kind \in FaultKinds \ faults /\ Cardinality(faults) < MaxFaults
    /\ faults' = faults \cup {kind}

----------------------------------------------------------------------------
(* The XRP Ledger. *)

\* The collector keeps the validations of the last BufferLedgers ledgers.
Close ==
    /\ ledger < MaxLedger
    /\ ledger' = ledger + 1
    /\ buffered' = {l \in buffered \cup {ledger + 1} : l + BufferLedgers > ledger + 1}
    /\ UNCHANGED <<enclaveVars, local, journal, sweepVars, defers>>

Takes(content, clean) ==
    /\ included' = included \cup
         {[content |-> content, seq |-> acctSeq, at |-> ledger + 1, clean |-> clean]}
    /\ acctSeq' = acctSeq + 1

CloseEmpty == Close /\ UNCHANGED <<acctSeq, mempool, included, incoming, faults>>

\* A Payment is applied in its slot, and not after its LastLedgerSequence.
ClosePayment(t) ==
    /\ Close
    /\ t.seq = acctSeq /\ ledger + 1 <= t.lls
    /\ mempool' = mempool \ {t}
    /\ \/ Takes(t.wd, TRUE) /\ UNCHANGED faults
       \/ Takes(t.wd, FALSE) /\ Fault("failed")
    /\ UNCHANGED incoming

CloseOther(content) ==
    /\ Close /\ Fault("slot")
    /\ Takes(content, TRUE)
    /\ UNCHANGED <<mempool, incoming>>

\* Only a journaled slot's number is ever looked up.
CloseIncoming(s) ==
    /\ Close /\ Fault("incoming")
    /\ incoming' = incoming \cup {[seq |-> s, at |-> ledger + 1]}
    /\ UNCHANGED <<acctSeq, mempool, included>>

CloseLedger ==
    \/ CloseEmpty
    \/ \E t \in mempool : ClosePayment(t)
    \/ \E c \in {Foreign, NotPayment} : CloseOther(c)
    \/ \E e \in journal : CloseIncoming(e.seq)

----------------------------------------------------------------------------
(* process_withdrawal. *)

At(w) == local[w].at
Goto(w, label) == local' = [local EXCEPT ![w].at = label]
Done(w) == local' = [local EXCEPT ![w] = [at |-> "done", seq |-> 0, lls |-> 0]]

\* account_info names no ledger: the answer is the validated Sequence or one
\* that counts the Payments already in the open ledger.
Readable(s) ==
    s >= acctSeq /\ \A k \in acctSeq .. s - 1 : \E t \in mempool : t.seq = k

ReadSequence(w) ==
    /\ At(w) = "idle" /\ ledger + Window < MaxLedger
    /\ \/ /\ \E s \in acctSeq .. acctSeq + Cardinality(mempool) :
               Readable(s) /\ local' = [local EXCEPT ![w].at = "ledger", ![w].seq = s]
          /\ UNCHANGED faults
       \/ /\ Fault("sequence")
          /\ local' = [local EXCEPT ![w].at = "ledger", ![w].seq = 1]
    /\ UNCHANGED <<xrplVars, enclaveVars, journal, buffered, sweepVars, defers>>

\* Without the validated ledger the request is refused, which changes nothing.
ReadLedger(w) ==
    /\ At(w) = "ledger" /\ ledger + Window < MaxLedger
    /\ local' = [local EXCEPT ![w].at = "built", ![w].lls = ledger + Window]
    /\ UNCHANGED <<xrplVars, enclaveVars, journal, buffered, sweepVars, faults, defers>>

Tx(w) == [wd |-> w, seq |-> local[w].seq, lls |-> local[w].lls]

\* The enclave debits the margin into a row and moves its high-water.
ReserveRow(w) ==
    /\ local[w].seq > highWater
    /\ pending' = pending \cup {Tx(w)}
    /\ highWater' = local[w].seq
    /\ UNCHANGED <<final, restored>>

Reserve(w) ==
    /\ At(w) = "built"
    /\ ReserveRow(w)
    /\ Goto(w, "reserved")
    /\ UNCHANGED <<xrplVars, journal, buffered, sweepVars, faults, defers>>

\* Not enough margin, or a slot not above the high-water.
ReserveRefused(w) ==
    /\ At(w) = "built"
    /\ Done(w)
    /\ UNCHANGED <<xrplVars, enclaveVars, journal, buffered, sweepVars, faults, defers>>

\* The error return journals nothing, although the row may exist.
ReserveReplyLost(w) ==
    /\ At(w) = "built" /\ Fault("reply")
    /\ ReserveRow(w)
    /\ Done(w)
    /\ UNCHANGED <<xrplVars, journal, buffered, sweepVars, defers>>

Entry(w, hash) ==
    [wd |-> w, seq |-> local[w].seq, lls |-> local[w].lls, hash |-> hash]

\* Mutant: the entry of the same slot is not replaced.
UpsertAppends(e) == journal \cup {e}

Upsert(e) == {x \in journal : x.seq # e.seq} \cup {e}

RecordReserved(w) ==
    /\ At(w) = "reserved"
    /\ journal' = Upsert(Entry(w, FALSE))
    /\ Goto(w, "signing")
    /\ UNCHANGED <<xrplVars, enclaveVars, buffered, sweepVars, faults, defers>>

\* The co-signers answer, or too few do and the request ends.
CollectSignatures(w) ==
    /\ At(w) = "signing"
    /\ Goto(w, "submit") \/ Done(w)
    /\ UNCHANGED <<xrplVars, enclaveVars, journal, buffered, sweepVars, faults, defers>>

\* Mutant: the window is filled in again when the Payment is submitted.
FullTxRefreshed(w) == [Tx(w) EXCEPT !.lls = ledger + Window]

\* The submitted transaction is the reserved one with the signatures added.
FullTx(w) == Tx(w)

\* The Payment reaches the network or not, and the handler hears or not:
\* "submitted" has the hash, "done" reports a failed submission.
SubmitMultisigned(w) ==
    /\ At(w) = "submit"
    /\ \/ mempool' = mempool \cup {FullTx(w)} /\ (Goto(w, "submitted") \/ Done(w))
       \/ UNCHANGED mempool /\ Done(w)
    /\ UNCHANGED <<ledger, acctSeq, included, incoming, enclaveVars, journal, buffered,
                   sweepVars, faults, defers>>

RecordSubmitted(w) ==
    /\ At(w) = "submitted"
    /\ journal' = Upsert(Entry(w, TRUE))
    /\ Done(w)
    /\ UNCHANGED <<xrplVars, enclaveVars, buffered, sweepVars, faults, defers>>

Handle(w) ==
    \/ ReadSequence(w) \/ ReadLedger(w)
    \/ Reserve(w) \/ ReserveRefused(w) \/ ReserveReplyLost(w)
    \/ RecordReserved(w) \/ CollectSignatures(w)
    \/ SubmitMultisigned(w) \/ RecordSubmitted(w)

----------------------------------------------------------------------------
(* reconcile_sweep. *)

Visit(at, e, s, idx) == [at |-> at, e |-> e, seq |-> s, idx |-> idx]
NoVisit == Visit("idle", NoEntry, 0, 0)

StartSweep ==
    /\ cur.at = "idle" /\ queue = {} /\ journal # {}
    /\ queue' = journal
    /\ UNCHANGED <<xrplVars, enclaveVars, local, journal, buffered, cur, faults, defers>>

IsTerminal(outcome) == outcome \in {"Finalized", "RolledBackStolen", "RolledBackExpired"}

\* The visit ends; a terminal outcome drops whatever entry holds the slot.
Conclude(outcome) ==
    /\ journal' = IF IsTerminal(outcome) THEN {x \in journal : x.seq # cur.e.seq}
                                         ELSE journal
    /\ queue' = queue \ {cur.e}
    /\ cur' = NoVisit

\* Mutant: an unconsumed slot is always waited for.
ClassifyNeverExpired(s, idx, e) ==
    IF s > e.seq THEN "SlotConsumed" ELSE IF s < e.seq THEN "Anomaly" ELSE "StillPending"

Classify(s, idx, e) ==
    IF s > e.seq THEN "SlotConsumed"
    ELSE IF s < e.seq THEN "Anomaly"
    ELSE IF idx > e.lls THEN "Expired" ELSE "StillPending"

\* reconcile_one reads the Sequence first ...
ReadEscrow(e) ==
    /\ cur.at = "idle"
    /\ cur' = Visit("sequence", e, acctSeq, 0)
    /\ UNCHANGED <<xrplVars, enclaveVars, local, journal, buffered, queue, faults, defers>>

\* ... and the ledger index after it; the two may belong to different ledgers.
Decide ==
    /\ cur.at = "sequence"
    /\ LET verdict == Classify(cur.seq, ledger, cur.e)
       IN  IF verdict \in {"SlotConsumed", "Expired"}
           THEN /\ cur' = Visit(verdict, cur.e, 0, 0)
                /\ UNCHANGED <<journal, queue>>
           ELSE Conclude(verdict)
    /\ UNCHANGED <<xrplVars, enclaveVars, local, buffered, faults, defers>>

Landed(s) == {i \in included : i.seq = s}

\* find_validated_tx_at_sequence takes the newest transaction of account_tx
\* with the Sequence, whoever sent it.
Newest(i, s) == \A n \in incoming : n.seq = s => n.at <= i.at

\* The transaction found, with the validations of its ledger.  A transaction
\* of another account proves nothing of the slot and is refused.
BuildInclusionProof ==
    /\ cur.at = "SlotConsumed"
    /\ \/ /\ \E i \in Landed(cur.e.seq) : Newest(i, cur.e.seq) /\ i.at \in buffered
          /\ cur' = Visit("finalize", cur.e, cur.e.seq, 0)
          /\ UNCHANGED <<journal, queue>>
       \/ /\ \A i \in Landed(cur.e.seq) : Newest(i, cur.e.seq) => i.at \notin buffered
          /\ \E outcome \in {"Deferred", "Anomaly"} : Conclude(outcome)
    /\ UNCHANGED <<xrplVars, enclaveVars, local, buffered, faults, defers>>

Reply(outcome) == cur' = Visit(outcome, cur.e, 0, 0) /\ UNCHANGED <<journal, queue>>

\* What the enclave makes of a transaction included at a row's slot.
Matches(i, r) == i.content = r.wd /\ i.clean
Stolen(i, r) == i.content \in (Withdrawals \cup {Foreign}) \ {r.wd} /\ i.clean

\* withdraw_finalize.  A row that is gone is answered with success; content
\* of another Payment leads to the slot-stolen rollback; a transaction that
\* is no clean Payment is an anomaly.
Finalize ==
    /\ cur.at = "finalize"
    /\ LET slot == {r \in pending : r.seq = cur.seq} IN
       \/ /\ slot = {}
          /\ Reply("Finalized") /\ UNCHANGED enclaveVars
       \/ \E r \in slot, i \in Landed(cur.seq) :
            \/ /\ Matches(i, r)
               /\ pending' = pending \ {r} /\ final' = final \cup {r.wd}
               /\ Reply("Finalized")
               /\ UNCHANGED <<highWater, restored>>
            \/ /\ Stolen(i, r)
               /\ cur' = Visit("stolen", cur.e, cur.seq, 0)
               /\ UNCHANGED <<journal, queue, enclaveVars>>
            \/ /\ ~Matches(i, r) /\ ~Stolen(i, r)
               /\ Conclude("Anomaly") /\ UNCHANGED enclaveVars
    /\ UNCHANGED <<xrplVars, local, buffered, faults, defers>>

RollBack(r) ==
    /\ pending' = pending \ {r}
    /\ restored' = restored \cup {r.wd}
    /\ UNCHANGED <<highWater, final>>

\* withdraw_rollback_slot_stolen, with the same proof.
RollBackStolen ==
    /\ cur.at = "stolen"
    /\ \E r \in pending : r.seq = cur.seq /\ RollBack(r)
    /\ Reply("RolledBackStolen")
    /\ UNCHANGED <<xrplVars, local, buffered, faults, defers>>

\* The state proof shows the escrow's Sequence at a fresh ledger: not
\* necessarily the Sequence that was classified.
BuildStateProof ==
    /\ cur.at = "Expired"
    /\ cur' = Visit("rollback", cur.e, acctSeq, ledger)
    /\ UNCHANGED <<xrplVars, enclaveVars, local, journal, buffered, queue, faults, defers>>

\* withdraw_rollback_expired: the row whose slot the proof shows unconsumed.
\* Without one the enclave refuses, and the entry stays.
RollBackExpired ==
    /\ cur.at = "rollback"
    /\ LET dead == {r \in pending : r.seq = cur.seq /\ cur.idx > r.lls} IN
       \/ \E r \in dead : RollBack(r) /\ Reply("RolledBackExpired")
       \/ dead = {} /\ Conclude("Anomaly") /\ UNCHANGED enclaveVars
    /\ UNCHANGED <<xrplVars, local, buffered, faults, defers>>

Resolve ==
    /\ IsTerminal(cur.at)
    /\ Conclude(cur.at)
    /\ UNCHANGED <<xrplVars, enclaveVars, local, buffered, faults, defers>>

\* A read, a proof or a call fails for now, the enclave's reply included.
Defer ==
    /\ cur.at # "idle" /\ defers < MaxDefers
    /\ defers' = defers + 1
    /\ Conclude("Deferred")
    /\ UNCHANGED <<xrplVars, enclaveVars, local, buffered, faults>>

Sweep ==
    \/ StartSweep
    \/ \E e \in queue : ReadEscrow(e)
    \/ Decide
    \/ BuildInclusionProof \/ Finalize \/ RollBackStolen
    \/ BuildStateProof \/ RollBackExpired
    \/ Resolve
    \/ Defer

----------------------------------------------------------------------------

\* The process restarts with its journal and an empty validation buffer.
Crash ==
    /\ Fault("crash")
    /\ local' = [w \in Withdrawals |->
                   [at |-> IF At(w) = "idle" THEN "idle" ELSE "done", seq |-> 0, lls |-> 0]]
    /\ queue' = {} /\ cur' = NoVisit
    /\ buffered' = {}
    /\ UNCHANGED <<xrplVars, enclaveVars, journal, defers>>

WithdrawalInit ==
    /\ ledger = 0 /\ acctSeq = FirstSequence
    /\ mempool = {} /\ included = {} /\ incoming = {}
    /\ pending = {} /\ highWater = 0 /\ final = {} /\ restored = {}
    /\ local = [w \in Withdrawals |-> [at |-> "idle", seq |-> 0, lls |-> 0]]
    /\ journal = {} /\ buffered = {}
    /\ queue = {} /\ cur = NoVisit
    /\ faults = {} /\ defers = 0

WithdrawalNext ==
    \/ CloseLedger
    \/ \E w \in Withdrawals : Handle(w)
    \/ Sweep
    \/ Crash

\* Ledgers close and the sweep loop runs for ever; handlers may be stuck on a
\* co-signer for as long as they like.
WithdrawalSpec ==
    WithdrawalInit /\ [][WithdrawalNext]_vars /\ WF_vars(CloseLedger) /\ WF_vars(Sweep)

----------------------------------------------------------------------------
(* Properties. *)

Visits == {"idle", "sequence", "SlotConsumed", "Expired", "finalize", "stolen",
           "rollback", "Finalized", "RolledBackStolen", "RolledBackExpired"}
Labels == {"idle", "ledger", "built", "reserved", "signing", "submit", "submitted", "done"}

XrplTypeOK ==
    /\ ledger \in 0 .. MaxLedger /\ acctSeq \in Nat \ {0}
    /\ mempool \subseteq Payment /\ included \subseteq Inclusion
    /\ incoming \subseteq Incoming

EnclaveTypeOK ==
    /\ pending \subseteq Payment /\ highWater \in Nat
    /\ final \subseteq Withdrawals /\ restored \subseteq Withdrawals

\* A handler that has read its Sequence has one above 0.
HandlerTypeOK ==
    /\ local \in [Withdrawals -> [at : Labels, seq : Nat, lls : Nat]]
    /\ \A w \in Withdrawals : At(w) \notin {"idle", "done"} => local[w].seq > 0

\* The journal holds one entry per slot.
JournalTypeOK ==
    /\ journal \subseteq PendingWithdrawal
    /\ \A x, y \in journal : x.seq = y.seq => x = y

SweepTypeOK ==
    /\ queue \subseteq PendingWithdrawal
    /\ cur \in [at : Visits, e : PendingWithdrawal \cup {NoEntry}, seq : Nat, idx : Nat]
    /\ buffered \subseteq Nat

\* The types of the ledger's, the enclave's and the process's state.
TypeOK ==
    /\ XrplTypeOK /\ EnclaveTypeOK /\ HandlerTypeOK /\ JournalTypeOK /\ SweepTypeOK
    /\ faults \subseteq FaultKinds /\ defers \in 0 .. MaxDefers

Paid(w) == \E i \in included : i.content = w /\ i.clean

\* The enclave's settlement agrees with the ledger for ever: a finalized
\* withdrawal was paid, and one whose margin was given back never is, neither
\* before nor after, whatever proofs a slow or restarted sweep carries.
SettledAsPaid ==
    /\ \A w \in final : Paid(w)
    /\ \A w \in restored : ~Paid(w)

Held(w) == \E r \in pending : r.wd = w
Journaled(w) == \E e \in journal : e.wd = w

\* "Written at reserve+submit, removed once the enclave confirms finalize or
\* rollback" (withdrawal_reconcile.rs): an entry leaves the journal only
\* after its own row was settled.
EntryOutlivesRow ==
    [][\A e \in journal : Held(e.wd) => \E x \in journal' : x.seq = e.seq]_vars

Reached(w) == \E r \in pending : r.wd = w /\ r.seq <= acctSeq

\* While it stays in the journal, a reservation whose slot the account has
\* reached is finalized or rolled back in the end, if no fault happens: the
\* outcomes of process_withdrawal and the transient errors of the sweep
\* strand nothing.
ReservationsSettle ==
    \A w \in Withdrawals :
        Journaled(w) /\ Reached(w) ~> (~Held(w) \/ ~Journaled(w) \/ faults # {})

\* "... or a crash all still leave the reconcile loop able to settle
\* (finalize) or unwind (R-b expired) the reserved row" (withdrawal.rs).
CrashLeavesSettleable ==
    \A w \in Withdrawals : Journaled(w) /\ Reached(w) ~> ~Held(w)
============================================================================
