------------------------------- MODULE Deposits -------------------------------
(***************************************************************************)
(* How payments into the escrow reach the enclave of one node.             *)
(*  - Collectors read validator signatures of ledgers from live streams    *)
(*    into a bounded buffer; nothing serves them later.                    *)
(*  - The scanner walks the validated ledgers and submits, for every       *)
(*    payment, a proof that carries the signatures buffered by then.       *)
(*  - The clock driver submits the newest validated header in the same     *)
(*    way; the enclave accepts a quorum of the validator keys it derived   *)
(*    from manifests, which the refresher keeps current.                   *)
(*  - The monitor is the older path: it pages through the escrow's         *)
(*    transactions from a persisted ledger number.                         *)
(***************************************************************************)
EXTENDS Naturals, Sequences, FiniteSets, SequencesExt

CONSTANTS Validators, ValQuorum,
          EscrowTxs,      \* the escrow's transactions: a sequence of
                          \* [id, ledger, deposit], ledgers not decreasing
          LastLedger,     \* bound on the ledgers that close
          BufferLedgers,  \* VALIDATION_BUFFER_LEDGERS
          PageLimit, MaxPages,
          DepositFaults   \* bound on missed messages, failed calls, restarts

ASSUME DepositsAssumption ==
    /\ IsFiniteSet(Validators) /\ ValQuorum \in Nat
    /\ {LastLedger, BufferLedgers, PageLimit, MaxPages, DepositFaults} \subseteq Nat
    /\ DOMAIN EscrowTxs \subseteq Nat /\ \A i \in DOMAIN EscrowTxs : EscrowTxs[i].ledger \in Nat
    /\ \A i, j \in DOMAIN EscrowTxs : i < j => EscrowTxs[i].ledger <= EscrowTxs[j].ledger

VARIABLES tip,        \* the newest validated ledger
          key,        \* key[v]: the signing key v uses now
          derived,    \* derived[v]: the key of v the enclave knows
          stream,     \* validations published and not yet read, <<ledger, v, key>>
          buffer,     \* the ValidationBuffer, oldest ledger first
          scanner,    \* next_ledger, 0 before the first pass
          settled,    \* deposits the enclave credited
          armed,      \* the deposit boundary is armed
          attestedLedger,      \* the enclave's attested ledger
          monitor,    \* last_ledger, persisted in a file
          offered,    \* deposits the monitor offered to the enclave
          mishaps     \* faults that may still happen

depositVars == <<tip, key, derived, stream, buffer, scanner, settled, armed,
                 attestedLedger, monitor, offered, mishaps>>

chainVars   == <<tip, key, derived, stream>>
enclaveVars == <<settled, armed, attestedLedger>>

DepositsInit ==
    /\ tip = 0 /\ stream = {} /\ buffer = <<>> /\ scanner = 0
    /\ key = [v \in Validators |-> 1] /\ derived = key
    /\ settled = {} /\ armed = FALSE /\ attestedLedger = 0
    /\ monitor = 0 /\ offered = {} /\ mishaps = DepositFaults

Mishap == mishaps > 0 /\ mishaps' = mishaps - 1

DepositsIn(n) == {EscrowTxs[i].id : i \in {j \in DOMAIN EscrowTxs :
                     EscrowTxs[j].ledger = n /\ EscrowTxs[j].deposit}}

-------------------------------------------------------------------------------
(* The ledger and its validators.                                          *)

CloseLedger ==
    /\ tip < LastLedger
    /\ tip' = tip + 1
    /\ stream' = stream \cup {<<tip + 1, v, key[v]>> : v \in Validators}
    /\ UNCHANGED <<key, derived, buffer, scanner, enclaveVars, monitor, offered, mishaps>>

RotateKey(v) ==
    /\ Mishap /\ key' = [key EXCEPT ![v] = @ + 1]
    /\ UNCHANGED <<tip, derived, stream, buffer, scanner, enclaveVars, monitor, offered>>

\* Mutant: the keys of the first list are kept.
FirstManifests == [v \in Validators |-> 1]

\* manifests_from_vl: the list names the current key of every validator.
ListedManifests == key

\* run_unl_refresh: the enclave derives its validator set from the manifests.
RefreshManifests ==
    /\ derived # ListedManifests
    /\ derived' = ListedManifests
    /\ UNCHANGED <<tip, key, stream, buffer, scanner, enclaveVars, monitor, offered, mishaps>>

-------------------------------------------------------------------------------
(* The validation buffer.                                                  *)

HeldAt(n) == {i \in DOMAIN buffer : buffer[i].hash = n}
Held(n) == UNION {buffer[i].vals : i \in HeldAt(n)}

\* ValidationBuffer::insert: a new ledger goes to the end and evicts the oldest.
Insert(n, val) ==
    buffer' = IF HeldAt(n) # {}
              THEN [i \in DOMAIN buffer |->
                      IF buffer[i].hash = n
                      THEN [buffer[i] EXCEPT !.vals = @ \cup {val}] ELSE buffer[i]]
              ELSE LET b == Append(buffer, [hash |-> n, vals |-> {val}]) IN
                   IF Len(b) > BufferLedgers THEN Tail(b) ELSE b

\* pump_validations reads one validation from a stream.
Collect(m) ==
    /\ m \in stream /\ stream' = stream \ {m}
    /\ Insert(m[1], <<m[2], m[3]>>)
    /\ UNCHANGED <<tip, key, derived, scanner, enclaveVars, monitor, offered, mishaps>>

\* Every stream is down or silent when the validation is sent; the collectors
\* reconnect after the pump ends.
MissValidation(m) ==
    /\ m \in stream /\ Mishap /\ stream' = stream \ {m}
    /\ UNCHANGED <<tip, key, derived, buffer, scanner, enclaveVars, monitor, offered>>

\* build_validations_section keeps every buffered validation; the enclave counts
\* the distinct ones signed with a key it knows.
QuorumMet(vals) == Cardinality({v \in Validators : <<v, derived[v]>> \in vals}) >= ValQuorum

-------------------------------------------------------------------------------
(* The attested clock.                                                     *)

\* newest_parsed, of the ledgers the endpoints answered with.
NewestParsed(answers) == CHOOSE n \in answers : \A m \in answers : m <= n

\* The enclave's answer to the header of ledger n, as classify_clock_rc names it.
ClassifyClockRc(n) == IF ~QuorumMet(Held(n)) THEN "BadBundle"
                      ELSE IF n <= attestedLedger THEN "AlreadyAtOrAhead" ELSE "Advanced"

\* advance_once: header_from_ledger_response accepts validated ledgers only;
\* one endpoint lags for ever.
AdvanceClock(answers) ==
    LET n == NewestParsed(answers) IN
    /\ HeldAt(n) # {} /\ ClassifyClockRc(n) = "Advanced"
    /\ attestedLedger' = n
    /\ UNCHANGED <<chainVars, buffer, scanner, settled, armed, monitor, offered, mishaps>>

Answers == {{1, n} : n \in 1 .. tip}

-------------------------------------------------------------------------------
(* The scanner.                                                            *)

\* cli_arm_spv_deposit_boundary, once the custody baseline is proven.
Arm ==
    /\ ~armed /\ armed' = TRUE
    /\ UNCHANGED <<chainVars, buffer, scanner, settled, attestedLedger, monitor, offered, mishaps>>

\* find_escrow_payments sees no payment in an answer without transactions, which
\* is also what a server that does not have the ledger returns.
PaymentsIn(n, answered) == IF answered THEN DepositsIn(n) ELSE {}

\* build_deposit_proof: the header and the path to the payment (SpvBundle has the
\* tree) with the validations buffered by then.
DepositProof(n) == [ledger |-> n, vals |-> Held(n)]

\* scan_one_ledger on the ledger n: an Err keeps the cursor, anything else moves
\* it on.  The enclave refuses a proof without quorum (-208); classify_submit
\* takes that for permanent.  A call may also fail in transport.
ScanOne(n, answered, failed) ==
    LET hits == PaymentsIn(n, answered) IN
    \/ /\ hits = {} \/ (HeldAt(n) # {} /\ armed)
       /\ scanner' = n + 1
       /\ settled' = settled \cup
             (IF QuorumMet(DepositProof(n).vals) THEN hits \ failed ELSE {})
    \/ /\ hits # {} /\ (HeldAt(n) = {} \/ ~armed)
       /\ scanner' = n /\ UNCHANGED settled

\* One pass of run_deposit_scanner: it starts at the validated tip.
ScanPass(answered, failed) ==
    LET n == IF scanner = 0 THEN tip ELSE scanner IN
    /\ tip > 0 /\ n <= tip
    /\ ScanOne(n, answered, failed)
    /\ <<scanner', settled'>> # <<scanner, settled>>
    /\ IF answered /\ failed = {} THEN UNCHANGED mishaps ELSE Mishap
    /\ UNCHANGED <<chainVars, buffer, armed, attestedLedger, monitor, offered>>

-------------------------------------------------------------------------------
(* The monitor.                                                            *)

\* The escrow's transactions after the cursor, by position: account_tx serves them
\* oldest first.
Window == {i \in DOMAIN EscrowTxs : EscrowTxs[i].ledger > monitor /\ EscrowTxs[i].ledger <= tip}

\* fetch_pages: the pages read before the window ends, the page bound is reached
\* or the server answers with an error.
Fetched(pages) == {i \in Window : Cardinality({j \in Window : j < i}) < pages * PageLimit}

\* Mutant: the ledger of the marker itself counts as complete.
CapAtMarker(top, floor, marker) == IF marker < top THEN marker ELSE top

\* cap_to_complete: the ledgers below the marker are complete.
CapToComplete(top, floor, marker) ==
    LET complete == IF marker - 1 < top THEN marker - 1 ELSE top
    IN  IF complete < floor THEN floor ELSE complete

\* scan_pages: the deposits among the fetched transactions and the new cursor; the
\* marker of the last page points at the first transaction that was not fetched.
ScanPages(got) ==
    LET top  == Max({monitor} \cup {EscrowTxs[i].ledger : i \in got})
        rest == Window \ got
    IN  [deposits |-> {EscrowTxs[i].id : i \in {j \in got : EscrowTxs[j].deposit}},
         ledger   |-> IF rest = {} THEN top
                      ELSE CapToComplete(top, monitor, EscrowTxs[Min(rest)].ledger)]

\* The main loop asks the enclave to credit what the scan returns, then writes the
\* cursor, also when a credit failed.
MonitorScan(pages) ==
    LET scan == ScanPages(Fetched(pages)) IN
    /\ offered' = offered \cup scan.deposits
    /\ monitor' = IF scan.ledger > monitor THEN scan.ledger ELSE monitor
    /\ <<monitor', offered'>> # <<monitor, offered>>
    /\ IF pages = MaxPages THEN UNCHANGED mishaps ELSE Mishap
    /\ UNCHANGED <<chainVars, buffer, scanner, enclaveVars>>

\* The process stops between the credits and the write of the cursor.
MonitorCrash(pages) ==
    /\ Mishap
    /\ offered' = offered \cup ScanPages(Fetched(pages)).deposits
    /\ scanner' = 0 /\ buffer' = <<>>
    /\ UNCHANGED <<chainVars, enclaveVars, monitor>>

-------------------------------------------------------------------------------
(* A restart: the buffer and the scanner's cursor are in memory only.      *)
RestartDeposits ==
    /\ Mishap
    /\ buffer' = <<>> /\ scanner' = 0
    /\ UNCHANGED <<chainVars, enclaveVars, monitor, offered>>

FailedCredits == {{}} \cup {{EscrowTxs[i].id} : i \in DOMAIN EscrowTxs}

DepositsNext ==
    \/ CloseLedger \/ RefreshManifests \/ Arm \/ RestartDeposits
    \/ \E v \in Validators : RotateKey(v)
    \/ \E m \in stream : Collect(m) \/ MissValidation(m)
    \/ \E answers \in Answers : AdvanceClock(answers)
    \/ \E answered \in BOOLEAN, failed \in FailedCredits : ScanPass(answered, failed)
    \/ \E pages \in 1 .. MaxPages : MonitorScan(pages) \/ MonitorCrash(pages)

\* The collectors, the refresher and the clock driver are loops that never end,
\* and the ledger keeps closing.  The driver sees the tip infinitely often.
DepositsFairness ==
    /\ WF_depositVars(CloseLedger) /\ WF_depositVars(RefreshManifests)
    /\ WF_depositVars(\E m \in stream : Collect(m))
    /\ WF_depositVars(AdvanceClock({1, tip}))

DepositsSpec == DepositsInit /\ [][DepositsNext]_depositVars /\ DepositsFairness

-------------------------------------------------------------------------------
(* Properties.                                                             *)

\* Every deposit at or below the monitor's cursor was offered to the enclave,
\* wherever the paging stopped and whatever crashed in between
\* (xrpl_monitor.rs:166-182, the partial-window rule).
MonitorSkipsNothing ==
    \A n \in 1 .. monitor : DepositsIn(n) \subseteq offered

\* A quorum of the validators signed ledger n with the keys they use now, and the
\* buffer has it.
QuorumHeld(n) == Cardinality({v \in Validators : <<v, key[v]>> \in Held(n)}) >= ValQuorum

\* The clock catches up: once the buffer keeps a quorum for the last ledger, the enclave
\* attests it, although validators rotated their keys, validations were missed or evicted,
\* endpoints lag for ever and the node restarted on the way
\* (attested_clock.rs:524-632 with unl_refresh.rs:164-207).
ClockCatchesUp == <>[]QuorumHeld(LastLedger) => <>(attestedLedger = LastLedger)

\* A ledger the scanner has passed holds no deposit that was left uncredited: "a
\* skipped ledger is a deposit nobody will ever notice was lost"
\* (deposit_spv.rs:727-728).
PassedMeansCredited ==
    scanner > 0 => \A n \in 1 .. scanner - 1 :
        (HeldAt(n) # {} /\ QuorumMet(Held(n))) => DepositsIn(n) \subseteq settled
===============================================================================
