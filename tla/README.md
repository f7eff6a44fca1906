# A TLA+ model of the XRPL perpetuals orchestrator

The repository is the orchestrator of a perpetual-futures exchange that settles
on the XRP Ledger. An SGX enclave (not in the repository) keeps accounts,
positions and keys. The orchestrator around it (`orchestrator/src`) matches
orders, persists them, replicates fills to the other operators, elects the node
that sequences, watches the ledger for deposits, and pays withdrawals out of a
multisigned escrow account. This project models its state machines in TLA+,
checks them with TLC and proves the central invariants with TLAPS.

## 1. Inventory

Paths are relative to `src/orchestrator/src/`.

| Component | State | Operations | Interaction |
|---|---|---|---|
| Order book (`orderbook.rs`) | bids, asks, next ids, recent trades, attested clock | submit, match, cancel, cancel all, load | called under one tokio mutex by the trading engine |
| Self-trade limiter (`rate_limit.rs`) | per-user times of self-cross events | peek, record | owned by the book |
| Trading engine and HTTP handlers (`trading.rs`, `api.rs`) | the engine's lock, batch counter; each request's locals | submit, close, cancel, cancel all | calls enclave, book, P2P channel, PostgreSQL, with an await at each |
| Persistence (`db.rs`, reload in `main.rs`) | `resting_orders`, `trades`, history | insert, update, delete, reload | written by handlers, read at process start |
| Election (`election.rs`) | role, leader, timers | heartbeat, announce, timeout, promote | gossip between operators; drives `is_sequencer` and the leader gate |
| Withdrawal (`withdrawal.rs`, `withdrawal_reconcile.rs`) | journal, enclave reservation, ledger payment | reserve, sign, submit, sweep | enclave, co-signers over P2P, XRPL |
| Replication (`main.rs`, `leader_gate.rs`, `p2p.rs`) | batch queue, known leader, attested time | number, forward, gate, verify, replay | batches over gossip, enclave of each validator |
| Governed chains (`membership_*.rs`, `unl_policy.rs`, `mrenclave_governance.rs`, `reserves_baseline.rs`, `signerlist_update.rs`) | per enclave: epoch chain, allowlist, validator-list policy, custody baseline; the ledger's SignerList | collect, apply, acknowledge, project, confirm | admin routes, signing and apply topics, XRPL |
| Joining node (`bootstrap_join.rs`, `bootstrap_http.rs`) | observed epochs, retained bundle, request budget | announce, request, serve, import, drift check | bootstrap topic, enclaves |
| Key generation (`dkg_coordinate.rs`) | one active ceremony per node, the enclave's session | four rounds, shares, abort | leader's admin route, two gossip topics |
| FROST rounds (`frost_round.rs`) | the claim, one live nonce per signer | nonces, partials, aggregate | local enclave |
| Migration (`path_a_*.rs`, `node_deploy.rs`) | two enclave slots and their sealed files | deploy, export, import, confirm, rehearse | OLD and NEW enclave, operators |
| Deposits and clock (`deposit_spv.rs`, `xrpl_monitor.rs`, `attested_clock.rs`, `unl_refresh.rs`) | validation buffer, two cursors, clock, known keys | collect, scan, prove, credit, advance, refresh | XRPL servers, enclave |
| SPV proofs (`spv_proof.rs`, `tx_shamap.rs`) | the tree being built | insert, prove, verify, fetch a bundle | XRPL servers |
| P2P loop (`p2p.rs`) | routes of answers, seen ids, rate windows | relay, sign, route, sweep | all operators |
| Access (`auth.rs`, `operator_roster.rs`, `admin_listen.rs`, `session_key_revoke.rs`) | sessions, roster, socket, credential | login, verify, load, revoke | every HTTP request |
| Main loop (`main.rs`, `price_feed.rs`) | timers, price path, last price | push price, liquidate, fund | enclave, price sources |
| Safe and reserves (`safe_projection.rs`, `safe_governance.rs`, `commitment.rs`, `reserves_publisher.rs`) | the Safe's owner list, nonce, registry; cached figures | derive, plan, sign, execute, attest, publish | enclave, Base |
| Vault market maker (`vault_mm.rs`) | own quotes | requote | never started in this build |

What is hard here: handlers that interleave at every await around one lock;
values read under the lock and written to PostgreSQL after it; restarts between
two writes; messages lost, late and reordered between operators; timers racing
them; and a payment whose fate is only known from the ledger. `PROJECT.json`
lists each hazard at its line with the properties that would catch it.

What makes each part correct:

* book: price-time priority, conservation, never crossed, termination;
* order path: a resting order is without a row only when its own INSERT failed, rows
  are never ahead of the book, every fill is published before it is recorded, every
  request is answered;
* election: one sequencer once the network is stable; standing down only upward;
* withdrawal: a reserved amount is paid once or returned, never both;
* replication: what the sequencer fills reaches every enclave, from the elected
  leader only, or a counter of the node that misses it moves;
* governed chains: they only grow, and the ledger's SignerList moves only to a set
  that every enclave has sealed;
* joining: it comes to an end, and stale bundles are neither served for good nor imported;
* ceremonies: a reported success is everybody's, and the sealed state is never lost;
* deposits: no ledger is skipped; the clock follows the ledger;
* access: whatever is served was asked for by the account it acts for;
* Safe: every plan executes, from whatever list the Safe has come to.


## 2. Plan

The order follows what would hurt most if it were wrong.

1. **Order book** (`OrderBook`) - done: matching, self-cross decrement, FOK
   pre-check, limiter; proved.
2. **Order path** (`Trading`, which extends `OrderBook`) - done: concurrent
   handlers, batches, PostgreSQL rows, restart; proved.
3. **Election** (`Election`) - done: heartbeats, timeouts, promotion; proved.
4. **Withdrawal** (`Withdrawal`) - done: handlers, journal, reconcile sweep, ledger
   and enclave as environment; proved.
5. **Governance** (`Membership` against `SignerAuthority`, `JoinBrain`) - done; the first proved.
6. **Ceremonies** (`Dkg`, `FrostRound`, `Migration`) - done; proved.
7. **Deposits, clock and proofs** (`Deposits`, `SpvBundle`) - done; proved.
8. **Replication and the signing relay** (`Replication`, `SigningRelay`) - done.
9. **Access, main loop, Safe** (`Access`, `MainLoop`, `SafeProjection`) - done; proved.
10. **Proofs** - done for every safety invariant, action property and refinement of
    the passing runs; liveness stays with TLC (section 5).
11. **Next**: the components that are modelled in part (section 6), and the abstract
    specifications below.

The abstract specification that is stated and implemented is `SignerAuthority`.
Others worth stating: a book as a set of orders with one trade at a time (for
`OrderBook`), and "every reservation is open, paid or returned" (for `Withdrawal`,
today the invariant `SettledAsPaid`).

## 3. Modules and their correspondence to the code

`PROJECT.json` maps every definition to the lines it models. In short:

**`OrderBook`** (`orderbook.rs`, `rate_limit.rs`). The two BTreeMaps of price
levels are one set `resting`; an order's place in its level is its ticket `arr`.
`Submit` is `submit_order` up to `match_order`, with the guards and the FOK
pre-check (`KillFok`); each iteration of the matching loop is one `MatchStep`
(`Fill` or `SelfCross`); `Finish` is what follows the loop. `phase` says whether a
submission is in the loop. The loop is not interruptible in the code (the book
lock is held), so the steps between `Submit` and `Finish` are never interleaved
with others; they are separate so that properties can speak of each trade.
Prices, sizes and leverage are small naturals; the notional arithmetic keeps its
integer division.

**`Trading`** (`trading.rs`, `api.rs`, `db.rs`, reload in `main.rs`). Each handler
has a program counter; every await is a step. The tokio mutex is `holder`. SQL
statements are operators on the sets `rows` and `tradeRows`; each may fail, at most
`SqlFaults` times in a behaviour, and the handler goes on as `db.rs` does. `unsaved`
remembers which orders' INSERT failed in this process, for the property only. `Restart`
kills all handlers and rebuilds the book with `load_orders`. The enclave only answers
margin queries, with any value of `Margins`.

**`Election`** (`election.rs`). One record of timers, role and leader per node;
one action per branch of `handle_message`, `check_timeout` and `send_heartbeat`.
The network is a set of messages per destination; before `Stabilise` messages are
lost, delayed and reordered, and nodes crash and restart.

**`Withdrawal`** (`withdrawal.rs`, `withdrawal_reconcile.rs`, `ValidationBuffer` in
`deposit_spv.rs`). A handler's program counter follows `process_withdrawal` from
one await to the next: Sequence, validated ledger, reservation, journal,
signatures, submission, journal again. The sweep is a second process: `queue` is
the snapshot, `cur` the entry it is at, the place it is at, and what it has read.
A proof is what it states: a transaction in a slot, or the account's Sequence at a
ledger. The environment is external and written down from how the code uses it:

* the XRP Ledger includes a Payment only in its slot and not after its
  LastLedgerSequence, and a slot is taken once;
* the enclave reserves only above its high-water, finalizes a row only for a
  clean Payment with its content, rolls back a stolen slot only for another clean
  Payment in it, and an expired row only for a state proof with the row's
  Sequence past its window (the comments of `perp_client.rs`, lines 225-262, and
  the return codes `withdrawal_reconcile.rs` tells apart);
* rare events are faults, each at most once in a behaviour.

**`Membership`** (`membership_*.rs`, `unl_policy.rs`, `mrenclave_governance.rs`,
`reserves_baseline.rs`, `signerlist_update.rs`, the policy and apply code of `p2p.rs`).
A digest commits to its whole history, so a chain is the sequence of its entries.
`cer[c]` is the handler of one admin request: it reads the head of its own enclave
(`StartChange`, `StartGenesis`, `StartGovern`, `StartPolicy`, `StartBaseline`),
collects signatures (`Collect...`), applies locally (`ApplyLocal`), waits for
acknowledgements of the broadcast (`DeliverApply`, which may come late or never) and
closes. A change that everyone sealed is projected: the driver reads the escrow's
Sequence (`FetchSequence`), asks the signers of its configuration one by one
(`CosignProjection`, with the policy of each), submits (`Submit`), the ledger includes
the transaction if its Sequence is still the next (`Land`), perhaps after the driver
gave up (`GivenUp`), and the poll finds it (`ObserveLanded`) or not (`ProjectFails`).
What landed is confirmed to every enclave. The endpoints of a baseline's roster are
labels that the operator gives, as in `reserves_baseline.rs` 355-357: every cosigner
verifies one broadcast proof, and nothing is claimed about independent reads. The
enclave's checks of a statement
(`SealAccepted` and its like) are external in substance and read off the codes the
HTTP sinks tell apart. **`SignerAuthority`** is what all this promises, in two
actions: an enclave extends its chain by one set; the SignerList moves to a set that
all enclaves hold in the same place. `Membership` implements it with the mapping
`sealed <- chain["epoch"]`, `ledgerList <- onChain`.

**`JoinBrain`** (`bootstrap_join.rs`). `brain[n]` are the locals of
`run_join_brain`; time is replaced by the order that its intervals enforce. The mesh
names a message by the hash of its data, so every second identical request is
dropped (`repeat`). A source serves only while its enclave is in sync (`synced`, set by
a confirmation that nothing forces); `first` is the account that sorts first, a source's
or the newcomer's; `refused` remembers that the elected source was asked while it could
not serve the newest epoch.

**`Dkg`** (`dkg_coordinate.rs`). `active[n]` is the record a node keeps of a
ceremony, `session[n]` the enclave's; `drive[c]` the leader's handler. A polynomial
is named by its dealer and ceremony, a group key is the set of polynomials it sums.
The follower, the share importer and the leader's handler are separate processes.

**`FrostRound`** (`frost_round.rs`). A round's nonces are numbered as the enclave
draws them; a signature verifies when each partial used the published one.

**`Migration`** (`path_a_*.rs`, `node_deploy.rs`). An enclave is a slot at a port with
the set of its sealed files; every step may be carried out and its answer lost. Up to
`Overlap` requests run at once. The rehearsal's boot is three steps, as other requests
may come between them: the files are counted (`CountSealed`), NEW is restarted
(`RestartNew`, with the six ways it can go) and the proof is judged (`JudgeBoot`), by the
number of files before and after and by the names after. The reset may fail before,
between and after the removals. `mixed` remembers that a rehearsal and a real run have
overlapped.

**`Deposits`** (`deposit_spv.rs`, `xrpl_monitor.rs`, `attested_clock.rs`,
`unl_refresh.rs`). A validation is a ledger, a validator and the key it signed with;
the buffer keeps its order and bound. The scanner and the paging monitor have a
cursor each; only the monitor's survives a restart. What `account_tx` serves is a set
of positions in the escrow's history, oldest first.

**`SpvBundle`** (`spv_proof.rs`, `tx_shamap.rs`). A tree is a function from the
nibbles that lead to a node to the node, and is built entry by entry as the code
inserts them: the descent through inner nodes is `WalkEnd`, the levels that a leaf in
the way is pushed down are `Split` from there to `Parting`. A hash is the term it is
computed from, so no two differ by chance; `Hashes` has them level by level from the
deepest. Verification compares the running hash of each level with the branch of the
one above. The tree that a ledger commits to is `CanonicalTree`, which says where every
key belongs and not how it got there. Keys may part anywhere, at the last nibble too,
where the insertion bails (`Clash`). `fetch_spv_bundle` picks
its ledger from validations and asks for the proof by number, by `getProofPath` or
by paging through the state; the server chooses the key it answers about (`ServedPath`),
and a page may fail half way (`PageFails`).

**`Replication`** (`trading.rs`, `main.rs`, `leader_gate.rs`, `p2p.rs`). A batch goes
through the handler's send, the forwarder, the mesh, the gate and the replay, leg by
leg; the enclave may refuse a leg at either end, and a validator's counters are `alarms`.
What the signature check says depends on the kind of order: the batch carries the size
that a self-cross has left (`trading.rs` 433), so a `"shrunk"` order is refused by every
validator (`p2p.rs` 188). Elections and the attested clocks are the environment;
`agreed` remembers whether all nodes knew the same leader when the fill was made.

**`SigningRelay`** (`p2p.rs`). Requests of seven kinds, the routes of their answers,
the replay guard and rate windows of the signers, timeouts of the askers and the
periodic sweep. Time passes in windows of a minute: the guard's entries expire after
`ReplayTtl` of them (ten in the code), and the mesh, which is external, still delivers a
copy up to `CopyLife` minutes after it was sent; the assumption is `CopyLife <
ReplayTtl`. A peer's restart empties its guard.

**`Access`** (`auth.rs`, `operator_roster.rs`, `admin_listen.rs`,
`session_key_revoke.rs`). A signature is its signer, what was signed (`PublicPreimage`,
`AdminPreimage`) and its time; it can be presented any number of times. The revocation
command meets its faults step by step: a check answered with another status than 200, a
rotation refused, or answered and not done, or an answer that is lost.

**`MainLoop`** (`main.rs`, `price_feed.rs`). One tick of a node runs from the price
path to funding; a price is the time at which it was fetched.

**`SafeProjection`** (`safe_projection.rs`, `safe_governance.rs`, `commitment.rs`,
`reserves_publisher.rs`). The Safe is its linked list of owners, with the rules of its
owner calls; a derivation is a task whose reads are separate steps. A plan is the
concatenation of its five phases, and names predecessors in the list as the calls before
have left it; `AfterCalls` runs a sequence of calls against the Safe.

The `*Proofs` modules hold the theorems (`CeremonyProofs` those of `FrostRound`, `Dkg`
and `Migration`; `NodeProofs` those of `Access`, `MainLoop`, `SigningRelay` and
`Deposits`; `EvidenceProofs` those of `SafeProjection` and `SpvBundle`); the `MC*` modules choose small constants.
`MCCore`, `MCFeeds`, `MCProgress` and `MCComponents` put several components side by
side: they share no state, so a behaviour picks one of them (`focus`) and runs it while
the others stay as they start. This is the union of their state spaces, not a product.

## 4. Runs

| Run | Question | Result |
|---|---|---|
| `MCCore` | the book: every sequence of three submissions of every kind, with cancels, clock and limiter: well formed, uncrossed, in priority, conserving, terminating? the election: three ranked nodes with crashes and loss: role and gate agree, demotion only upward, one sequencer for good once stable? | holds |
| `MCFokSell` | "verify sufficient liquidity before matching": is a FOK sell killed only when short? | violated: the pre-check walks bids from the lowest price |
| `MCElectionReturn` | "Old sequencer returning does not reclaim leadership"? | violated: a better-priority node takes over again |
| `MCTrading` | two handlers, one restart, one failing SQL statement: is an order without its row only after its own INSERT failed, are rows never ahead of the book, recorded trades published, the reloaded book well formed? | holds |
| `MCTradeIds` | are a handler's trades in the trades table once it is past the loop? | violated after a restart: ids start again at 1 and ON CONFLICT drops them |
| `MCGhostRows` | do rows match the book when nothing is in progress? | violated: `close_position` leaves its makers' rows |
| `MCFeeds` | does the monitor skip nothing, and the clock catch up with what the validators in reach have signed? is every fill replicated or noticed? does a process sign a request once? are trees canonical but for keys that part at the last nibble, bundles about their ledger, funding charges spaced? | holds |
| `MCProgress` | does every join come to an end, a laggard stop serving and every trader's request get answered? | holds |
| `MCComponents` | do the ceremonies implement the signer authority, and is an enclave in sync only with the ledger's list? is a key generation's success shared, does a round that ends verify, is the sealed state held by overlapping migrations and a rehearsal sound? does every Safe plan execute, does every call act for its signer, is a revoked credential dead? | holds |
| `MCWithdrawal` | two withdrawals, the sweep, one fault of any kind: settlement agrees with the ledger, journaled reservations settle? | holds |
| `MCWithdrawalCrash` | "... or a crash all still leave the reconcile loop able to settle"? | violated: the validations needed for finalize are in memory only |
| `MCWithdrawalDropped` | entries "removed once the enclave confirms finalize or rollback"? | violated: reads of two ledgers make a landed Payment look expired, and the proof then built settles another row |

The violated properties quote the repository's own comments; `PROJECT.json`
("findings") gives the lines on both sides. The last one rests on the enclave
choosing the row by the Sequence in the state proof, which is what the comment of
`withdraw_rollback_expired` describes.

### Bounds

* `MCCore`. Book: two users, two prices, sizes one and two, three orders, all order
  types and times in force. Two prices make crossing and priority between levels
  possible, two sizes partial fills; three orders are enough for two makers at
  one level and a taker that meets both, its own among them. The limiter's cap and
  window are one so that the budget is hit and recovers. Election: three nodes, two
  crashes, two messages in flight before stabilisation; three nodes allow two rival
  sequencers and a follower of each.
* `MCTrading`: two handlers (any pair of awaits interleaved), three orders, one
  restart, one failing statement, one price; the requests make full and partial fills,
  self-crosses, a remainder, a killed FOK and closes. Handlers are symmetric, and only
  invariants are checked with the symmetry. The liveness of the handlers is checked
  in `MCProgress`, with two orders and no symmetry. The two violation runs on this
  module have no failing statement: the code alone violates them.
* `MCFeeds`. Deposits: two ledgers with four escrow transactions and one per page, so
  that a page ends inside a ledger; two validators of which both are needed and two
  faults, so that a rotated key or a missed validation costs the quorum and only the
  refresher or the next ledger gives it back; a buffer of one ledger, so that it is at
  its limit. Replication: two nodes, two fills, two terms, orders with and without a
  self-cross, clocks that move past the tolerances, one lost batch and one refused leg.
  Relay: a request of each kind, one of them unsound, two at once for the rate window, a
  guard of two minutes against a message's life of one, and two minutes, so that an
  entry is purged. Proofs: two ledgers of each of two numbers, keys of four nibbles that
  part at every depth, in one ledger at the last nibble, a server that may change its
  ledger, repeat an entry or fail. Loop: one node, funding every second tick, two faults.
* `MCProgress`. Two sources, one of which may miss an epoch, and a newcomer; any of the
  three may sort first; eight requests and one fault, so that the second half of the
  budget is reached and the request budget can be used up.
* `MCComponents`. Membership: three nodes, two ceremonies of any kind by one driver,
  one after the other or at once (a retry, a change that overtakes another), the founding
  set, one that replaces an account, one too small to be projected; one node's ledger is
  too far behind to endorse an anchor, and one roster of two repeats a label. Key
  generation: two dealers, two overlapping ceremonies, one fault, three messages under
  way. Rounds: two rounds, three signers, threshold two. Migration: two slots, two
  requests at once, three essential files, so that a number of files does not determine
  them. Safe: two epochs that share a member, two lists to start from, one deriving node.
  Access: three time units against a drift of one and a session of two, a user and an
  operator that the second roster drops, one fault (the theorem is for any number).
* `MCWithdrawal`: two withdrawals (the second may be reserved in the slot after
  the first), a window of one ledger, ledgers 0 to 3, one transient failure and
  one fault of the six kinds. A window of one lets a Payment land in time, land
  last, and expire; handlers start only when their window fits, so expiry can
  always be observed. The buffer never fills here; a crash empties it.

`CHECK_DEADLOCK FALSE` is used where the system may stop: when all ids (`Trading`),
ledgers (`Withdrawal`, `Deposits`), requests or ceremonies of the instance are used up.

### Fairness

* `OrderBook`: a submission in the loop goes on (`WF` on the loop steps): the code
  runs it without giving way.
* `Trading`: strong fairness of each handler's next step: futures are polled,
  enclave and PostgreSQL answer, and tokio's mutex is handed over first-come
  first-served, so a waiter that is enabled again and again gets it.
* `Election`: the system as a whole does not stop (`WF` on what nodes and clock
  do). Once stable, the clock waits for messages and due timers, which is the
  usual partial synchrony.
* `JoinBrain`: announcers announce, brains tick and read their inbox; nothing forces
  an epoch, a confirmation or a fault.
* `Deposits`: ledgers close, the collectors, the refresher and the clock driver are
  loops without an end, and the driver again and again finds the tip among the answers.
* `Replication`: handlers send, forwarders, role watchers and replay loops run; nothing
  forces an election or a fill, a batch may be lost and a leg refused.
* `SigningRelay`: askers have a timeout and the sweep is a timer; this is for
  `RoutesForgotten` (section 7), and the run's property does not use it. The other
  components have safety properties only.
* `Withdrawal`: ledgers close and the sweep loop runs for ever. Nothing is assumed
  of handlers: a co-signer may keep one waiting.

## 5. Proofs

All theorems hold for every value of the constants that satisfies the named
assumptions (`BookAssumption`, `MembershipAssumption` and their like, which TLC
evaluates in every run). The bounds the runs need (`MaxOrders`, `Faults`, ...) are
arbitrary naturals there. What the assumptions say beyond types: closes are Market
IOC orders (`trading.rs` 142); a list on the ledger has a quorum; there are two
enclave slots (`node_deploy.rs`, `SLOTS`) and at least two essential files; ceremony
and request ids start at one; the Safe starts with distinct owners among finitely many
members and a threshold that they can meet; keys of a ledger have at least two
nibbles; the mesh keeps a message for less than the replay guard keeps its id. Each
strengthened invariant was checked by TLC on the
instance of the component's run before it was proved.

* **`OrderBookProofs`**. `BookTypeCorrect`, `BookStaysWellFormed`,
  `BookNeverCrossed`, `BookTradesInPriority`: the inductive invariant `IndInv` adds
  to types and well-formedness that the taker is the newest order and open
  (`TakerFresh`), and that the resting orders are uncrossed in every phase and not
  only between submissions (`Uncrossed`): matching only shrinks the other side,
  and the remainder rests only when nothing crosses it. Without `Uncrossed` it is
  `ShapeInv`, which a reload from PostgreSQL keeps too. `MatchingIsConservative`,
  `FokIsFilled` and `StatusTellsResting` are about sums over the book: the lemmas
  `TotalsExist` to `TotalMonotone` show that the community modules' `MapThenSumSet` is
  well defined on finite sets, independent of the order in which it picks, and
  monotone. `FokInv` says that a fill-or-kill order in the loop always finds as much
  of other users' liquidity as it has left; the reported status depends on it, since
  a fill-or-kill remainder would be reported Open without resting. `BudgetKept`: the
  peek before the loop leaves room for the record after it.
* **`TradingProofs`** (extends `OrderBookProofs`). `TradingTypeCorrect`,
  `ReloadsWellFormed`, `RestingOrdersKept`, `RowsLag`, `RecordedArePublished`, for any
  number of handlers and restarts. The invariant `TradingInv` follows an order from
  the book through the copies handlers carry between their awaits to the rows: a
  pending delete names an order that is dead, a pending fill states what the order
  has truly reached, a row is never ahead of the book, and a copy that says Open is
  on the book, in a row, still in the hands of the handler that will write it, or its
  INSERT failed. A statement that fails leaves the tables alone, and every claim of the
  invariant about them is one that a missing write cannot break, but the last, which is
  why `unsaved` appears in it.
  What makes these claims survive the steps of other handlers is that the
  predicates `Settled`, `Dead` and `Claim` are stable under every move of the book. A
  restart is the hard step: the book is rebuilt from rows that lag, with new tickets
  (`TicketOrder`) and a next id above every row. That the book is uncrossed is not
  part of it, and does not hold: a reload of ghost rows may leave a crossed book.
* **`ElectionProofs`**: `ElectionRoleMatchesLeader`, `ElectionYieldsOnlyUpward`.
  The invariant adds that nobody receives its own broadcast; without it a
  validator could name itself leader.
* **`WithdrawalProofs`**: `WithdrawalTypeCorrect` and `WithdrawalSettles`, the
  theorem that matters most for money: a finalized withdrawal was paid, and one
  whose margin was given back is never paid, for any number of withdrawals, any
  window, any faults and restarts. `SettledAsPaid` is far from inductive. The
  invariant `WInv` adds: slots are taken once (`SlotsTakenOnce`); nothing of a
  withdrawal exists before its reservation (`FreshUnknown`); a row describes the
  only transaction its withdrawal can ever have, in the mempool, on the ledger or
  still in its handler's hands (`RowsDescribe`); rows are apart by slot
  (`RowsBySlot`, from the high-water); whatever belongs to a rolled-back withdrawal
  is dead (`RestoredDead`); and the proofs the sweep holds stay true while the
  ledger moves on (`ProofsHold`). The step that needs care is the expiry rollback:
  the proof names the account's Sequence at a ledger past the row's window, so
  nothing in that slot can have been included up to then, and nothing with that
  window can be included after.
* **`MembershipProofs`**: `CeremoniesImplementAuthority`, the refinement of
  `SignerAuthority`, and `InSyncIsOnChain`. The invariant `MInv`
  says of each run what its acknowledgements mean: an acknowledged node has sealed the
  run's statement, a statement that all nodes sealed stays a prefix of every chain,
  a confirmed head is a prefix of every chain and on the ledger, and while some node's
  head is still the statement of a landed run that run's list is the ledger's, so a
  late confirmation cannot mark a node in sync with an older list (`ConfirmedHeld`). The
  step that needs care is a transaction that lands after another one was prepared:
  `LandingOrder` says that no landed epoch is beyond one that can still land, that is,
  one with signatures and the Sequence that the ledger wants next. A cosigner signs only
  the list of its own head, and a transaction prepared before another landed has a
  Sequence that is gone. The enclave's checks of a statement and its
  confirmation of a projection are external.
* **`CeremonyProofs`**: `SuccessMeansShared` (key generation: a report of a finished
  key, on the wire or noted, is about a key its sender has sealed, and the record of a
  leader that drives names the participants it computed), `RoundsVerify` (rounds: at
  most one claim, and unless a handler was dropped the live nonces are those the round
  published), `SealedStateHeld` and
  `RehearsalsSound` (migration), both for any number of overlapping requests. The
  invariant of the first says that the backup holds the essential files from the moment
  the old slot may be emptied, and that while requests of one kind run, the slot for
  which OLD was retired keeps what was imported into it; with a rehearsal beside a real
  run that is false (section 7), which is what `mixed` stands for. The second needs that
  the files booted on are either those counted or those named: of one write at most, the
  boot came before it or after it, and in both cases as many files as the complete set,
  out of those a migration can carry, are the complete set (`BootedOnAll`).
* **`NodeProofs`**: `EveryCallSigned` (a session was opened by a
  login its account signed, and ends a session's life and a drift after it),
  `RevokedKeysDead` (a command that reaches its second check without a fault has
  rotated the key),
  `FundingIsSpaced` (the funding timer was started again by every charge and is never
  ahead of the clock), `RelaySignsOnce` (a process that has signed a request has it in
  its replay guard until no copy of it can be left), `MonitorIsComplete` (the cursor passes only
  ledgers below the marker, of which every transaction was fetched).

* **`EvidenceProofs`**, the Safe: `PlanExecutesAlways` and `SafeStaysUsable`, for any
  members, epochs and first owners. What is asked of a plan is that the Safe accepts
  every call of it and ends as wanted, so the proof writes down the owners after i calls
  of each phase (`Swapped`, `Added`, `Shrunk`), shows that the call i + 1 names the right
  predecessor in that list and leads to the next (`SwapRun`, `AddRun`, `RemoveRun`,
  `ThresholdRun`), and joins the runs (`RunJoin`). The threshold is what makes the
  order of the phases matter: it is at most the length of the list at every call
  (`PlanRuns`). Plans start from whatever list the Safe has come to, so `SafeInv` is
  needed: distinct owners, all members, and a threshold within their number, kept by every
  call that the Safe accepts, planned for this epoch or for another, and by a nonce that
  the publisher spends.
* **`EvidenceProofs`**, the bundle: `TreeIsCanonicalAlways`, `BundleProvesTargetAlways`,
  `ServedPathVerifies`, `LengthsReadBack`, for keys of any length, any number of
  branches and any ledgers. `IsTree` says of every node of a tree what the tree of some
  entries has there. No two trees are the tree of the same entries (`OneTree`), the
  canonical tree is one, and an insertion leads from the tree of S to that of S and one
  key more, into an empty branch (`PutEmpty`) or by moving the leaf that is met down to
  where the keys part (`PutSplit`); this is why the order of a listing does not matter.
  The tree fails exactly when the listed keys have a `Clash`, two that part at their last
  nibble, and stays failed; the canonical tree has those too, and `ServedPathVerifies`
  covers them.
  `VerifiedIsLeaf` holds for every tree and every proof, wherever it came from: by
  induction on the depth the running hash is that of the tree's node, as hashes are
  terms, so the proof ends at a leaf with its key and data. That is what makes a proof
  asked for by sequence number one of the attested ledger. `BundleInv` adds that the
  tree under construction is that of the entries listed so far. `ServedPathVerifies` and
  `LengthsReadBack` are about conversions: a path compressed, leaf first and turned
  again proves what it was made from, and a length of any size is read back from its
  prefix.

The prover has no induction theorem it could use for data; where a lemma needs
induction over a finite set or a bound (sums, largest and least elements, the number
of dealers, the depth of a tree, a call of a plan) it argues with a least
counterexample, from `WFMin`. `SafeProjection` and `SpvBundle` have recursive functions
and no recursive operators for this reason; that such a function exists and satisfies
its equation is proved as well (`HashesAre`, `OneRun`).

Only model-checked: liveness (`SubmissionEnds`, `RequestsFinish`,
`ConvergesToOneSequencer`, `ReservationsSettle`, `JoinConcludes`,
`LaggardStopsServing`, `ClockCatchesUp`, `ReplicaCatchesUp`), since the
prover does not handle fairness or ENABLED.

## 6. What is not modelled

* The enclave and the XRP Ledger beyond what section 3 lists: they are not in the
  repository. Margin arithmetic, position accounting and signatures are theirs.
* Cryptography, ABI, EIP-712 and JSON encodings, manifest parsing
  (`sign_descriptor.rs`, `quorum_bundle.rs`, `validator_manifests.rs`): pure data
  conversions covered by the repository's unit tests.
* Journal writes that fail (the code logs and goes on), and a
  corrupt journal (the process refuses to start).
* The page of 50 transactions `account_tx` returns to the withdrawal sweep: an entry
  whose Payment is not on it is deferred for ever (`withdrawal_reconcile.rs` 345).
* The funding timer across a failover: each node has its own, and what a second charge
  within the interval does is the enclave's.
* The route of a POST call, which is not in the signed preimage (`auth.rs` 432-437): the
  model has one route, so `CallsActForSigners` is about who and what, not where.
* The vault market maker: the process refuses to start with a vault
  (`vault_mm.rs` 93-122), so its loop never runs.
* Read-only endpoints, WebSocket fan-out, the shard router and the command-line
  tools: no state of their own. `path_a_redkg.rs`, `path_a_capacity.rs` and remote
  deployment: decisions over files and shells.
* Dialling, peer identities and gossip scores: libp2p's. The P2P loop's inline awaits
  of enclave calls (15 to 120 s against a heartbeat of 15 s) can delay heartbeats
  until a follower takes over; `Election` covers it as a late message.
* Equal priorities in the convergence run: two nodes of one priority whose
  announcements are lost both lead for ever, as heartbeats do not break ties.
  Operators assign distinct priorities; safety is proved without that assumption.

## 7. Disagreements met while modelling

Those with a run are the six violated properties above. The following are stated in
the modules, next to the code they are about, and TLC refutes them; they are kept out
of the suite.

* `Membership.RetryReachesLaggards`. A retry of a change that fell short reads the
  driver's own enclave, which is already one epoch on; the nodes that were missed
  refuse the new statement. `unl_policy.rs` 456, `membership_apply.rs` 203 and
  `membership_admin.rs` 284 and 639 call the retry safe and idempotent. Nothing keeps
  two admin requests apart either, and `reconcile_cluster` compares epoch numbers, not
  digests.
* `Dkg.OthersIgnored`. An error in a message of another ceremony aborts the active one
  (`dkg_coordinate.rs` 106-117), while `p2p.rs` 1073 says followers ignore such
  messages.
* `Deposits.PassedMeansCredited`. The scanner starts at the tip after a restart, takes
  an answer without transactions for an empty ledger, and only logs a transient
  refusal; `deposit_spv.rs` 727 says a skipped ledger is a deposit nobody will ever
  notice was lost.
* `Replication.QuietMeansEqual`. A close is replayed as an open and no counter moves;
  `main.rs` 2660 says a divergence stops being silent.
* `SafeProjection.AttestsWhatItSealed`. Members and epoch are read in two calls, so an
  attestation may name an epoch whose members were not compared (`safe_projection.rs`
  440). `SafeProjection.FiguresAreOnChain`: figures are cached before the submission
  (`reserves_publisher.rs` 169-190 against 20).
* `Migration.StateHeldAlways`: no lock on `/admin/migrate-state`, so a rehearsal's reset
  can empty what a real run has just imported and OLD was retired for. `StateHeld` is the
  same without that case. `RehearsalSound` fails when NEW's files were written twice
  between count and judgement: the number may be right by chance.
* `JoinBrain.NewcomerJoins` with a newcomer whose account sorts first, or a source that
  is out of sync when asked: only the source of rank zero answers a repeated request,
  since `served` is never cleared (`bootstrap_join.rs` 476), and the newcomer may hold
  that rank itself. One delivery that fails is then the last, and the newcomer halts for
  its operator, which is what `JoinEnds` admits.
* `Access.RevokedIsDead` without its premise: a rotation that is answered and not done,
  followed by a second check that fails with any other status, is reported as revoked
  (`session_key_revoke.rs` 280-284).
* `SigningRelay.RoutesForgotten`: the maps `pending_unl_policy`, `pending_unl_status` and
  `pending_spv_baseline` of `p2p.rs` are not swept (4012-4026).
* `SpvBundle`: a state bundle need not be about the escrow's own entry. The index comes
  from the server's answer and is not compared (`spv_proof.rs` 392-403, 1002-1006), so
  `BundleProvesTarget` says an entry of the attested ledger, and leaves the account to
  the enclave's own check. And `spv_proof.rs` 266 calls reaching depth 64 "impossible
  without a SHA-512 collision"; two keys that part at the last nibble reach it.

Seen and not stated as a property: one failed
status call keeps a node on the operator feed for the life of the process
(`main.rs` 3217, against the comment at 3199); liquidations use the last price fetched,
however old, after a re-promotion (`main.rs` 3368); the roster's version in force is
not kept across restarts (`main.rs` 2028, `operator_roster.rs` 83); any non-200 answer
to the check before a revocation is reported as an already dead credential
(`session_key_revoke.rs` 242); the legacy signer-list routes carry no bundle, so
cosigners always refuse them; and the dropped handler of a FROST round frees its claim
while its call may still land, which is why `UnverifiedOnlyAfterDrop` has its premise.
