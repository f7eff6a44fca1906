----------------------------- MODULE SigningRelay -----------------------------
(***************************************************************************)
(* The signing topic of the P2P layer.  A task of one node hands its run   *)
(* loop a request; the loop signs its own part, publishes the request,     *)
(* remembers where answers go, and routes them there by request id.  Every *)
(* other node signs with its local enclave, at most once per request id    *)
(* and at most so often per window and neighbour.  Askers give up after a  *)
(* timeout; a periodic sweep then forgets their requests.                  *)
(***************************************************************************)
EXTENDS Naturals, FiniteSets

CONSTANTS Asker, Peers,
          Relays,      \* the requests: [id, kind, signer, sound]
          Cosigners,   \* the nodes with a cosigner configuration
          RateMax,     \* SIGNING_RATE_MAX_PER_WINDOW
          ReplayTtl,   \* SIGNING_REPLAY_TTL, in windows of a minute
          CopyLife,    \* how long the mesh may still deliver a copy, in minutes
          Batches,     \* which of them are made in one history
          MaxSlips,    \* bound on lost and repeated messages, failed publishes, restarts
          MaxMinutes   \* bound on the minutes of a history

Kinds == {"signing", "delegation", "epoch", "governance", "policy", "status", "baseline"}

ASSUME SigningRelayAssumption ==
    /\ Asker \notin Peers /\ Cosigners \subseteq Peers \cup {Asker}
    /\ \A r \in Relays : r.kind \in Kinds /\ r.sound \in BOOLEAN
    /\ Batches \subseteq SUBSET Relays /\ RateMax \in Nat /\ MaxSlips \in Nat
    \* The mesh, external, holds a message for less than the ten minutes of the guard.
    /\ ReplayTtl \in Nat /\ CopyLife \in Nat /\ CopyLife < ReplayTtl /\ MaxMinutes \in Nat

VARIABLES asked,     \* asked[r]: "never", "new", "waiting", "done" or "gone"
          routes,    \* the pending_* maps: requests whose answers have a channel
          air,       \* messages under way, [type, req, node], a request with its minute, at
          recentIds, \* recentIds[n]: recent_signing_requests, [req, at]
          taken,     \* taken[n]: requests counted in the current window
          minute,    \* the time
          signatures,\* signatures[n][r]: how often this process of n had r signed
          slips      \* mishaps that may still happen

relayVars == <<asked, routes, air, recentIds, taken, minute, signatures, slips>>

Signers == Peers \cup {Asker}

RelayInit ==
    /\ \E made \in Batches :
          asked = [r \in Relays |-> IF r \in made THEN "new" ELSE "never"]
    /\ routes = {} /\ air = {}
    /\ recentIds = [n \in Peers |-> {}] /\ taken = [n \in Peers |-> 0]
    /\ signatures = [n \in Signers |-> [r \in Relays |-> 0]]
    /\ slips = MaxSlips /\ minute = 0

Slip == slips > 0 /\ slips' = slips - 1

-------------------------------------------------------------------------------
(* What a node's own handler does with a request: "signed", "error",       *)
(* "unread" (the enclave signed, its answer was not understood), "report"  *)
(* or "silent".  What an answer says is the collectors' business.          *)

\* The local enclave may refuse, be unreachable, or answer what cannot be read.
AskEnclave == {"signed", "unread", "error"}

\* validate_signing_policy: a payment or a signer list of the escrow, in the shape
\* of a multi-signed transaction, for this signer.
SigningPolicy(n, r) == r.sound /\ r.signer = n

\* handle_signing_request: refused without the claim or the bundle.
HandleSigning(n, r) == IF SigningPolicy(n, r) THEN AskEnclave ELSE {"error"}

HandleDelegation(n, r) == AskEnclave
HandleEpoch(n, r) == AskEnclave
HandleGovernance(n, r) == AskEnclave

\* cosigner_accepts judges the anchor before the enclave is asked; a node without
\* the configuration does not answer.
HandlePolicy(n, r) ==
    IF n \notin Cosigners THEN {"silent"}
    ELSE IF r.sound THEN AskEnclave ELSE {"error"}

\* A report of the record this node holds: nothing is signed.
HandleStatus(n, r) == {"report", "error"}

\* The enclave checks the proof before it signs.
HandleBaseline(n, r) == IF r.sound THEN AskEnclave ELSE {"error"}

Outcomes(n, r) ==
    CASE r.kind = "signing"    -> HandleSigning(n, r)
      [] r.kind = "delegation" -> HandleDelegation(n, r)
      [] r.kind = "epoch"      -> HandleEpoch(n, r)
      [] r.kind = "governance" -> HandleGovernance(n, r)
      [] r.kind = "policy"     -> HandlePolicy(n, r)
      [] r.kind = "status"     -> HandleStatus(n, r)
      [] r.kind = "baseline"   -> HandleBaseline(n, r)

Count(n, r, outcome) ==
    signatures' = [signatures EXCEPT ![n][r] = @ + (IF outcome \in {"signed", "unread"} THEN 1 ELSE 0)]

-------------------------------------------------------------------------------
(* The asker's loop.                                                       *)

Publish(r) == air' = air \cup {[type |-> "request", req |-> r, node |-> n, at |-> minute] : n \in Peers}

\* A signing request for the node's own account is signed and answered on the spot.
RelayOwn(r, outcome) ==
    /\ asked[r] = "new" /\ r.kind = "signing" /\ r.signer = Asker
    /\ outcome \in HandleSigning(Asker, r)
    /\ Count(Asker, r, outcome)
    /\ asked' = [asked EXCEPT ![r] = "done"]
    /\ UNCHANGED <<routes, air, recentIds, taken, minute, slips>>

\* Any other one is published, and its route is kept only if that worked.
RelaySigning(r) ==
    /\ asked[r] = "new" /\ r.kind = "signing" /\ r.signer # Asker
    /\ \/ /\ Publish(r) /\ routes' = routes \cup {r}
          /\ asked' = [asked EXCEPT ![r] = "waiting"] /\ UNCHANGED slips
       \/ Slip /\ asked' = [asked EXCEPT ![r] = "done"] /\ UNCHANGED <<air, routes>>
    /\ UNCHANGED <<recentIds, taken, minute, signatures>>

\* The kinds that collect from everyone: the node's own answer goes first.
RelayCollect(r, outcome) ==
    /\ asked[r] = "new" /\ r.kind # "signing"
    /\ outcome \in Outcomes(Asker, r)
    /\ Count(Asker, r, outcome)
    /\ asked' = [asked EXCEPT ![r] = "waiting"]
    /\ \/ Publish(r) /\ routes' = routes \cup {r} /\ UNCHANGED slips
       \/ Slip /\ UNCHANGED <<air, routes>>
    /\ UNCHANGED <<recentIds, taken, minute>>

\* An answer is routed by its request id: a oneshot is used up, a collector's
\* channel stays.
RouteResponse(m) ==
    /\ m \in air /\ m.type = "response" /\ air' = air \ {m}
    /\ IF m.req \in routes /\ asked[m.req] = "waiting"
       THEN asked' = [asked EXCEPT ![m.req] = IF m.req.kind = "signing" THEN "done" ELSE @]
       ELSE UNCHANGED asked
    /\ routes' = IF m.req.kind = "signing" THEN routes \ {m.req} ELSE routes
    /\ UNCHANGED <<recentIds, taken, minute, signatures, slips>>

\* The asker's timeout: the receiver is dropped.
GiveUp(r) ==
    /\ asked[r] = "waiting" /\ asked' = [asked EXCEPT ![r] = "gone"]
    /\ UNCHANGED <<routes, air, recentIds, taken, minute, signatures, slips>>

\* The maps that the sweep looks at.
Sweeps(r) == r.kind \in {"signing", "delegation", "epoch", "governance"}

SweepRoutes ==
    /\ \E r \in routes : Sweeps(r) /\ asked[r] # "waiting"
    /\ routes' = {r \in routes : ~Sweeps(r) \/ asked[r] = "waiting"}
    /\ UNCHANGED <<asked, air, recentIds, taken, minute, signatures, slips>>

-------------------------------------------------------------------------------
(* The other nodes' loops.                                                 *)

\* check_signing_rate: one more request of this neighbour in the window.
WithinRate(n) == taken[n] < RateMax

\* Mutant: an id is forgotten as soon as the mesh has forgotten its message.
ExpiredEarly(i) == minute >= i.at + CopyLife

\* An entry of the replay guard that the next look at it purges.
Expired(i) == minute >= i.at + ReplayTtl

\* mark_signing_request_fresh.
Fresh(n, r) == \A i \in recentIds[n] : i.req = r => Expired(i)
Remember(n, r) ==
    {i \in recentIds[n] : ~Expired(i)} \cup (IF Fresh(n, r) THEN {[req |-> r, at |-> minute]} ELSE {})

\* A signing request for another account is ignored before it is counted.
Addressed(n, r) == r.kind # "signing" \/ r.signer = n

\* copy: the mesh has another copy of the message under way.
Receive(m, copy, outcome) ==
    LET n == m.node  r == m.req  serve == WithinRate(n) /\ Fresh(n, r) IN
    /\ m \in air /\ m.type = "request" /\ Addressed(n, r) /\ outcome \in Outcomes(n, r)
    /\ IF copy THEN Slip ELSE UNCHANGED slips
    /\ taken' = [taken EXCEPT ![n] = IF WithinRate(n) THEN @ + 1 ELSE @]
    /\ recentIds' = [recentIds EXCEPT ![n] = IF WithinRate(n) THEN Remember(n, r) ELSE @]
    /\ air' = (IF copy THEN air ELSE air \ {m}) \cup
                (IF serve /\ outcome # "silent"
                 THEN {[type |-> "response", req |-> r, node |-> n]} ELSE {})
    /\ Count(n, r, IF serve THEN outcome ELSE "dropped")
    /\ UNCHANGED <<asked, routes, minute>>

Ignore(m) ==
    /\ m \in air /\ m.type = "request" /\ ~Addressed(m.node, m.req)
    /\ air' = air \ {m}
    /\ UNCHANGED <<asked, routes, recentIds, taken, minute, signatures, slips>>

\* A minute passes: a new rate window, and the mesh drops what it has had too long.
PassMinute ==
    /\ minute < MaxMinutes /\ minute' = minute + 1
    /\ taken' = [n \in Peers |-> 0]
    /\ air' = {m \in air : m.type = "request" => minute' <= m.at + CopyLife}
    /\ UNCHANGED <<asked, routes, recentIds, signatures, slips>>

\* The process of a peer restarts: guard and rates are in memory.
RestartPeer(n) ==
    /\ Slip
    /\ recentIds' = [recentIds EXCEPT ![n] = {}] /\ taken' = [taken EXCEPT ![n] = 0]
    /\ signatures' = [signatures EXCEPT ![n] = [r \in Relays |-> 0]]
    /\ UNCHANGED <<asked, routes, air, minute>>

LoseMessage(m) ==
    /\ Slip /\ air' = air \ {m}
    /\ UNCHANGED <<asked, routes, recentIds, taken, minute, signatures>>

RelayNext ==
    \/ \E r \in Relays :
          \/ RelaySigning(r) \/ GiveUp(r)
          \/ \E o \in AskEnclave : RelayOwn(r, o)
          \/ \E o \in Outcomes(Asker, r) : RelayCollect(r, o)
    \/ \E m \in air : RouteResponse(m) \/ Ignore(m) \/ LoseMessage(m)
    \/ \E m \in air, copy \in BOOLEAN : \E o \in Outcomes(m.node, m.req) : Receive(m, copy, o)
    \/ SweepRoutes \/ PassMinute
    \/ \E n \in Peers : RestartPeer(n)

\* Askers have timeouts and the sweep is a timer of a loop that keeps running.
RelayFairness ==
    /\ WF_relayVars(SweepRoutes)
    /\ \A r \in Relays : WF_relayVars(GiveUp(r))

RelaySpec == RelayInit /\ [][RelayNext]_relayVars /\ RelayFairness

-------------------------------------------------------------------------------
(* Properties.                                                             *)

\* However often the mesh repeats a request, through whichever neighbour and in whatever
\* rate window, one process of a node has its enclave sign it once: no copy outlives the
\* entry in the replay guard, which is purged by age (p2p.rs:1814-1849).  A restart empties
\* the guard, and a copy that is still under way is signed again.
SignedOnce == \A n \in Signers : \A r \in Relays : signatures[n][r] <= 1

\* A route whose asker left is forgotten, whatever its kind (p2p.rs:4012-4026).  TLC
\* refutes it: the sweep does not look at the maps of policy, status and baseline
\* collections.
RoutesForgotten == []<>(\A r \in routes : asked[r] # "gone")
===============================================================================
