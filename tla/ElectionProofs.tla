---------------------------- MODULE ElectionProofs ----------------------------
(***************************************************************************)
(* Proofs about Election for every cluster, every assignment of priorities *)
(* (ties included) and every pattern of crashes and message loss.          *)
(***************************************************************************)
EXTENDS Election, TLAPS

\* A node's broadcast never comes back to it.
NoSelfMessage == \A m \in net : m.from # m.to

ElectionInv == ElectionTypeOK /\ RoleMatchesLeader /\ NoSelfMessage

\* Ages saturate within their range.
LEMMA AgesType ==
    /\ 0 \in Ages
    /\ \A a \in Ages : Older(a) \in Ages
  BY ElectionAssumption DEF Ages, Older

\* What ElectionState::new sets.
LEMMA StartType ==
    ASSUME NEW n \in Nodes
    PROVE  /\ StartRole(n) \in Roles /\ StartLeader(n) \in Nodes \cup {None}
           /\ StartRole(n) = "Validator" => StartLeader(n) # n
           /\ StartRole(n) = "Sequencer" => Priority[n] = 0
  BY ElectionAssumption DEF StartRole, StartLeader, Roles

\* The initial state satisfies the invariant.
LEMMA ElectionInitInv == ElectionInit => ElectionInv
<1> SUFFICES ASSUME ElectionInit PROVE ElectionInv
  OBVIOUS
<1>1. ElectionTypeOK
  <2>1. role \in [Nodes -> Roles] /\ leader \in [Nodes -> Nodes \cup {None}]
    BY StartType DEF ElectionInit
  <2>2. age \in [Nodes -> Ages] /\ boot \in [Nodes -> Ages]
    BY AgesType DEF ElectionInit
  <2>3. crashes \in 0 .. MaxCrashes
    BY ElectionAssumption DEF ElectionInit
  <2>4. up \in [Nodes -> BOOLEAN] /\ grace \in [Nodes -> BOOLEAN] /\ stable \in BOOLEAN
    BY DEF ElectionInit
  <2>5. due \subseteq Nodes /\ net \subseteq Message
    BY DEF ElectionInit
  <2> QED
    BY <2>1, <2>2, <2>3, <2>4, <2>5 DEF ElectionTypeOK
<1>2. RoleMatchesLeader
  BY StartType DEF ElectionInit, RoleMatchesLeader, Roles
<1> QED
  BY <1>1, <1>2 DEF ElectionInit, ElectionInv, NoSelfMessage

\* A broadcast adds well-formed messages from its sender to other nodes.
LEMMA SendsType ==
    ASSUME NEW kind \in {"Heartbeat", "LeaderAnnounce"}, NEW n \in Nodes,
           NEW rest, rest \subseteq Message, \A m \in rest : m.from # m.to,
           Sends(kind, n, rest)
    PROVE  net' \subseteq Message /\ NoSelfMessage'
<1>1. PICK dest \in SUBSET {d \in Nodes \ {n} : up[d]} :
          net' = rest \cup {[kind |-> kind, from |-> n, to |-> d] : d \in dest}
  BY DEF Sends
<1> QED
  BY <1>1 DEF Message, NoSelfMessage

----------------------------------------------------------------------------
(* One lemma per handler. *)

\* A heartbeat keeps the invariant.
LEMMA SendHeartbeatInv ==
    ASSUME ElectionInv, NEW n \in Nodes, SendHeartbeat(n)
    PROVE  ElectionInv'
<1> USE DEF ElectionInv
<1>1. net' \subseteq Message /\ NoSelfMessage'
  BY SendsType DEF SendHeartbeat, ElectionTypeOK, NoSelfMessage
<1>2. ElectionTypeOK'
  BY <1>1 DEF SendHeartbeat, ElectionTypeOK
<1>3. RoleMatchesLeader'
  BY DEF SendHeartbeat, RoleMatchesLeader
<1> QED
  BY <1>1, <1>2, <1>3

\* Handling a message keeps the invariant.
LEMMA HandleMessageInv ==
    ASSUME ElectionInv, NEW m \in net, HandleMessage(m)
    PROVE  ElectionInv'
<1> USE DEF ElectionInv
<1> DEFINE n == m.to  p == m.from
<1>1. /\ n \in Nodes /\ p \in Nodes /\ p # n
      /\ Priority[n] \in Nat /\ Priority[p] \in Nat /\ None \notin Nodes
  BY ElectionAssumption DEF ElectionTypeOK, Message, NoSelfMessage
<1> HIDE DEF n, p
<1>2. /\ net' = net \ {m}
      /\ UNCHANGED <<up, due, stable, crashes>>
  BY DEF HandleMessage, HeartbeatInGrace, HeartbeatAdopted, HeartbeatKept,
         AnnounceAccepted, AnnounceIgnored, Receive
<1>3. /\ grace' \in [Nodes -> BOOLEAN] /\ role' \in [Nodes -> Roles]
      /\ leader' \in [Nodes -> Nodes \cup {None}]
      /\ age' \in [Nodes -> Ages] /\ boot' \in [Nodes -> Ages]
      /\ RoleMatchesLeader'
  <2> USE <1>1
  <2>0. 0 \in Ages /\ "Validator" \in Roles
    BY AgesType DEF Roles
  <2>1. CASE HeartbeatInGrace(m)
    <3>1. /\ grace' = [grace EXCEPT ![n] = FALSE] /\ boot' = [boot EXCEPT ![n] = 0]
          /\ leader' = [leader EXCEPT ![n] = p] /\ age' = [age EXCEPT ![n] = 0]
          /\ role' = IF Priority[p] < Priority[n]
                     THEN [role EXCEPT ![n] = "Validator"] ELSE role
          /\ grace[n]
      BY <2>1 DEF HeartbeatInGrace, Follow, YieldTo, n, p
    <3> QED
      BY <2>0, <3>1 DEF ElectionTypeOK, RoleMatchesLeader, Roles
  <2>2. CASE HeartbeatAdopted(m)
    <3>1. /\ UNCHANGED <<grace, boot>>
          /\ leader' = [leader EXCEPT ![n] = p] /\ age' = [age EXCEPT ![n] = 0]
          /\ role' = role \/ role' = [role EXCEPT ![n] = "Validator"]
          /\ leader[n] # None /\ ~(Priority[p] < Priority[n]) =>
                role' = role /\ Priority[p] < Priority[leader[n]]
          /\ leader[n] # None /\ Priority[p] < Priority[n] =>
                role' = [role EXCEPT ![n] = "Validator"]
          /\ ~grace[n]
      BY <2>2 DEF HeartbeatAdopted, Follow, YieldTo, Prefers, n, p
    <3>2. leader[n] # None
      BY <3>1 DEF RoleMatchesLeader
    <3> QED
      BY <2>0, <3>1, <3>2 DEF ElectionTypeOK, RoleMatchesLeader, Roles
  <2>3. CASE HeartbeatKept(m)
    <3>1. /\ UNCHANGED <<role, leader, grace, boot>>
          /\ age' = [age EXCEPT ![n] = IF leader[n] = p THEN 0 ELSE age[n]]
      BY <2>3 DEF HeartbeatKept, n, p
    <3> QED
      BY <2>0, <3>1 DEF ElectionTypeOK, RoleMatchesLeader
  <2>4. CASE AnnounceAccepted(m)
    <3>1. /\ UNCHANGED <<grace, boot>>
          /\ leader' = [leader EXCEPT ![n] = p] /\ age' = [age EXCEPT ![n] = 0]
          /\ role' = [role EXCEPT ![n] = "Validator"]
      BY <2>4 DEF AnnounceAccepted, Follow, n, p
    <3> QED
      BY <2>0, <3>1 DEF ElectionTypeOK, RoleMatchesLeader, Roles
  <2>5. CASE AnnounceIgnored(m)
    BY <2>5 DEF AnnounceIgnored, ElectionTypeOK, RoleMatchesLeader
  <2> QED
    BY <2>1, <2>2, <2>3, <2>4, <2>5 DEF HandleMessage
<1>4. ElectionTypeOK' /\ NoSelfMessage'
  BY <1>2, <1>3 DEF ElectionTypeOK, NoSelfMessage
<1> QED
  BY <1>3, <1>4

\* The timeout check, with its promotions, keeps the invariant.
LEMMA CheckTimeoutInv ==
    ASSUME ElectionInv, NEW n \in Nodes, CheckTimeout(n)
    PROVE  ElectionInv'
<1> USE DEF ElectionInv
<1>0. 0 \in Ages /\ "Sequencer" \in Roles /\ None # n
  BY AgesType, ElectionAssumption DEF Roles
<1>1. /\ boot' = [boot EXCEPT ![n] = 0] /\ UNCHANGED <<up, due, stable, crashes>>
  BY DEF CheckTimeout
<1>2. CASE Promote(n)
  <2>1. /\ leader' = [leader EXCEPT ![n] = n] /\ age' = [age EXCEPT ![n] = 0]
        /\ role' = [role EXCEPT ![n] = "Sequencer"]
    BY <1>2 DEF Promote
  <2>2. net' \subseteq Message /\ NoSelfMessage'
    BY <1>2, SendsType DEF Promote, ElectionTypeOK, NoSelfMessage
  <2>3. grace' = [grace EXCEPT ![n] = FALSE] \/ (grace' = grace /\ ~grace[n])
    BY DEF CheckTimeout, GraceOver, LeaderLost
  <2>4. ElectionTypeOK'
    BY <1>0, <1>1, <2>1, <2>2, <2>3 DEF ElectionTypeOK
  <2>5. RoleMatchesLeader'
    BY <1>0, <2>1, <2>3 DEF ElectionTypeOK, RoleMatchesLeader, Roles
  <2> QED
    BY <2>2, <2>4, <2>5
<1>3. CASE ~Promote(n)
  <2>1. /\ grace' = [grace EXCEPT ![n] = FALSE] /\ leader[n] # None
        /\ UNCHANGED <<leader, role, age, net>>
    BY <1>3 DEF CheckTimeout
  <2> QED
    BY <1>0, <1>1, <2>1 DEF ElectionTypeOK, RoleMatchesLeader, NoSelfMessage
<1> QED
  BY <1>2, <1>3

\* A crash, whose restart runs ElectionState::new, keeps the invariant.
LEMMA CrashInv ==
    ASSUME ElectionInv, NEW n \in Nodes, Crash(n)
    PROVE  ElectionInv'
<1> USE DEF ElectionInv
<1>1. ElectionTypeOK'
  <2>1. crashes' \in 0 .. MaxCrashes
    BY ElectionAssumption DEF Crash, ElectionTypeOK
  <2> QED
    BY <2>1, AgesType, StartType DEF Crash, ElectionTypeOK
<1>2. RoleMatchesLeader'
  BY StartType DEF Crash, ElectionTypeOK, RoleMatchesLeader, Roles
<1>3. NoSelfMessage'
  BY DEF Crash, NoSelfMessage
<1> QED
  BY <1>1, <1>2, <1>3

\* Every step keeps the invariant.
LEMMA ElectionNextInv ==
    ASSUME ElectionInv, [ElectionNext]_elVars
    PROVE  ElectionInv'
<1>1. ASSUME NEW n \in Nodes, SendHeartbeat(n) PROVE ElectionInv'
  BY <1>1, SendHeartbeatInv
<1>2. ASSUME NEW n \in Nodes, CheckTimeout(n) PROVE ElectionInv'
  BY <1>2, CheckTimeoutInv
<1>3. ASSUME NEW m \in net, HandleMessage(m) PROVE ElectionInv'
  BY <1>3, HandleMessageInv
<1>4. CASE PassInterval
  <2>1. age' \in [Nodes -> Ages] /\ boot' \in [Nodes -> Ages]
    BY <1>4, AgesType DEF PassInterval, ElectionInv, ElectionTypeOK
  <2> QED
    BY <1>4, <2>1 DEF PassInterval, LiveNodes, ElectionInv, ElectionTypeOK, RoleMatchesLeader, NoSelfMessage
<1>5. ASSUME NEW n \in Nodes, Crash(n) PROVE ElectionInv'
  BY <1>5, CrashInv
<1>6. ASSUME NEW n \in Nodes, Restart(n) PROVE ElectionInv'
  BY <1>6 DEF Restart, ElectionInv, ElectionTypeOK, RoleMatchesLeader, NoSelfMessage
<1>7. CASE Stabilise
  BY <1>7 DEF Stabilise, ElectionInv, ElectionTypeOK, RoleMatchesLeader, NoSelfMessage
<1>8. CASE UNCHANGED elVars
  BY <1>8 DEF elVars, ElectionInv, ElectionTypeOK, RoleMatchesLeader, NoSelfMessage
<1> QED
  BY <1>1, <1>2, <1>3, <1>4, <1>5, <1>6, <1>7, <1>8 DEF ElectionNext, Running

----------------------------------------------------------------------------
(* The theorems. *)

\* The inductive invariant holds of every behaviour.
THEOREM ElectionInvariant == ElectionSpec => []ElectionInv
<1>1. ElectionInit => ElectionInv
  BY ElectionInitInv
<1>2. ElectionInv /\ [ElectionNext]_elVars => ElectionInv'
  BY ElectionNextInv
<1> QED
  BY <1>1, <1>2, PTL DEF ElectionSpec

\* The role a node acts on and the leader it publishes always agree.
THEOREM ElectionRoleMatchesLeader == ElectionSpec => []RoleMatchesLeader
<1>1. ElectionInv => RoleMatchesLeader
  BY DEF ElectionInv
<1> QED
  BY <1>1, ElectionInvariant, PTL

\* A sequencer yields only to a node of better priority or, on an
\* announcement, of equal priority and lower id.
THEOREM ElectionYieldsOnlyUpward == ElectionSpec => YieldsOnlyUpward
<1>1. ASSUME ElectionInv, [ElectionNext]_elVars, NEW n \in Nodes,
             role[n] = "Sequencer", role'[n] = "Validator", up[n], up'[n]
      PROVE  Beats(leader'[n], n)
  <2>1. PICK m \in net : HandleMessage(m)
    <3>1. role' # role
      BY <1>1
    <3> QED
      BY <1>1, <3>1 DEF ElectionNext, Running, elVars, SendHeartbeat, CheckTimeout,
         Promote, PassInterval, Crash, Restart, Stabilise, ElectionInv, ElectionTypeOK
  <2>2. m.to = n
    BY <1>1, <2>1 DEF HandleMessage, HeartbeatInGrace, HeartbeatAdopted, HeartbeatKept,
       AnnounceAccepted, AnnounceIgnored, YieldTo, ElectionInv, ElectionTypeOK, Message
  <2>3. leader'[n] = m.from /\ Beats(m.from, n)
    BY <1>1, <2>1, <2>2 DEF HandleMessage, HeartbeatInGrace, HeartbeatAdopted,
       HeartbeatKept, AnnounceAccepted, AnnounceIgnored, YieldTo, Follow, Beats,
       ElectionInv, ElectionTypeOK
  <2> QED
    BY <2>3
<1>2. ElectionInv /\ [ElectionNext]_elVars =>
        [\A n \in Nodes :
            role[n] = "Sequencer" /\ role'[n] = "Validator" /\ up[n] /\ up'[n]
                => Beats(leader'[n], n)]_elVars
  BY <1>1
<1> QED
  BY <1>2, ElectionInvariant, PTL DEF ElectionSpec, YieldsOnlyUpward
============================================================================
