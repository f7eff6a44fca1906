--------------------------------- MODULE Dkg ----------------------------------
(***************************************************************************)
(* The distributed key generation of the FROST group: a leader (the node   *)
(* whose operator called /admin/dkg/start) and one follower task per node  *)
(* exchange DkgStepMessages over gossip; the shares travel on a topic of   *)
(* their own and carry no ceremony id.  A node's own publications are not  *)
(* echoed to it, messages may arrive in any order or never, and each is    *)
(* processed at most once (the replay guard on ceremony, type and pid).    *)
(*                                                                         *)
(* A participant id is the position of its account in the sorted roster,   *)
(* so a participant is named by its account.  <<n, c>> is the polynomial   *)
(* n's enclave draws in ceremony c; a commitment names its polynomial, and *)
(* a group key is the set of the polynomials it sums.                      *)
(***************************************************************************)
EXTENDS Naturals, FiniteSets

CONSTANTS Dealers,   \* the operators' accounts
          Roster,    \* Roster[n]: the peers whose ECDH key n discovered
          Leaders,   \* the members whose operators may start a ceremony
          DkgIds,    \* ceremony ids, numbered from 1 in the order of their start
          Threshold, \* the threshold an operator asks for
          Faults,    \* how many enclave calls may fail and messages be lost
          InFlight   \* how many published messages may be under way

ASSUME DkgAssumption ==
    /\ IsFiniteSet(Dealers) /\ Leaders \subseteq Dealers
    /\ Roster \in [Dealers -> SUBSET Dealers] /\ DkgIds \subseteq Nat \ {0}
    /\ {Threshold, Faults, InFlight} \subseteq Nat

VARIABLES active,   \* active[n]: the ActiveCeremony of n, or NoCeremony
          session,  \* session[n]: the DKG session inside n's enclave
          groups,   \* groups[n]: the group keys n's enclave has sealed
          drive,    \* drive[c]: the leader's handler for ceremony c
          waiting,  \* waiting[n]: the ceremony whose shares n's follower awaits
          importing,\* importing[n]: the share n's importer has looked up
          net,      \* the published messages not yet delivered, one per recipient
          faults    \* calls that have failed, messages that were lost

dkgVars == <<active, session, groups, drive, waiting, importing, net, faults>>

Nobody == "none"
NoCeremony == [cer |-> 0, parts |-> {}, vss |-> {}, r1 |-> {}, r15 |-> {},
               r2 |-> {}, fin |-> {}, imported |-> {}]
NoSession == [own |-> <<Nobody, 0>>, got |-> {}]
NoDrive == [pc |-> "idle", leader |-> Nobody, sent15 |-> FALSE, sent2 |-> FALSE,
            sentFin |-> FALSE, group |-> {}]
NoImport == [from |-> Nobody, poly |-> <<Nobody, 0>>, vss |-> <<Nobody, 0>>, done |-> FALSE]

DkgInit ==
    /\ active = [n \in Dealers |-> NoCeremony]
    /\ session = [n \in Dealers |-> NoSession]
    /\ groups = [n \in Dealers |-> {}]
    /\ drive = [c \in DkgIds |-> NoDrive]
    /\ waiting = [n \in Dealers |-> 0]
    /\ importing = [n \in Dealers |-> NoImport]
    /\ net = {} /\ faults = 0

-------------------------------------------------------------------------------
(* Messages.                                                               *)

\* The wire form: every step carries its ceremony, except a share, which
\* carries only its sender (and, inside the envelope, its polynomial).
Step(type, c, from, val) == [type |-> type, cer |-> c, from |-> from, val |-> val]

\* A publication reaches every other subscriber; m.val differs by type.
Publish(from, msgs) ==
    {[to |-> t, msg |-> m] : t \in Dealers \ {from}, m \in msgs}

ToPeer(to, m) == [to |-> to, msg |-> m]

Sends(kept, msgs) ==
    Cardinality(kept \cup msgs) <= InFlight /\ net' = kept \cup msgs

\* An error in any step of a follower aborts the ceremony that is ACTIVE, which
\* need not be the one the failed message belongs to.
AbortActive(n) ==
    IF active[n] = NoCeremony THEN {}
    ELSE Publish(n, {Step("Abort", active[n].cer, n, {})})

-------------------------------------------------------------------------------
(* The four steps against the local enclave.  Each yields the messages it  *)
(* publishes; the follower task and the leader's handler share them.       *)

\* round1_start: the enclave draws a polynomial, which discards the session
\* before, and the node starts the record of the new ceremony.
Round1Start(n, m) ==
    LET poly == <<n, m.cer>> IN
    /\ session' = [session EXCEPT ![n] = [own |-> poly, got |-> {}]]
    /\ active' = [active EXCEPT ![n] =
         [NoCeremony EXCEPT !.cer = m.cer, !.parts = m.val, !.vss = {poly}, !.r1 = {n}]]
    /\ UNCHANGED <<groups, waiting, importing>>

\* round15_start: one share per other participant, each encrypted to the ECDH
\* key of its recipient; a recipient whose key is unknown ends the step with
\* an error after any of the other shares.
Round15Targets(n) == active[n].parts \ {n}
Round15Start(n) ==
    /\ active' = [active EXCEPT ![n].r15 = @ \cup {n}]
    /\ UNCHANGED <<session, groups, waiting, importing>>
Shares(n, targets) ==
    {ToPeer(t, Step("Share", 0, n, session[n].own)) : t \in targets}

\* round2_start, when the shares of all other participants are imported.
Round2Ready(n) == Cardinality(active[n].imported) >= Cardinality(active[n].parts) - 1
Round2Start(n, c) ==
    /\ active' = [active EXCEPT ![n].r2 = IF active[n].cer = c THEN @ \cup {n} ELSE @]
    /\ UNCHANGED <<session, groups, importing>>

\* finalize_start: the enclave seals a group key when its session holds a share
\* of every participant; the record keeps it for the leader's comparison.
SessionFull(n) == {p[1] : p \in session[n].got} = active[n].parts \ {n}
GroupKey(n) == session[n].got \cup {session[n].own}
FinalizeStart(n, c) ==
    /\ groups' = [groups EXCEPT ![n] = @ \cup {GroupKey(n)}]
    /\ active' = [active EXCEPT ![n].fin = @ \cup {<<n, GroupKey(n)>>}]
    /\ UNCHANGED <<session, waiting, importing>>

\* handle_message of the acknowledgements and of Abort: only for the ceremony
\* that is active, anything else is dropped without a trace.
Observe(n, m) ==
    LET a == active[n] IN
    CASE m.cer # a.cer           -> a
      [] m.type = "Round1Done"   -> [a EXCEPT !.vss = @ \cup {m.val}, !.r1 = @ \cup {m.from}]
      [] m.type = "Round15Done"  -> [a EXCEPT !.r15 = @ \cup {m.from}]
      [] m.type = "Round2Done"   -> [a EXCEPT !.r2 = @ \cup {m.from}]
      [] m.type = "FinalizeDone" -> [a EXCEPT !.fin = @ \cup {<<m.from, m.val>>}]
      [] OTHER                   -> NoCeremony

-------------------------------------------------------------------------------
(* The follower task: one message at a time.                               *)

Acks == {"Round1Done", "Round15Done", "Round2Done", "FinalizeDone", "Abort"}

\* Whether handling the start message m succeeds at n, the enclave permitting.
CanStep(n, m) ==
    CASE m.type = "Round1Start"   -> n \in m.val
      [] m.type = "Round15Start"  -> m.cer = active[n].cer /\ Round15Targets(n) \subseteq Roster[n]
      [] m.type = "FinalizeStart" -> m.cer = active[n].cer /\ SessionFull(n)
      [] OTHER                    -> m.cer = active[n].cer

Receivable(n, m) ==
    /\ ToPeer(n, m) \in net /\ m.type # "Share" /\ waiting[n] = 0

FollowAck(n, m) ==
    /\ Receivable(n, m) /\ m.type \in Acks
    /\ active' = [active EXCEPT ![n] = Observe(n, m)]
    /\ net' = net \ {ToPeer(n, m)}
    /\ UNCHANGED <<session, groups, drive, waiting, importing, faults>>

FollowStart(n, m) ==
    /\ Receivable(n, m) /\ m.type \notin Acks /\ CanStep(n, m)
    /\ \/ /\ m.type = "Round1Start" /\ Round1Start(n, m)
          /\ Sends(net \ {ToPeer(n, m)}, Publish(n, {Step("Round1Done", m.cer, n, <<n, m.cer>>)}))
       \/ /\ m.type = "Round15Start" /\ Round15Start(n)
          /\ Sends(net \ {ToPeer(n, m)}, Shares(n, Round15Targets(n))
                                          \cup Publish(n, {Step("Round15Done", m.cer, n, {})}))
       \/ /\ m.type = "Round2Start"
          /\ waiting' = [waiting EXCEPT ![n] = m.cer]
          /\ net' = net \ {ToPeer(n, m)}
          /\ UNCHANGED <<active, session, groups, importing>>
       \/ /\ m.type = "FinalizeStart" /\ FinalizeStart(n, m.cer)
          /\ Sends(net \ {ToPeer(n, m)}, Publish(n, {Step("FinalizeDone", m.cer, n, GroupKey(n))}))
    /\ UNCHANGED <<drive, faults>>

\* A start message that cannot be carried out, or whose enclave call fails:
\* run_follower reports the error as an Abort.  A share export that fails half
\* way has already sent some shares.
FollowError(n, m) ==
    /\ Receivable(n, m) /\ m.type \notin Acks
    /\ \/ ~CanStep(n, m) /\ faults' = faults
       \/ CanStep(n, m) /\ m.type # "Round2Start" /\ faults < Faults /\ faults' = faults + 1
    /\ \E sent \in SUBSET (Roster[n] \cap Round15Targets(n)) :
          /\ m.type # "Round15Start" \/ m.cer # active[n].cer => sent = {}
          /\ Sends(net \ {ToPeer(n, m)}, Shares(n, sent) \cup AbortActive(n))
    /\ UNCHANGED <<active, session, groups, drive, waiting, importing>>

\* The follower's wait for shares ends: all imported, or 30 s are over.
FollowRound2(n, late) ==
    /\ waiting[n] # 0 /\ Round2Ready(n) # late
    /\ waiting' = [waiting EXCEPT ![n] = 0]
    /\ IF late
       THEN Sends(net, AbortActive(n)) /\ UNCHANGED <<active, session, groups, importing>>
       ELSE /\ Round2Start(n, waiting[n])
            /\ Sends(net, Publish(n, {Step("Round2Done", waiting[n], n, {})}))
    /\ UNCHANGED <<drive, faults>>

-------------------------------------------------------------------------------
(* The share importer, a task of its own: it reads the sender's commitment *)
(* from the record, imports into the enclave without the lock, and marks   *)
(* whatever ceremony is active when the call returns.                      *)

LookUpShare(n, m) ==
    /\ ToPeer(n, m) \in net /\ m.type = "Share" /\ importing[n] = NoImport
    /\ LET known == {v \in active[n].vss : v[1] = m.from} IN
       importing' = [importing EXCEPT ![n] =
          IF known = {} THEN NoImport
          ELSE [NoImport EXCEPT !.from = m.from, !.poly = m.val,
                                !.vss = CHOOSE v \in known : TRUE]]
    /\ net' = net \ {ToPeer(n, m)}
    /\ UNCHANGED <<active, session, groups, drive, waiting, faults>>

\* The enclave accepts a share that lies on the committed polynomial, into
\* whatever session it holds by now.
ImportShare(n) ==
    LET i == importing[n]
        ok == i.poly = i.vss /\ session[n] # NoSession IN
    /\ i # NoImport /\ ~i.done
    /\ importing' = [importing EXCEPT ![n] = IF ok THEN [@ EXCEPT !.done = TRUE] ELSE NoImport]
    /\ session' = IF ok THEN [session EXCEPT ![n].got =
                                {p \in @ : p[1] # i.from} \cup {i.poly}]
                  ELSE session
    /\ UNCHANGED <<active, groups, drive, waiting, net, faults>>

\* The call has returned: the sender is marked in the ceremony active by now.
MarkImported(n) ==
    /\ importing[n].done
    /\ active' = [active EXCEPT ![n].imported =
                     IF active[n] = NoCeremony THEN @ ELSE @ \cup {importing[n].from}]
    /\ importing' = [importing EXCEPT ![n] = NoImport]
    /\ UNCHANGED <<session, groups, drive, waiting, net, faults>>

-------------------------------------------------------------------------------
(* The leader's handler.                                                   *)

\* build_pid_assignment and validate_threshold.
PidAssignment(d) == Roster[d] \cup {d}
ThresholdOk(d) == Threshold >= 2 /\ Threshold <= Cardinality(PidAssignment(d))

\* handle_start_dkg up to the publication of Round1Start.  The leader carries
\* each step out itself before it publishes the start message, so its own
\* acknowledgement is published first.
StartDkg(c, d) ==
    LET m == Step("Round1Start", c, d, PidAssignment(d)) IN
    /\ drive[c] = NoDrive /\ \A e \in DkgIds : e < c => drive[e] # NoDrive
    /\ ThresholdOk(d)
    /\ Round1Start(d, m)
    /\ Sends(net, Publish(d, {Step("Round1Done", c, d, <<d, c>>), m}))
    /\ drive' = [drive EXCEPT ![c] = [NoDrive EXCEPT !.pc = "drive", !.leader = d]]
    /\ UNCHANGED faults

Leading(c) == drive[c].pc = "drive" /\ active[drive[c].leader].cer = c
Everyone(c) == active[drive[c].leader].parts

\* The branches of drive_ceremony's poll, in their order.
DriveRound15(c) ==
    LET d == drive[c].leader
        ok == Round15Targets(d) \subseteq Roster[d] IN
    /\ Leading(c) /\ active[d].r1 = Everyone(c) /\ ~drive[c].sent15
    /\ drive' = [drive EXCEPT ![c].sent15 = TRUE]
    /\ IF ok THEN /\ Round15Start(d)
                  /\ Sends(net, Shares(d, Round15Targets(d)) \cup
                       Publish(d, {Step("Round15Done", c, d, {}), Step("Round15Start", c, d, {})}))
       ELSE UNCHANGED <<active, session, groups, waiting, importing, net>>
    /\ UNCHANGED faults

\* Round 2 first waits for the leader's own imports; when they do not come in
\* time the start message is never published.
DriveRound2(c, late) ==
    LET d == drive[c].leader IN
    /\ Leading(c) /\ drive[c].sent15 /\ active[d].r15 = Everyone(c) /\ ~drive[c].sent2
    /\ Round2Ready(d) # late
    /\ drive' = [drive EXCEPT ![c].sent2 = TRUE]
    /\ IF late THEN UNCHANGED <<active, session, groups, importing, net>>
       ELSE /\ Round2Start(d, c)
            /\ Sends(net, Publish(d, {Step("Round2Done", c, d, {}), Step("Round2Start", c, d, {})}))
    /\ UNCHANGED <<waiting, faults>>

DriveFinalize(c) ==
    LET d == drive[c].leader IN
    /\ Leading(c) /\ drive[c].sent2 /\ active[d].r2 = Everyone(c) /\ ~drive[c].sentFin
    /\ drive' = [drive EXCEPT ![c].sentFin = TRUE]
    /\ IF SessionFull(d)
       THEN /\ FinalizeStart(d, c)
            /\ Sends(net, Publish(d, {Step("FinalizeDone", c, d, GroupKey(d)),
                                      Step("FinalizeStart", c, d, {})}))
       ELSE UNCHANGED <<active, session, groups, waiting, importing, net>>
    /\ UNCHANGED faults

\* Mutant: the first key reported is taken for everybody's.
FirstKey(fin) == fin # {}

\* All have finalised: the keys are compared.
Consistent(fin) == \A f, g \in fin : f[2] = g[2]

DriveDone(c) ==
    LET fin == active[drive[c].leader].fin IN
    /\ Leading(c) /\ {f[1] : f \in fin} = Everyone(c)
    /\ drive' = [drive EXCEPT ![c] = IF Consistent(fin)
          THEN [NoDrive EXCEPT !.pc = "success", !.leader = drive[c].leader,
                               !.group = (CHOOSE f \in fin : TRUE)[2]]
          ELSE [NoDrive EXCEPT !.pc = "diverged"]]
    /\ active' = [active EXCEPT ![drive[c].leader] = NoCeremony]
    /\ UNCHANGED <<session, groups, waiting, importing, net, faults>>

\* CEREMONY_TIMEOUT_SECS: the handler answers "timeout" and leaves the record.
DriveTimeout(c) ==
    /\ drive[c].pc = "drive"
    /\ drive' = [drive EXCEPT ![c] = [NoDrive EXCEPT !.pc = "timeout"]]
    /\ UNCHANGED <<active, session, groups, waiting, importing, net, faults>>

\* Gossip gives no delivery guarantee.
LoseMessage(d) ==
    /\ faults < Faults /\ faults' = faults + 1
    /\ net' = net \ {d}
    /\ UNCHANGED <<active, session, groups, drive, waiting, importing>>

DkgNext ==
    \/ \E c \in DkgIds :
          \/ \E d \in Leaders : StartDkg(c, d)
          \/ DriveRound15(c)
          \/ \E late \in BOOLEAN : DriveRound2(c, late)
          \/ DriveFinalize(c) \/ DriveDone(c) \/ DriveTimeout(c)
    \/ \E n \in Dealers :
          \/ \E late \in BOOLEAN : FollowRound2(n, late)
          \/ ImportShare(n) \/ MarkImported(n)
    \/ \E d \in net :
          \/ FollowAck(d.to, d.msg)
          \/ FollowStart(d.to, d.msg)
          \/ FollowError(d.to, d.msg)
          \/ LookUpShare(d.to, d.msg)
          \/ LoseMessage(d)

DkgSpec == DkgInit /\ [][DkgNext]_dkgVars

-------------------------------------------------------------------------------
(* Properties.                                                             *)

\* A ceremony reported as a success has left the very group key it reports
\* sealed in the enclave of every participant (dkg_coordinate.rs:529, "Leader
\* asserts byte-identical group_pubkey"), although ceremonies overlap, shares
\* carry no ceremony id and the importer works beside the follower.
SuccessIsShared ==
    \A c \in DkgIds : drive[c].pc = "success" =>
        \A n \in PidAssignment(drive[c].leader) : drive[c].group \in groups[n]

\* p2p.rs:1073: "Followers ignore messages whose ceremony_id is not the one
\* they are currently processing."
OthersIgnored ==
    [][\A n \in Dealers : \A d \in net :
          /\ d.to = n /\ d \notin net' /\ d.msg.type \notin {"Share", "Round1Start"}
          /\ active[n] # NoCeremony /\ d.msg.cer # active[n].cer
          => net' \subseteq net]_dkgVars
===============================================================================
