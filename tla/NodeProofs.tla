------------------------------ MODULE NodeProofs ------------------------------
(***************************************************************************)
(* Theorems about what a node does alone: whom it serves (Access), when it *)
(* charges funding (MainLoop), how often its enclave signs a relayed       *)
(* request (SigningRelay), and which deposits its monitor sees (Deposits). *)
(***************************************************************************)
EXTENDS Access, MainLoop, SigningRelay, Deposits, WellFoundedInduction, TLAPS

-------------------------------------------------------------------------------
(* Access.                                                                 *)

RevokeRecords ==
    [pc : {"idle", "check", "rotate", "dead", "recheck", "refused", "error", "still live", "revoked"},
     key : Nat, faults : Nat]

AccessTypeInv ==
    /\ now \in Nat /\ cred \in Nat
    /\ roster \in DOMAIN RosterVersions \cup {0}
    /\ rosterFile \in DOMAIN RosterVersions \cup {0}
    /\ \A s \in signed : s.ts \in Nat
    /\ \A x \in sessions : x.expires \in Nat
    /\ revoke \in RevokeRecords

\* A session was opened by a login that its account signed, and ends a session's
\* life and a drift after that signature at the latest.
SessionsSigned ==
    \A x \in sessions : \E s \in signed :
        /\ s.by = x.addr /\ s.pre = PublicPreimage(LoginCall)
        /\ x.expires <= s.ts + Drift + SessionTtl

\* The command rotates the key it found live, and without a fault that key is then dead.
RevokeInv ==
    /\ revoke.pc = "check" => revoke.faults = 0
    /\ revoke.pc = "rotate" => revoke.faults = 0 /\ cred = revoke.key
    /\ revoke.pc = "recheck" /\ revoke.faults = 0 => cred # revoke.key
    /\ RevokedIsDead

AccessInv == AccessTypeInv /\ SessionsSigned /\ CallsActForSigners /\ RevokeInv

\* A call stays accounted for while signatures are only added.
LEMMA ServedStays ==
    ASSUME CallsActForSigners, signed \subseteq signed', UNCHANGED served
    PROVE  CallsActForSigners'
BY DEF CallsActForSigners, ActsForItsSigner, AdminCallsSignedAsSuch, BindingsReverify,
       VerifyBinding, VerifySig

\* Sessions stay accounted for while signatures are only added and sessions only end.
LEMMA SessionsStay ==
    ASSUME SessionsSigned, signed \subseteq signed', sessions' \subseteq sessions
    PROVE  SessionsSigned'
BY DEF SessionsSigned

\* The initial state satisfies the invariant.
LEMMA AccessInitInv == AccessInit => AccessInv
BY AccessAssumption
DEF AccessInit, AccessInv, AccessTypeInv, SessionsSigned, CallsActForSigners, ActsForItsSigner,
    AdminCallsSignedAsSuch, BindingsReverify, RevokeInv, RevokedIsDead, NoRevoke, RevokeRecords

\* Steps that leave the command, the roster and the clock alone keep the type.
LEMMA AccessTypeStay ==
    ASSUME AccessTypeInv, UNCHANGED <<now, cred, revoke, roster, rosterFile, signed, sessions>>
    PROVE  AccessTypeInv'
BY DEF AccessTypeInv

\* Steps that leave the command alone keep what it reported.
LEMMA RevokedStay ==
    ASSUME RevokeInv, UNCHANGED credVars
    PROVE  RevokeInv'
BY DEF RevokeInv, RevokedIsDead, credVars

\* A login opens a session that its signature accounts for.
LEMMA LoginKeeps ==
    ASSUME AccessInv, NEW s \in signed, Login(s)
    PROVE  AccessInv'
<1>0. s.ts \in Nat /\ now \in Nat /\ SessionTtl \in Nat /\ Drift \in Nat
  BY AccessAssumption DEF AccessInv, AccessTypeInv
<1>1. PICK x : x = [addr |-> s.by, expires |-> now + SessionTtl]
  OBVIOUS
<1>2. x.addr = s.by /\ x.expires = now + SessionTtl
  BY <1>1
<1>3. sessions' = {y \in sessions : y.expires > now} \cup {x}
  BY <1>1 DEF Login, CreateSession
<1>4. now <= s.ts + Drift /\ s.pre = PublicPreimage(LoginCall)
  BY DEF Login, VerifyRequest, VerifySig
<1>5. UNCHANGED <<now, signed, roster, rosterFile, served, cred, revoke>>
  BY DEF Login, nodeVars, credVars
<1>6. AccessTypeInv'
  BY <1>0, <1>2, <1>3, <1>5 DEF AccessInv, AccessTypeInv
<1>7. SessionsSigned'
  <2> SUFFICES ASSUME NEW y \in sessions'
               PROVE  \E t \in signed : /\ t.by = y.addr /\ t.pre = PublicPreimage(LoginCall)
                                        /\ y.expires <= t.ts + Drift + SessionTtl
    BY <1>5 DEF SessionsSigned
  <2>1. CASE y = x
    BY <2>1, <1>0, <1>2, <1>4
  <2>2. CASE y \in sessions
    BY <2>2 DEF AccessInv, SessionsSigned
  <2> QED BY <2>1, <2>2, <1>3
<1>8. CallsActForSigners'
  BY <1>5, ServedStays DEF AccessInv
<1>9. RevokeInv'
  BY <1>5, RevokedStay DEF AccessInv, credVars
<1> QED BY <1>6, <1>7, <1>8, <1>9 DEF AccessInv

\* A call with a token acts for the account that signed the login.
LEMMA BearerKeeps ==
    ASSUME AccessInv, NEW x \in sessions, NEW c \in PublicCalls, BearerCall(x, c)
    PROVE  AccessInv'
<1>0. now \in Nat /\ SessionTtl \in Nat /\ Drift \in Nat /\ x.expires \in Nat
  BY AccessAssumption DEF AccessInv, AccessTypeInv
<1>1. PICK e : e = [by |-> x.addr, call |-> c, kind |-> "bearer", at |-> now, binding |-> {}]
  OBVIOUS
<1>2. e.by = x.addr /\ e.call = c /\ e.kind = "bearer" /\ e.at = now /\ e.binding = {}
  BY <1>1
<1>3. served' = {e}
  BY <1>1 DEF BearerCall, ServeCall
<1>4. UNCHANGED <<now, signed, sessions, roster, rosterFile, cred, revoke>>
  BY DEF BearerCall, nodeVars, credVars
<1>5. PICK s \in signed : s.by = x.addr /\ s.pre = PublicPreimage(LoginCall)
                          /\ x.expires <= s.ts + Drift + SessionTtl
  BY DEF AccessInv, SessionsSigned
<1>6. now < s.ts + Drift + SessionTtl
  <2>1. s.ts \in Nat
    BY DEF AccessInv, AccessTypeInv
  <2> QED BY <2>1, <1>0, <1>5 DEF BearerCall, LiveSession
<1>7. ActsForItsSigner'
  BY <1>2, <1>3, <1>4, <1>5, <1>6 DEF ActsForItsSigner
<1>8. AdminCallsSignedAsSuch' /\ BindingsReverify'
  BY <1>2, <1>3 DEF AdminCallsSignedAsSuch, BindingsReverify
<1>9. AccessTypeInv' /\ SessionsSigned' /\ RevokeInv'
  BY <1>4, AccessTypeStay, SessionsStay, RevokedStay DEF AccessInv, credVars
<1> QED BY <1>7, <1>8, <1>9 DEF AccessInv, CallsActForSigners

\* A signed call acts for its signer, and an order keeps a signature that verifies.
LEMMA SignedKeeps ==
    ASSUME AccessInv, NEW s \in signed, NEW c \in PublicCalls, SignedCall(s, c)
    PROVE  AccessInv'
<1>1. PICK e : e = [by |-> s.by, call |-> c, kind |-> "signed", at |-> now,
                    binding |-> IF c.method # "GET" /\ c.body # NoBody THEN {s} ELSE {}]
  OBVIOUS
<1>2. /\ e.by = s.by /\ e.call = c /\ e.kind = "signed" /\ e.at = now
      /\ e.binding = IF c.method # "GET" /\ c.body # NoBody THEN {s} ELSE {}
  BY <1>1
<1>3. served' = {e}
  BY <1>1 DEF SignedCall, ServeCall
<1>4. UNCHANGED <<now, signed, sessions, roster, rosterFile, cred, revoke>>
  BY DEF SignedCall, nodeVars, credVars
<1>5. now <= s.ts + Drift /\ s.pre = PublicPreimage(c)
  BY DEF SignedCall, VerifyRequest, VerifySig
<1>6. ActsForItsSigner'
  BY <1>2, <1>3, <1>4, <1>5 DEF ActsForItsSigner
<1>7. AdminCallsSignedAsSuch'
  BY <1>2, <1>3 DEF AdminCallsSignedAsSuch
<1>8. BindingsReverify'
  <2> SUFFICES ASSUME NEW b \in e.binding
               PROVE  b \in signed /\ b.pre[1] = "body" /\ b.by = c.body.user
    BY <1>2, <1>3, <1>4 DEF BindingsReverify, VerifyBinding, VerifySig
  <2>1. b = s /\ c.method # "GET" /\ c.body # NoBody
    BY <1>2
  <2>2. b.pre = <<"body", c.body>>
    BY <2>1, <1>5 DEF PublicPreimage
  <2>3. b.by = c.body.user
    BY <2>1 DEF SignedCall, OwnBody
  <2> QED BY <2>1, <2>2, <2>3
<1>9. AccessTypeInv' /\ SessionsSigned' /\ RevokeInv'
  BY <1>4, AccessTypeStay, SessionsStay, RevokedStay DEF AccessInv, credVars
<1> QED BY <1>6, <1>7, <1>8, <1>9 DEF AccessInv, CallsActForSigners

\* An admin call is one that an account of the roster in force signed as such.
LEMMA AdminKeeps ==
    ASSUME AccessInv, NEW s \in signed, NEW c \in AdminCalls, AdminCall(s, c)
    PROVE  AccessInv'
<1>1. PICK e : e = [by |-> s.by, call |-> c, kind |-> "admin", at |-> now, binding |-> {}]
  OBVIOUS
<1>2. e.by = s.by /\ e.call = c /\ e.kind = "admin" /\ e.at = now /\ e.binding = {}
  BY <1>1
<1>3. served' = {e}
  BY <1>1 DEF AdminCall, ServeCall
<1>4. UNCHANGED <<now, signed, sessions, roster, rosterFile, cred, revoke>>
  BY DEF AdminCall, nodeVars, credVars
<1>5. s.pre = AdminPreimage(c) /\ roster \in DOMAIN RosterVersions /\ s.by \in RosterVersions[roster]
  BY DEF AccessInv, AccessTypeInv, AdminCall, VerifyOperator, VerifyRequest, VerifySig, Allowlist
<1>6. ActsForItsSigner' /\ BindingsReverify'
  BY <1>2, <1>3 DEF ActsForItsSigner, BindingsReverify
<1>7. AdminCallsSignedAsSuch'
  BY <1>2, <1>3, <1>4, <1>5 DEF AdminCallsSignedAsSuch
<1>9. AccessTypeInv' /\ SessionsSigned' /\ RevokeInv'
  BY <1>4, AccessTypeStay, SessionsStay, RevokedStay DEF AccessInv, credVars
<1> QED BY <1>6, <1>7, <1>9 DEF AccessInv, CallsActForSigners

\* Every step keeps the invariant.
LEMMA AccessStepInv == AccessInv /\ [AccessNext]_accessVars => AccessInv'
<1> SUFFICES ASSUME AccessInv, [AccessNext]_accessVars PROVE AccessInv'
  OBVIOUS
<1>1. CASE Tick
  <2>1. AccessTypeInv'
    BY <1>1 DEF Tick, AccessInv, AccessTypeInv, nodeVars, credVars
  <2>2. UNCHANGED <<signed, sessions, served, cred, revoke>>
    BY <1>1 DEF Tick, credVars
  <2> QED BY <2>1, <2>2, ServedStays, SessionsStay, RevokedStay DEF AccessInv, credVars
<1>2. ASSUME NEW u \in Users, NEW pre \in Preimages, NEW ts \in 0 .. LastTime + Drift, Sign(u, pre, ts)
      PROVE  AccessInv'
  <2>0. ts \in Nat
    BY AccessAssumption
  <2>1. AccessTypeInv'
    BY <1>2, <2>0 DEF Sign, AccessInv, AccessTypeInv, nodeVars, credVars
  <2>2. signed \subseteq signed' /\ UNCHANGED <<sessions, served, cred, revoke>>
    BY <1>2 DEF Sign, credVars
  <2> QED BY <2>1, <2>2, ServedStays, SessionsStay, RevokedStay DEF AccessInv, credVars
<1>3. ASSUME NEW v \in DOMAIN RosterVersions, InstallRoster(v)
      PROVE  AccessInv'
  <2>1. AccessTypeInv'
    BY <1>3 DEF InstallRoster, AccessInv, AccessTypeInv, credVars
  <2>2. UNCHANGED <<signed, sessions, served, cred, revoke>>
    BY <1>3 DEF InstallRoster, credVars
  <2> QED BY <2>1, <2>2, ServedStays, SessionsStay, RevokedStay DEF AccessInv, credVars
<1>4. ASSUME NEW verified \in BOOLEAN, StartAdmin(verified)
      PROVE  AccessInv'
  <2>1. AccessTypeInv'
    BY <1>4 DEF StartAdmin, LoadRoster, AccessInv, AccessTypeInv, credVars
  <2>2. UNCHANGED <<signed, sessions, served, cred, revoke>>
    BY <1>4 DEF StartAdmin, credVars
  <2> QED BY <2>1, <2>2, ServedStays, SessionsStay, RevokedStay DEF AccessInv, credVars
<1>5. CASE StopNode
  <2>1. AccessTypeInv'
    BY <1>5 DEF StopNode, AccessInv, AccessTypeInv, credVars
  <2>2. sessions' = {} /\ UNCHANGED <<signed, served, cred, revoke>>
    BY <1>5 DEF StopNode, credVars
  <2> QED BY <2>1, <2>2, ServedStays, SessionsStay, RevokedStay DEF AccessInv, credVars
<1>6. ASSUME NEW what, TouchSocket(what)
      PROVE  AccessInv'
  <2>2. UNCHANGED <<now, signed, sessions, roster, rosterFile, served, cred, revoke>>
    BY <1>6 DEF TouchSocket, credVars
  <2> QED BY <2>2, AccessTypeStay, ServedStays, SessionsStay, RevokedStay DEF AccessInv, credVars
<1>7. ASSUME UNCHANGED <<now, signed, sessions, roster, rosterFile, served>>,
             cred' \in Nat, revoke' \in RevokeRecords,
             RevokeInv'
      PROVE  AccessInv'
  BY <1>7, ServedStays, SessionsStay DEF AccessInv, AccessTypeInv
<1>8. ASSUME NEW k \in {0, 1}, StartRevoke(k)
      PROVE  AccessInv'
  <2>1. /\ UNCHANGED <<now, signed, sessions, roster, rosterFile, served, cred>>
        /\ revoke' = [pc |-> "check", key |-> k, faults |-> 0]
    BY <1>8 DEF StartRevoke, nodeVars
  <2>2. revoke' \in RevokeRecords /\ revoke'.pc = "check" /\ revoke'.faults = 0
    BY <2>1 DEF RevokeRecords
  <2>3. cred' \in Nat
    BY <2>1 DEF AccessInv, AccessTypeInv
  <2> QED BY <1>7, <2>1, <2>2, <2>3 DEF RevokeInv, RevokedIsDead
<1>80. revoke \in RevokeRecords /\ revoke.faults \in Nat /\ revoke.key \in Nat /\ cred \in Nat
  BY DEF AccessInv, AccessTypeInv, RevokeRecords
<1>81. ASSUME NEW pc \in {"rotate", "dead", "recheck", "refused", "error", "still live", "revoked"},
              revoke' = [revoke EXCEPT !.pc = pc]
       PROVE  /\ revoke' \in RevokeRecords /\ revoke'.pc = pc /\ revoke'.key = revoke.key
              /\ revoke'.faults = revoke.faults
  BY <1>80, <1>81 DEF RevokeRecords
<1>82. ASSUME NEW pc \in {"dead", "recheck", "refused", "error", "revoked"},
              revoke' = [revoke EXCEPT !.pc = pc, !.faults = @ + 1]
       PROVE  /\ revoke' \in RevokeRecords /\ revoke'.pc = pc /\ revoke'.key = revoke.key
              /\ revoke'.faults = revoke.faults + 1
  <2>1. revoke.faults + 1 \in Nat
    BY <1>80
  <2> QED BY <1>80, <1>82, <2>1 DEF RevokeRecords
<1>9. CASE Precheck
  <2>1. UNCHANGED <<now, signed, sessions, roster, rosterFile, served, cred>> /\ revoke.pc = "check"
    BY <1>9 DEF Precheck, nodeVars
  <2>2. revoke.faults = 0
    BY <2>1 DEF AccessInv, RevokeInv
  <2>3. \/ Reaches("rotate") /\ cred = revoke.key
        \/ Reaches("dead") \/ Stumbles("dead") \/ Stumbles("error")
    BY <1>9 DEF Precheck
  <2>4. /\ revoke' \in RevokeRecords /\ revoke'.key = revoke.key
        /\ revoke'.pc \in {"rotate", "dead", "error"}
        /\ revoke'.pc = "rotate" => revoke'.faults = 0 /\ cred = revoke.key
    <3>1. CASE Reaches("rotate") /\ cred = revoke.key
      BY <1>81, <2>2, <3>1 DEF Reaches
    <3>2. CASE Reaches("dead")
      BY <1>81, <3>2 DEF Reaches
    <3>3. CASE Stumbles("dead") \/ Stumbles("error")
      BY <1>82, <3>3 DEF Stumbles
    <3> QED BY <2>3, <3>1, <3>2, <3>3
  <2>5. RevokeInv'
    BY <2>1, <2>4 DEF RevokeInv, RevokedIsDead
  <2> QED BY <1>7, <1>80, <2>1, <2>4, <2>5
<1>10. CASE Rotate
  <2>1. UNCHANGED <<now, signed, sessions, roster, rosterFile, served>> /\ revoke.pc = "rotate"
    BY <1>10 DEF Rotate, nodeVars
  <2>2. revoke.faults = 0 /\ cred = revoke.key
    BY <2>1 DEF AccessInv, RevokeInv
  <2>3. \/ cred' = cred + 1 /\ Reaches("recheck")
        \/ UNCHANGED cred /\ (Stumbles("refused") \/ Stumbles("recheck"))
        \/ cred' = cred + 1 /\ Stumbles("error")
    BY <1>10 DEF Rotate
  <2>4. /\ revoke' \in RevokeRecords /\ revoke'.key = revoke.key /\ cred' \in Nat
        /\ revoke'.pc \in {"recheck", "refused", "error"}
        /\ revoke'.faults = 1 \/ cred' = cred + 1
    <3>1. CASE cred' = cred + 1 /\ Reaches("recheck")
      <4>1. revoke' = [revoke EXCEPT !.pc = "recheck"]
        BY <3>1 DEF Reaches
      <4>2. revoke' \in RevokeRecords /\ revoke'.key = revoke.key /\ revoke'.pc = "recheck"
        BY <1>81, <4>1
      <4> QED BY <1>80, <3>1, <4>2
    <3>2. CASE UNCHANGED cred /\ (Stumbles("refused") \/ Stumbles("recheck"))
      BY <1>80, <1>82, <2>2, <3>2 DEF Stumbles
    <3>3. CASE cred' = cred + 1 /\ Stumbles("error")
      BY <1>80, <1>82, <3>3 DEF Stumbles
    <3> QED BY <2>3, <3>1, <3>2, <3>3
  <2>5. RevokeInv'
    BY <1>80, <2>2, <2>4 DEF RevokeInv, RevokedIsDead
  <2> QED BY <1>7, <2>1, <2>4, <2>5
<1>11. CASE Recheck
  <2>1. UNCHANGED <<now, signed, sessions, roster, rosterFile, served, cred>> /\ revoke.pc = "recheck"
    BY <1>11 DEF Recheck, nodeVars
  <2>2. revoke.faults = 0 => cred # revoke.key
    BY <2>1 DEF AccessInv, RevokeInv
  <2>3. \/ Reaches("still live")
        \/ Reaches("revoked") /\ cred # revoke.key
        \/ Stumbles("revoked") \/ Stumbles("error")
    <3>1. Reaches(Verdict) \/ Stumbles("revoked") \/ Stumbles("error")
      BY <1>11 DEF Recheck
    <3>2. CASE cred = revoke.key
      <4>1. Verdict = "still live"
        BY <3>2 DEF Verdict
      <4> QED BY <3>1, <4>1
    <3>3. CASE cred # revoke.key
      <4>1. Verdict = "revoked"
        BY <3>3 DEF Verdict
      <4> QED BY <3>1, <3>3, <4>1
    <3> QED BY <3>2, <3>3
  <2>4. /\ revoke' \in RevokeRecords /\ revoke'.key = revoke.key
        /\ revoke'.pc \in {"still live", "revoked", "error"}
        /\ revoke'.pc = "revoked" => cred # revoke.key \/ revoke'.faults = revoke.faults + 1
    <3>1. CASE Reaches("still live")
      BY <1>81, <3>1 DEF Reaches
    <3>2. CASE Reaches("revoked") /\ cred # revoke.key
      BY <1>81, <3>2 DEF Reaches
    <3>3. CASE Stumbles("revoked") \/ Stumbles("error")
      BY <1>82, <3>3 DEF Stumbles
    <3> QED BY <2>3, <3>1, <3>2, <3>3
  <2>5. RevokeInv'
    <3>1. revoke'.pc = "revoked" /\ revoke'.faults <= 1 => cred # revoke.key
      BY <1>80, <2>2, <2>4
    <3> QED BY <2>1, <2>4, <3>1 DEF RevokeInv, RevokedIsDead
  <2> QED BY <1>7, <1>80, <2>1, <2>4, <2>5
<1>12. CASE UNCHANGED accessVars
  <2>1. UNCHANGED <<now, signed, sessions, roster, rosterFile, served, cred, revoke>>
    BY <1>12 DEF accessVars
  <2> QED BY <2>1, AccessTypeStay, ServedStays, SessionsStay, RevokedStay DEF AccessInv, credVars
<1> QED
  BY <1>1, <1>2, <1>3, <1>4, <1>5, <1>6, <1>8, <1>9, <1>10, <1>11, <1>12,
     LoginKeeps, BearerKeeps, SignedKeeps, AdminKeeps DEF AccessNext

\* What holds in every state of a node's access control.
THEOREM AccessInvariant == AccessSpec => []AccessInv
BY AccessInitInv, AccessStepInv, PTL DEF AccessSpec

\* For every set of accounts, bodies and rosters: whatever a node serves was asked for
\* by the account it acts for, and an order carries the proof of it
\* (auth.rs:160-205, 479-515, 572-780).
THEOREM EveryCallSigned == AccessSpec => []CallsActForSigners
<1>1. AccessInv => CallsActForSigners
  BY DEF AccessInv
<1> QED BY <1>1, AccessInvariant, PTL

\* Whatever single fault the command meets: a pool credential reported as revoked is dead
\* (session_key_revoke.rs:201-287).
THEOREM RevokedKeysDead == AccessSpec => []RevokedIsDead
<1>1. AccessInv => RevokedIsDead
  BY DEF AccessInv, RevokeInv
<1> QED BY <1>1, AccessInvariant, PTL

-------------------------------------------------------------------------------
(* MainLoop.                                                               *)

TimerRecords == [price : Nat, liquidate : Nat, fund : Nat]
LoopRecords ==
    [at : {"idle", "path", "fetch", "push", "gate", "mark", "liquidate", "fund"}, seen : Nat,
     seq : BOOLEAN, path : {"unknown", "median", "operator"}, price : Nat, fetched : Nat,
     last : TimerRecords]

LoopTypeInv ==
    /\ time \in Nat \ {0} /\ flag \in [LoopNodes -> BOOLEAN]
    /\ loop \in [LoopNodes -> LoopRecords] /\ funded \in [LoopNodes -> SUBSET Nat]

\* The funding timer is running and has been started again by every charge.
FundingTimed ==
    \A n \in LoopNodes :
        /\ loop[n].last.fund > 0 /\ loop[n].last.fund <= time
        /\ \A t \in funded[n] : t <= loop[n].last.fund

LoopInv == LoopTypeInv /\ FundingTimed /\ FundingSpaced

\* A step that moves one loop, not its funding timer, keeps the invariant.
LEMMA TimerKept ==
    ASSUME LoopInv, NEW n \in LoopNodes, NEW l \in LoopRecords, l.last.fund = loop[n].last.fund,
           Move(n, l), UNCHANGED <<time, flag, funded>>
    PROVE  LoopInv'
<1>1. LoopTypeInv'
  BY DEF LoopInv, LoopTypeInv, Move
<1>2. \A m \in LoopNodes : loop'[m].last.fund = loop[m].last.fund
  BY DEF LoopInv, LoopTypeInv, Move
<1>3. FundingTimed'
  BY <1>2 DEF LoopInv, FundingTimed
<1> QED BY <1>1, <1>3 DEF LoopInv, FundingSpaced

\* A step that starts the timer again, and may charge at that moment when the
\* interval has passed, keeps the invariant.
LEMMA TimerStarted ==
    ASSUME LoopInv, NEW n \in LoopNodes, NEW l \in LoopRecords, l.last.fund = time, Move(n, l),
           UNCHANGED <<time, flag>>,
           \/ UNCHANGED funded
           \/ /\ time - loop[n].last.fund >= FundingEvery
              /\ funded' = [funded EXCEPT ![n] = @ \cup {time}]
    PROVE  LoopInv'
<1>0. time \in Nat \ {0} /\ FundingEvery \in Nat \ {0}
  BY MainLoopAssumption DEF LoopInv, LoopTypeInv
<1>1. LoopTypeInv'
  BY DEF LoopInv, LoopTypeInv, Move
<1>2. loop'[n] = l /\ \A m \in LoopNodes \ {n} : loop'[m] = loop[m]
  BY DEF LoopInv, LoopTypeInv, Move
<1>3. \A m \in LoopNodes \ {n} : funded'[m] = funded[m]
  BY DEF LoopInv, LoopTypeInv
<1>4. funded'[n] = funded[n] \/ (funded'[n] = funded[n] \cup {time}
                                  /\ time - loop[n].last.fund >= FundingEvery)
  BY DEF LoopInv, LoopTypeInv
<1>5. /\ loop[n].last.fund \in Nat /\ loop[n].last.fund <= time
      /\ \A t \in funded[n] : t \in Nat /\ t <= loop[n].last.fund
  BY DEF LoopInv, LoopTypeInv, FundingTimed, LoopRecords, TimerRecords
<1>6. \A t \in funded[n] : t <= time
  BY <1>0, <1>5
<1>7. FundingTimed'
  <2> SUFFICES ASSUME NEW m \in LoopNodes
               PROVE  /\ loop'[m].last.fund > 0 /\ loop'[m].last.fund <= time
                      /\ \A t \in funded'[m] : t <= loop'[m].last.fund
    BY DEF FundingTimed
  <2>1. CASE m = n
    BY <2>1, <1>0, <1>2, <1>4, <1>6
  <2>2. CASE m # n
    BY <2>2, <1>2, <1>3 DEF LoopInv, FundingTimed
  <2> QED BY <2>1, <2>2
<1>8. FundingSpaced'
  <2> SUFFICES ASSUME NEW m \in LoopNodes, NEW s \in funded'[m], NEW t \in funded'[m], s < t
               PROVE  t - s >= FundingEvery
    BY DEF FundingSpaced
  <2>1. CASE s \in funded[m] /\ t \in funded[m]
    BY <2>1 DEF LoopInv, FundingSpaced
  <2>2. CASE ~(s \in funded[m] /\ t \in funded[m])
    <3>1. m = n /\ time - loop[n].last.fund >= FundingEvery /\ (s = time \/ t = time)
          /\ (s = time \/ s \in funded[n]) /\ (t = time \/ t \in funded[n])
      BY <2>2, <1>3, <1>4
    <3>2. t = time /\ s \in funded[n]
      BY <3>1, <1>0, <1>5, <1>6
    <3> QED BY <3>1, <3>2, <1>0, <1>5
  <2> QED BY <2>1, <2>2
<1> QED BY <1>1, <1>7, <1>8 DEF LoopInv

\* The initial state satisfies the invariant.
LEMMA LoopInitInv == LoopInit => LoopInv
<1> SUFFICES ASSUME LoopInit PROVE LoopInv
  OBVIOUS
<1>1. PICK l : l = FreshLoop(1)
  OBVIOUS
<1>2. l \in LoopRecords /\ l.last.fund = 1
  BY <1>1 DEF FreshLoop, Timers, Never, LoopRecords, TimerRecords
<1>3. /\ time = 1 /\ flag \in [LoopNodes -> BOOLEAN] /\ loop = [n \in LoopNodes |-> l]
      /\ funded = [n \in LoopNodes |-> {}]
  BY <1>1 DEF LoopInit
<1> QED BY <1>2, <1>3 DEF LoopInv, LoopTypeInv, FundingTimed, FundingSpaced

\* Every step keeps the invariant.
LEMMA LoopStepInv == LoopInv /\ [LoopNext]_loopVars => LoopInv'
<1> SUFFICES ASSUME LoopInv, [LoopNext]_loopVars PROVE LoopInv'
  OBVIOUS
<1>1. CASE Tock
  <2>1. time' = time + 1 /\ UNCHANGED <<flag, loop, funded>>
    BY <1>1 DEF Tock
  <2>2. time \in Nat \ {0} /\ \A n \in LoopNodes : loop[n].last.fund \in Nat
    BY DEF LoopInv, LoopTypeInv, LoopRecords, TimerRecords
  <2>3. LoopTypeInv'
    BY <2>1, <2>2 DEF LoopInv, LoopTypeInv
  <2>4. FundingTimed'
    BY <2>1, <2>2 DEF LoopInv, FundingTimed
  <2> QED BY <2>1, <2>3, <2>4 DEF LoopInv, FundingSpaced
<1>2. ASSUME NEW n \in LoopNodes, WatchFlag(n) PROVE LoopInv'
  BY <1>2 DEF WatchFlag, LoopInv, LoopTypeInv, FundingTimed, FundingSpaced
<1>3. ASSUME NEW n \in LoopNodes, RestartLoop(n) PROVE LoopInv'
  <2>1. PICK l : l = FreshLoop(time)
    OBVIOUS
  <2>2. l \in LoopRecords /\ l.last.fund = time
    BY <2>1 DEF FreshLoop, Timers, Never, LoopRecords, TimerRecords, LoopInv, LoopTypeInv
  <2>3. Move(n, l) /\ UNCHANGED <<time, flag, funded>>
    BY <1>3, <2>1 DEF RestartLoop
  <2> QED BY <2>2, <2>3, TimerStarted
<1>4. ASSUME NEW n \in LoopNodes PROVE loop[n] \in LoopRecords /\ time \in Nat
  BY DEF LoopInv, LoopTypeInv
<1>5. ASSUME NEW n \in LoopNodes, StartTick(n) PROVE LoopInv'
  <2>1. PICK p \in {"path", "gate"} :
           Move(n, [loop[n] EXCEPT !.seen = time, !.seq = flag[n], !.fetched = Never, !.at = p])
    BY <1>5 DEF StartTick
  <2>2. flag[n] \in BOOLEAN
    BY DEF LoopInv, LoopTypeInv
  <2>3. PICK l : l = [loop[n] EXCEPT !.seen = time, !.seq = flag[n], !.fetched = Never, !.at = p]
    OBVIOUS
  <2>4. l \in LoopRecords /\ l.last.fund = loop[n].last.fund
    BY <1>4, <2>2, <2>3 DEF LoopRecords, Never
  <2> QED BY <2>1, <2>3, <2>4, <1>5, TimerKept DEF StartTick
<1>6. ASSUME NEW n \in LoopNodes, DerivePath(n) PROVE LoopInv'
  <2>1. PICK p \in {loop[n].path, "unknown", "median", "operator"} :
           Move(n, [loop[n] EXCEPT !.at = "fetch", !.path = p])
    <3>1. CASE loop[n].path # "unknown"
      <4>1. [loop[n] EXCEPT !.at = "fetch"] = [loop[n] EXCEPT !.at = "fetch", !.path = loop[n].path]
        BY <1>4 DEF LoopRecords
      <4> QED BY <4>1, <3>1, <1>6 DEF DerivePath
    <3>2. CASE loop[n].path = "unknown"
      <4>1. PICK q \in Paths(n) : Move(n, [loop[n] EXCEPT !.at = "fetch", !.path = q[1]])
        BY <3>2, <1>6 DEF DerivePath
      <4>2. q[1] \in {"unknown", "median", "operator"}
        <5>1. \/ q = <<"median", TRUE>> \/ q = <<"operator", TRUE>>
              \/ q = <<"unknown", FALSE>> \/ q = <<"operator", FALSE>>
          BY DEF Paths
        <5>2. CASE q = <<"median", TRUE>>
          BY <5>2
        <5>3. CASE q = <<"operator", TRUE>>
          BY <5>3
        <5>4. CASE q = <<"unknown", FALSE>>
          BY <5>4
        <5>5. CASE q = <<"operator", FALSE>>
          BY <5>5
        <5> QED BY <5>1, <5>2, <5>3, <5>4, <5>5
      <4> QED BY <4>1, <4>2
    <3> QED BY <3>1, <3>2
  <2>2. PICK l : l = [loop[n] EXCEPT !.at = "fetch", !.path = p]
    OBVIOUS
  <2>3. l \in LoopRecords /\ l.last.fund = loop[n].last.fund
    BY <1>4, <2>2 DEF LoopRecords
  <2> QED BY <2>1, <2>2, <2>3, <1>6, TimerKept DEF DerivePath
<1>7. ASSUME NEW n \in LoopNodes, FetchPrice(n) PROVE LoopInv'
  <2>1. PICK got \in {time, Never}, p \in {"push", "gate"} :
           Move(n, [loop[n] EXCEPT !.fetched = got, !.last.price = time, !.at = p])
    BY <1>7 DEF FetchPrice
  <2>2. PICK l : l = [loop[n] EXCEPT !.fetched = got, !.last.price = time, !.at = p]
    OBVIOUS
  <2>3. PICK t : t = [loop[n].last EXCEPT !.price = time]
    OBVIOUS
  <2>4. t \in TimerRecords /\ t.fund = loop[n].last.fund
    BY <1>4, <2>3 DEF LoopRecords, TimerRecords
  <2>5. l = [loop[n] EXCEPT !.fetched = got, !.last = t, !.at = p]
    BY <2>2, <2>3
  <2>6. l \in LoopRecords /\ l.last = t
    <3>1. got \in Nat
      BY <1>4 DEF Never
    <3> QED BY <1>4, <2>4, <2>5, <3>1 DEF LoopRecords
  <2> QED BY <2>1, <2>2, <2>4, <2>6, <1>7, TimerKept DEF FetchPrice
<1>8. ASSUME NEW n \in LoopNodes, NEW p \in {"gate", "mark", "idle", "fund"},
             Move(n, [loop[n] EXCEPT !.at = p]), UNCHANGED <<time, flag, funded>>
      PROVE  LoopInv'
  <2>1. PICK l : l = [loop[n] EXCEPT !.at = p]
    OBVIOUS
  <2>2. l \in LoopRecords /\ l.last.fund = loop[n].last.fund
    BY <1>4, <2>1 DEF LoopRecords
  <2> QED BY <2>1, <2>2, <1>8, TimerKept
<1>9. ASSUME NEW n \in LoopNodes, PushSignedMedianQuote(n) PROVE LoopInv'
  BY <1>8, <1>9 DEF PushSignedMedianQuote
<1>10. ASSUME NEW n \in LoopNodes, SequencerGate(n) PROVE LoopInv'
  BY <1>8, <1>10 DEF SequencerGate
<1>11. ASSUME NEW n \in LoopNodes, UpdatePrice(n) PROVE LoopInv'
  <2>1. PICK p \in {loop[n].price, loop[n].fetched} :
           Move(n, [loop[n] EXCEPT !.at = "liquidate", !.price = p])
    BY <1>11 DEF UpdatePrice
  <2>2. PICK l : l = [loop[n] EXCEPT !.at = "liquidate", !.price = p]
    OBVIOUS
  <2>3. l \in LoopRecords /\ l.last.fund = loop[n].last.fund
    BY <1>4, <2>2 DEF LoopRecords
  <2> QED BY <2>1, <2>2, <2>3, <1>11, TimerKept DEF UpdatePrice
<1>12. ASSUME NEW n \in LoopNodes, RunLiquidationScan(n) PROVE LoopInv'
  <2>1. CASE Move(n, [loop[n] EXCEPT !.at = "fund", !.last.liquidate = time])
    <3>2. PICK l : l = [loop[n] EXCEPT !.at = "fund", !.last.liquidate = time]
      OBVIOUS
    <3>3. PICK t : t = [loop[n].last EXCEPT !.liquidate = time]
      OBVIOUS
    <3>4. t \in TimerRecords /\ t.fund = loop[n].last.fund
      BY <1>4, <3>3 DEF LoopRecords, TimerRecords
    <3>5. l = [loop[n] EXCEPT !.at = "fund", !.last = t]
      BY <3>2, <3>3
    <3>6. l \in LoopRecords /\ l.last = t
      BY <1>4, <3>4, <3>5 DEF LoopRecords
    <3> QED BY <2>1, <3>2, <3>4, <3>6, <1>12, TimerKept DEF RunLiquidationScan
  <2>2. CASE Move(n, [loop[n] EXCEPT !.at = "fund"])
    BY <2>2, <1>8, <1>12 DEF RunLiquidationScan
  <2> QED BY <2>1, <2>2, <1>12 DEF RunLiquidationScan
<1>13. ASSUME NEW n \in LoopNodes, ApplyFunding(n) PROVE LoopInv'
  <2>1. CASE Elapsed(n, "fund", FundingEvery) /\ loop[n].price # Never
    <3>1. PICK l : l = [loop[n] EXCEPT !.at = "idle", !.last.fund = time]
      OBVIOUS
    <3>2. l \in LoopRecords /\ l.last.fund = time
      <4>1. PICK t : t = [loop[n].last EXCEPT !.fund = time]
        OBVIOUS
      <4>2. t \in TimerRecords /\ t.fund = time
        BY <1>4, <4>1 DEF LoopRecords, TimerRecords
      <4>3. l = [loop[n] EXCEPT !.at = "idle", !.last = t]
        BY <3>1, <4>1
      <4> QED BY <1>4, <4>2, <4>3 DEF LoopRecords
    <3>3. time - loop[n].last.fund >= FundingEvery
      <4>1. loop[n].last.fund # Never
        BY DEF LoopInv, FundingTimed, Never
      <4>2. loop[n].last["fund"] = loop[n].last.fund
        OBVIOUS
      <4> QED BY <2>1, <4>1, <4>2 DEF Elapsed
    <3>4. /\ Move(n, l) /\ UNCHANGED <<time, flag>>
          /\ funded' \in {funded, [funded EXCEPT ![n] = @ \cup {time}]}
      BY <2>1, <3>1, <1>13 DEF ApplyFunding
    <3> QED BY <3>2, <3>3, <3>4, TimerStarted
  <2>2. CASE ~(Elapsed(n, "fund", FundingEvery) /\ loop[n].price # Never)
    BY <2>2, <1>8, <1>13 DEF ApplyFunding
  <2> QED BY <2>1, <2>2
<1>14. CASE UNCHANGED loopVars
  <2>1. UNCHANGED <<time, flag, loop, funded>>
    BY <1>14 DEF loopVars
  <2> QED BY <2>1 DEF LoopInv, LoopTypeInv, FundingTimed, FundingSpaced
<1> QED
  BY <1>1, <1>2, <1>3, <1>5, <1>6, <1>7, <1>9, <1>10, <1>11, <1>12, <1>13, <1>14 DEF LoopNext

\* However many nodes run the loop and whatever the intervals are: no enclave is charged
\* funding twice within an interval (main.rs:3381-3435).
THEOREM FundingIsSpaced == LoopSpec => []FundingSpaced
<1>1. LoopInv => FundingSpaced
  BY DEF LoopInv
<1> QED BY <1>1, LoopInitInv, LoopStepInv, PTL DEF LoopSpec

-------------------------------------------------------------------------------
(* SigningRelay.                                                           *)

RelayTypeInv ==
    /\ asked \in [Relays -> {"never", "new", "waiting", "done", "gone"}]
    /\ signatures \in [Signers -> [Relays -> Nat]]
    /\ recentIds \in [Peers -> SUBSET [req : Relays, at : Nat]]
    /\ minute \in Nat
    /\ \A m \in air : m.req \in Relays /\ m.node \in Peers

Made(r) == asked[r] \notin {"never", "new"}

\* Nothing is under way, and nobody has signed, before a request is made.
NothingBefore ==
    \A r \in Relays : ~Made(r) =>
        /\ \A m \in air : m.type = "request" => m.req # r
        /\ \A n \in Signers : signatures[n][r] = 0

\* The mesh holds no request for longer than CopyLife.
CopiesYoung ==
    \A m \in air : m.type = "request" => m.at \in Nat /\ m.at <= minute /\ minute <= m.at + CopyLife

\* Of a request that a process has signed, every copy that is left is as old as the
\* entry in its replay guard.
GuardOutlives ==
    \A n \in Peers, r \in Relays : signatures[n][r] # 0 =>
        \A m \in air : m.type = "request" /\ m.req = r =>
            \E i \in recentIds[n] : i.req = r /\ m.at <= i.at

RelayInv == RelayTypeInv /\ NothingBefore /\ CopiesYoung /\ GuardOutlives /\ SignedOnce

\* The initial state satisfies the invariant.
LEMMA RelayInitInv == RelayInit => RelayInv
BY DEF RelayInit, RelayInv, RelayTypeInv, NothingBefore, CopiesYoung, GuardOutlives,
       SignedOnce, Signers

\* A step that signs nothing, publishes nothing and forgets no entry of the guard that a
\* copy under way may still meet keeps the invariant.
LEMMA QuietStep ==
    ASSUME RelayInv, UNCHANGED <<signatures, minute>>,
           asked' \in [Relays -> {"never", "new", "waiting", "done", "gone"}],
           \A r \in Relays : Made(r) => Made(r)',
           recentIds' \in [Peers -> SUBSET [req : Relays, at : Nat]],
           \A m \in air' : m.req \in Relays /\ m.node \in Peers,
           \A m \in air' : m.type = "request" => m \in air,
           \A n \in Peers : \A i \in recentIds[n] : i \in recentIds'[n] \/ minute >= i.at + ReplayTtl
    PROVE  RelayInv'
<1>1. RelayTypeInv'
  BY DEF RelayInv, RelayTypeInv
<1>2. NothingBefore'
  BY DEF RelayInv, NothingBefore
<1>3. GuardOutlives'
  <2> SUFFICES ASSUME NEW n \in Peers, NEW r \in Relays, signatures[n][r] # 0,
                      NEW m \in air', m.type = "request", m.req = r
               PROVE  \E i \in recentIds'[n] : i.req = r /\ m.at <= i.at
    BY DEF GuardOutlives
  <2>1. m \in air /\ m.at \in Nat /\ minute <= m.at + CopyLife /\ minute \in Nat
    BY DEF RelayInv, CopiesYoung, RelayTypeInv
  <2>2. PICK i \in recentIds[n] : i.req = r /\ m.at <= i.at
    BY <2>1 DEF RelayInv, GuardOutlives
  <2>3. i.at \in Nat
    BY <2>2 DEF RelayInv, RelayTypeInv
  <2>4. ~(minute >= i.at + ReplayTtl)
    BY <2>1, <2>2, <2>3, SigningRelayAssumption
  <2> QED BY <2>2, <2>4
<1>4. SignedOnce'
  BY DEF RelayInv, SignedOnce
<1>5. CopiesYoung'
  BY DEF RelayInv, CopiesYoung
<1> QED BY <1>1, <1>2, <1>3, <1>4, <1>5 DEF RelayInv

\* What Count does: one more signature, or none, of one node for one request.
LEMMA CountAdds ==
    ASSUME RelayTypeInv, NEW n \in Signers, NEW r \in Relays, NEW outcome, Count(n, r, outcome)
    PROVE  /\ signatures' \in [Signers -> [Relays -> Nat]]
           /\ \A i \in Signers, q \in Relays : i # n \/ q # r => signatures'[i][q] = signatures[i][q]
           /\ signatures'[n][r] \in {signatures[n][r], signatures[n][r] + 1}
           /\ outcome \notin {"signed", "unread"} => UNCHANGED signatures
<1>1. PICK k \in {0, 1} : /\ signatures' = [signatures EXCEPT ![n][r] = @ + k]
                          /\ outcome \notin {"signed", "unread"} => k = 0
  BY DEF Count
<1>2. signatures \in [Signers -> [Relays -> Nat]] /\ signatures[n][r] \in Nat
  BY DEF RelayTypeInv
<1>3. \A i \in Signers, q \in Relays :
         signatures'[i][q] = IF i = n /\ q = r THEN signatures[n][r] + k ELSE signatures[i][q]
  BY <1>1, <1>2
<1>4. signatures' \in [Signers -> [Relays -> Nat]]
  BY <1>1, <1>2
<1>5. k = 0 => signatures' = signatures
  BY <1>2, <1>3, <1>4
<1> QED BY <1>1, <1>2, <1>3, <1>4, <1>5

\* The asker's loop takes up a request: nobody has signed it, no copy is under way.
LEMMA TakenUp ==
    ASSUME RelayInv, NEW r \in Relays, asked[r] = "new",
           asked' = [asked EXCEPT ![r] = "waiting"] \/ asked' = [asked EXCEPT ![r] = "done"],
           \/ UNCHANGED signatures
           \/ \E outcome : Count(Asker, r, outcome),
           UNCHANGED <<recentIds, minute>>,
           UNCHANGED air \/ Publish(r)
    PROVE  RelayInv'
<1>1. /\ signatures' \in [Signers -> [Relays -> Nat]]
      /\ \A i \in Signers, q \in Relays : i # Asker \/ q # r => signatures'[i][q] = signatures[i][q]
      /\ signatures'[Asker][r] \in {signatures[Asker][r], signatures[Asker][r] + 1}
  <2>1. Asker \in Signers
    BY DEF Signers
  <2>2. RelayTypeInv
    BY DEF RelayInv
  <2> QED BY <2>1, <2>2, CountAdds DEF RelayTypeInv
<1>2. \A i \in Signers : signatures[i][r] = 0
  BY DEF RelayInv, NothingBefore, Made
<1>3. /\ asked' \in [Relays -> {"never", "new", "waiting", "done", "gone"}]
      /\ asked'[r] \in {"waiting", "done"} /\ \A q \in Relays \ {r} : asked'[q] = asked[q]
  BY DEF RelayInv, RelayTypeInv
<1>4. \A m \in air' : m \in air \/ (m.req = r /\ m.node \in Peers /\ m.at = minute)
  BY DEF Publish
<1>5. RelayTypeInv'
  BY <1>1, <1>3, <1>4 DEF RelayInv, RelayTypeInv
<1>6. NothingBefore'
  <2> SUFFICES ASSUME NEW q \in Relays, ~Made(q)'
               PROVE  /\ \A m \in air' : m.type = "request" => m.req # q
                      /\ \A n \in Signers : signatures'[n][q] = 0
    BY DEF NothingBefore
  <2>1. q # r /\ ~Made(q)
    BY <1>3 DEF Made
  <2> QED BY <2>1, <1>1, <1>4 DEF RelayInv, NothingBefore
<1>7. GuardOutlives'
  <2> SUFFICES ASSUME NEW n \in Peers, NEW q \in Relays, signatures'[n][q] # 0
               PROVE  \A m \in air' : m.type = "request" /\ m.req = q =>
                         \E i \in recentIds[n] : i.req = q /\ m.at <= i.at
    BY DEF GuardOutlives
  <2>1. n \in Signers /\ n # Asker
    BY SigningRelayAssumption DEF Signers
  <2>2. q # r /\ signatures[n][q] # 0
    BY <2>1, <1>1, <1>2
  <2> QED BY <2>2, <1>4 DEF RelayInv, GuardOutlives
<1>8. SignedOnce'
  BY <1>1, <1>2 DEF RelayInv, SignedOnce
<1>9. CopiesYoung'
  BY <1>4, SigningRelayAssumption DEF RelayInv, RelayTypeInv, CopiesYoung
<1> QED BY <1>5, <1>6, <1>7, <1>8, <1>9 DEF RelayInv

\* A peer receives a request: it signs only what its replay guard does not know.
LEMMA ReceiveKeeps ==
    ASSUME RelayInv, NEW m \in air, NEW copy \in BOOLEAN, NEW outcome, Receive(m, copy, outcome)
    PROVE  RelayInv'
<1>0. PICK n, r, serve : n = m.node /\ r = m.req /\ serve = (WithinRate(n) /\ Fresh(n, r))
  OBVIOUS
<1>1. n \in Peers /\ n \in Signers /\ r \in Relays /\ m.type = "request" /\ RelayTypeInv
  BY <1>0 DEF RelayInv, RelayTypeInv, Signers, Receive
<1>2. /\ recentIds' = [recentIds EXCEPT ![n] = IF WithinRate(n) THEN Remember(n, r) ELSE @]
      /\ Count(n, r, IF serve THEN outcome ELSE "dropped")
      /\ UNCHANGED <<asked, minute>>
  BY <1>0 DEF Receive
<1>3. /\ recentIds' \in [Peers -> SUBSET [req : Relays, at : Nat]]
      /\ \A i \in Peers : \A e \in recentIds[i] : e \in recentIds'[i] \/ minute >= e.at + ReplayTtl
      /\ serve => [req |-> r, at |-> minute] \in recentIds'[n]
      /\ serve => \A e \in recentIds[n] : e.req = r => minute >= e.at + ReplayTtl
  <2>1. Remember(n, r) \subseteq recentIds[n] \cup {[req |-> r, at |-> minute]}
    BY DEF Remember
  <2>2. [req |-> r, at |-> minute] \in [req : Relays, at : Nat]
    BY <1>1 DEF RelayTypeInv
  <2>3. recentIds' \in [Peers -> SUBSET [req : Relays, at : Nat]]
    BY <1>1, <1>2, <2>1, <2>2 DEF RelayTypeInv
  <2>4. \A i \in Peers : recentIds'[i] = IF i = n /\ WithinRate(n) THEN Remember(n, r) ELSE recentIds[i]
    BY <1>1, <1>2 DEF RelayTypeInv
  <2>5. \A e \in recentIds[n] : e \in Remember(n, r) \/ minute >= e.at + ReplayTtl
    BY DEF Remember, Expired
  <2>6. serve => [req |-> r, at |-> minute] \in Remember(n, r)
    BY <1>0 DEF Remember
  <2> QED BY <1>0, <1>1, <2>3, <2>4, <2>5, <2>6 DEF Fresh, Expired
<1>4. \A x \in air' : (x \in air) \/ (x.type = "response" /\ x.req = r /\ x.node = n)
  BY <1>0 DEF Receive
<1>5. ~serve => UNCHANGED signatures
  BY <1>1, <1>2, CountAdds
<1>6. CASE ~serve
  <2>1. \A x \in air' : x.req \in Relays /\ x.node \in Peers
    BY <1>1, <1>4 DEF RelayTypeInv
  <2>2. \A x \in air' : x.type = "request" => x \in air
    BY <1>4
  <2>3. \A q \in Relays : Made(q) => Made(q)'
    BY <1>2 DEF Made
  <2>4. asked' \in [Relays -> {"never", "new", "waiting", "done", "gone"}]
    BY <1>1, <1>2 DEF RelayTypeInv
  <2> QED BY <1>2, <1>3, <1>5, <1>6, <2>1, <2>2, <2>3, <2>4, QuietStep
<1>7. CASE serve
  <2>1. /\ signatures' \in [Signers -> [Relays -> Nat]]
        /\ \A i \in Signers, q \in Relays : i # n \/ q # r => signatures'[i][q] = signatures[i][q]
        /\ signatures'[n][r] \in {signatures[n][r], signatures[n][r] + 1}
    BY <1>1, <1>2, CountAdds
  <2>2. signatures[n][r] = 0
    <3> SUFFICES ASSUME signatures[n][r] # 0 PROVE FALSE
      OBVIOUS
    <3>1. m.at \in Nat /\ minute <= m.at + CopyLife /\ minute \in Nat
      BY <1>1 DEF RelayInv, CopiesYoung, RelayTypeInv
    <3>2. PICK e \in recentIds[n] : e.req = r /\ m.at <= e.at
      BY <1>0, <1>1 DEF RelayInv, GuardOutlives
    <3>3. e.at \in Nat /\ minute >= e.at + ReplayTtl
      BY <1>1, <1>3, <1>7, <3>2 DEF RelayTypeInv
    <3> QED BY <3>1, <3>2, <3>3, SigningRelayAssumption
  <2>3. Made(r)
    BY <1>0, <1>1 DEF RelayInv, NothingBefore
  <2>4. RelayTypeInv'
    BY <1>1, <1>2, <1>3, <1>4, <2>1 DEF RelayTypeInv
  <2>5. NothingBefore'
    <3> SUFFICES ASSUME NEW q \in Relays, ~Made(q)'
                 PROVE  /\ \A x \in air' : x.type = "request" => x.req # q
                        /\ \A i \in Signers : signatures'[i][q] = 0
      BY DEF NothingBefore
    <3>1. q # r /\ ~Made(q)
      BY <1>2, <2>3 DEF Made
    <3> QED BY <3>1, <1>4, <2>1 DEF RelayInv, NothingBefore
  <2>6. GuardOutlives'
    <3> SUFFICES ASSUME NEW i \in Peers, NEW q \in Relays, signatures'[i][q] # 0,
                        NEW x \in air', x.type = "request", x.req = q
                 PROVE  \E e \in recentIds'[i] : e.req = q /\ x.at <= e.at
      BY DEF GuardOutlives
    <3>0. x \in air /\ x.at \in Nat /\ x.at <= minute /\ minute <= x.at + CopyLife /\ minute \in Nat
      BY <1>4 DEF RelayInv, CopiesYoung, RelayTypeInv
    <3>1. CASE i = n /\ q = r
      BY <3>0, <3>1, <1>3, <1>7
    <3>2. CASE i # n \/ q # r
      <4>1. signatures[i][q] # 0
        BY <3>2, <2>1 DEF Signers
      <4>2. PICK e \in recentIds[i] : e.req = q /\ x.at <= e.at
        BY <3>0, <4>1 DEF RelayInv, GuardOutlives
      <4>3. e.at \in Nat
        BY <1>1, <4>2 DEF RelayTypeInv
      <4>4. ~(minute >= e.at + ReplayTtl)
        BY <3>0, <4>2, <4>3, SigningRelayAssumption
      <4> QED BY <4>2, <4>4, <1>3
    <3> QED BY <3>1, <3>2
  <2>7. SignedOnce'
    BY <1>1, <2>1, <2>2 DEF RelayInv, SignedOnce
  <2>8. CopiesYoung'
    BY <1>2, <1>4 DEF RelayInv, CopiesYoung
  <2> QED BY <2>4, <2>5, <2>6, <2>7, <2>8 DEF RelayInv
<1> QED BY <1>6, <1>7

\* Every step keeps the invariant.
LEMMA RelayStepInv == RelayInv /\ [RelayNext]_relayVars => RelayInv'
<1> SUFFICES ASSUME RelayInv, [RelayNext]_relayVars PROVE RelayInv'
  OBVIOUS
<1>0. RelayTypeInv
  BY DEF RelayInv
<1>1. ASSUME NEW r \in Relays, RelaySigning(r) PROVE RelayInv'
  BY <1>1, TakenUp DEF RelaySigning
<1>2. ASSUME NEW r \in Relays, NEW o, RelayOwn(r, o) PROVE RelayInv'
  BY <1>2, TakenUp DEF RelayOwn
<1>3. ASSUME NEW r \in Relays, NEW o, RelayCollect(r, o) PROVE RelayInv'
  BY <1>3, TakenUp DEF RelayCollect
<1>4. ASSUME UNCHANGED <<signatures, recentIds, minute>>, air' \subseteq air,
             asked' \in [Relays -> {"never", "new", "waiting", "done", "gone"}],
             \A r \in Relays : Made(r) => Made(r)'
      PROVE  RelayInv'
  BY <1>0, <1>4, QuietStep DEF RelayTypeInv
<1>5. ASSUME NEW r \in Relays, GiveUp(r) PROVE RelayInv'
  <2>1. asked' = [asked EXCEPT ![r] = "gone"] /\ UNCHANGED <<signatures, recentIds, minute, air>>
    BY <1>5 DEF GiveUp
  <2> QED BY <1>0, <1>4, <2>1 DEF Made, RelayTypeInv
<1>6. ASSUME NEW m \in air, RouteResponse(m) PROVE RelayInv'
  <2>1. UNCHANGED <<signatures, recentIds, minute>> /\ air' \subseteq air
    BY <1>6 DEF RouteResponse
  <2>2. asked' = asked \/ (asked[m.req] = "waiting" /\
           (asked' = [asked EXCEPT ![m.req] = "done"] \/ asked' = [asked EXCEPT ![m.req] = @]))
    BY <1>6 DEF RouteResponse
  <2>3. /\ asked' \in [Relays -> {"never", "new", "waiting", "done", "gone"}]
        /\ \A r \in Relays : Made(r) => Made(r)'
    BY <1>0, <2>2 DEF Made, RelayTypeInv
  <2> QED BY <1>4, <2>1, <2>3
<1>7. ASSUME UNCHANGED <<asked, signatures, recentIds, minute>>, air' \subseteq air PROVE RelayInv'
  BY <1>0, <1>4, <1>7 DEF Made, RelayTypeInv
<1>8. ASSUME NEW m \in air, Ignore(m) PROVE RelayInv'
  BY <1>7, <1>8 DEF Ignore
<1>9. ASSUME NEW m \in air, LoseMessage(m) PROVE RelayInv'
  BY <1>7, <1>9 DEF LoseMessage
<1>10. CASE SweepRoutes
  BY <1>7, <1>10 DEF SweepRoutes
<1>11. CASE PassMinute
  <2>1. /\ UNCHANGED <<asked, recentIds, signatures>> /\ minute' = minute + 1
        /\ air' \subseteq air
        /\ \A m \in air' : m.type = "request" => minute + 1 <= m.at + CopyLife
    BY <1>11 DEF PassMinute
  <2>2. RelayTypeInv'
    BY <1>0, <2>1 DEF RelayTypeInv
  <2>3. NothingBefore' /\ GuardOutlives' /\ SignedOnce'
    BY <2>1 DEF RelayInv, NothingBefore, GuardOutlives, SignedOnce, Made
  <2>4. CopiesYoung'
    BY <1>0, <2>1 DEF RelayInv, CopiesYoung, RelayTypeInv
  <2> QED BY <2>2, <2>3, <2>4 DEF RelayInv
<1>13. ASSUME NEW n \in Peers, RestartPeer(n) PROVE RelayInv'
  <2>1. /\ UNCHANGED <<asked, air, minute>>
        /\ recentIds' = [recentIds EXCEPT ![n] = {}]
        /\ signatures' = [signatures EXCEPT ![n] = [r \in Relays |-> 0]]
    BY <1>13 DEF RestartPeer
  <2>2. \A i \in Peers, r \in Relays : signatures'[i][r] # 0 =>
           i # n /\ signatures[i][r] # 0 /\ recentIds'[i] = recentIds[i]
    BY <1>0, <2>1 DEF RelayTypeInv, Signers
  <2>3. \A i \in Signers, r \in Relays : signatures'[i][r] \in {0, signatures[i][r]}
    BY <1>0, <2>1 DEF RelayTypeInv, Signers
  <2>4. RelayTypeInv'
    BY <1>0, <2>1 DEF RelayTypeInv, Signers
  <2>5. NothingBefore' /\ CopiesYoung'
    BY <2>1, <2>3 DEF RelayInv, NothingBefore, CopiesYoung, Made
  <2>6. GuardOutlives'
    BY <2>1, <2>2 DEF RelayInv, GuardOutlives
  <2>7. SignedOnce'
    BY <2>3 DEF RelayInv, SignedOnce
  <2> QED BY <2>4, <2>5, <2>6, <2>7 DEF RelayInv
<1>12. CASE UNCHANGED relayVars
  BY <1>7, <1>12 DEF relayVars
<1> QED
  BY <1>1, <1>2, <1>3, <1>5, <1>6, <1>8, <1>9, <1>10, <1>11, <1>12, <1>13, ReceiveKeeps DEF RelayNext

\* For every set of peers and requests, and however often the mesh repeats a request: one
\* process of a node has its enclave sign it once, because the replay guard, purged by age,
\* keeps an entry for longer than the mesh keeps a message (p2p.rs:1814-1849).
THEOREM RelaySignsOnce == RelaySpec => []SignedOnce
<1>1. RelayInv => SignedOnce
  BY DEF RelayInv
<1> QED BY <1>1, RelayInitInv, RelayStepInv, PTL DEF RelaySpec

-------------------------------------------------------------------------------
(* The deposit monitor.                                                    *)

\* Types of the two cursors, and the property itself: a scan moves the cursor only
\* over ledgers of which it has read every transaction.
MonitorInv == tip \in Nat /\ monitor \in Nat /\ MonitorSkipsNothing

\* A set of naturals that is not empty has a least one.
LEMMA MinExists ==
    ASSUME NEW S \in SUBSET Nat, S # {}
    PROVE  Min(S) \in S /\ \A y \in S : Min(S) <= y
<1>1. PICK x \in S : \A y \in S : ~(<<y, x>> \in OpToRel(<, Nat))
  BY NatLessThanWellFounded, WFMin
<1>2. \A y \in S : ~(y < x) /\ x \in Nat /\ y \in Nat
  BY <1>1 DEF OpToRel
<1>3. \A y \in S : x <= y
  BY <1>2
<1> QED
  BY <1>3 DEF Min

\* A set of naturals with a bound has a largest one.
LEMMA BoundedMax ==
    ASSUME NEW S \in SUBSET Nat, S # {}, NEW b \in Nat, \A x \in S : x <= b
    PROVE  Max(S) \in S /\ \A y \in S : y <= Max(S)
<1> DEFINE D == {b - x : x \in S}
<1>1. D \in SUBSET Nat /\ D # {}
  <2>1. \A x \in S : b - x \in Nat
    OBVIOUS
  <2> QED
    BY <2>1
<1>2. Min(D) \in D /\ \A d \in D : Min(D) <= d
  <2> HIDE DEF D
  <2> QED
    BY <1>1, MinExists
<1>3. PICK x \in S : Min(D) = b - x
  BY <1>2
<1>4. ASSUME NEW y \in S PROVE x >= y
  <2>1. b - x <= b - y
    BY <1>2, <1>3
  <2> QED
    BY <2>1
<1> QED
  BY <1>4 DEF Max

\* scan_pages moves the cursor to a natural, and every deposit of a ledger that the
\* cursor passes is among those it returns.
LEMMA ScanComplete ==
    ASSUME MonitorInv, NEW got \in SUBSET Window
    PROVE  /\ ScanPages(got).ledger \in Nat
           /\ \A n \in (monitor + 1) .. ScanPages(got).ledger :
                 DepositsIn(n) \subseteq ScanPages(got).deposits
<1> DEFINE L == {monitor} \cup {EscrowTxs[i].ledger : i \in got}
           top == Max(L)
           rest == Window \ got
           marker == EscrowTxs[Min(rest)].ledger
           next == ScanPages(got).ledger
<1>0. /\ tip \in Nat /\ monitor \in Nat
      /\ DOMAIN EscrowTxs \subseteq Nat
      /\ \A i \in DOMAIN EscrowTxs : EscrowTxs[i].ledger \in Nat
      /\ \A i, j \in DOMAIN EscrowTxs : i < j => EscrowTxs[i].ledger <= EscrowTxs[j].ledger
  BY DepositsAssumption DEF MonitorInv
<1>1. \A i \in Window : /\ i \in DOMAIN EscrowTxs /\ i \in Nat
                        /\ EscrowTxs[i].ledger > monitor /\ EscrowTxs[i].ledger <= tip
  BY <1>0 DEF Window
<1>2. /\ ScanPages(got).deposits
            = {EscrowTxs[i].id : i \in {j \in got : EscrowTxs[j].deposit}}
      /\ next = IF rest = {} THEN top ELSE CapToComplete(top, monitor, marker)
  BY DEF ScanPages
<1>3. top \in Nat /\ top <= tip + monitor /\ (top = monitor \/ top <= tip)
  <2>1. L \in SUBSET Nat /\ L # {} /\ \A x \in L : x <= tip + monitor /\ (x = monitor \/ x <= tip)
    BY <1>0, <1>1
  <2>2. tip + monitor \in Nat
    BY <1>0
  <2> HIDE DEF L
  <2>3. top \in L
    BY <2>1, <2>2, BoundedMax
  <2> QED
    BY <2>1, <2>3
<1>4. rest # {} => /\ Min(rest) \in rest /\ marker \in Nat /\ marker > monitor
                   /\ \A i \in rest : marker <= EscrowTxs[i].ledger
  <2> SUFFICES ASSUME rest # {}
               PROVE  /\ Min(rest) \in rest /\ marker \in Nat /\ marker > monitor
                      /\ \A i \in rest : marker <= EscrowTxs[i].ledger
    OBVIOUS
  <2>1. rest \in SUBSET Nat
    BY <1>1
  <2>2. Min(rest) \in rest /\ \A i \in rest : Min(rest) <= i
    <3> HIDE DEF rest
    <3> QED
      BY <2>1, MinExists
  <2>3. marker \in Nat /\ marker > monitor
    BY <1>0, <1>1, <2>2
  <2>4. ASSUME NEW i \in rest PROVE marker <= EscrowTxs[i].ledger
    <3>1. Min(rest) \in DOMAIN EscrowTxs /\ i \in DOMAIN EscrowTxs /\ Min(rest) <= i
      BY <1>1, <2>2
    <3>2. CASE Min(rest) = i
      BY <1>0, <3>1, <3>2
    <3>3. CASE Min(rest) < i
      BY <1>0, <3>1, <3>3
    <3> QED
      BY <1>0, <3>1, <3>2, <3>3
  <2> QED
    BY <2>2, <2>3, <2>4
<1> HIDE DEF top, marker, next, rest
<1>5. /\ next \in Nat
      /\ next <= monitor \/ (next <= tip /\ (rest = {} \/ next < marker))
  BY <1>0, <1>2, <1>3, <1>4 DEF CapToComplete
<1>6. ASSUME NEW n \in (monitor + 1) .. next, NEW d \in DepositsIn(n)
      PROVE  d \in ScanPages(got).deposits
  <2>1. PICK i \in DOMAIN EscrowTxs : /\ EscrowTxs[i].ledger = n /\ EscrowTxs[i].deposit
                                      /\ d = EscrowTxs[i].id
    BY <1>6 DEF DepositsIn
  <2>2. n \in Nat /\ n > monitor /\ n <= tip /\ (rest = {} \/ n < marker)
    BY <1>0, <1>4, <1>5
  <2>3. i \in Window
    BY <2>1, <2>2 DEF Window
  <2>4. i \notin rest
    BY <1>4, <2>1, <2>2
  <2>5. i \in got
    BY <2>3, <2>4 DEF rest
  <2> QED
    BY <1>2, <2>1, <2>5
<1> QED
  BY <1>5, <1>6 DEF next

\* Every step of a node keeps the monitor's cursor behind what it has offered.
LEMMA MonitorNext ==
    ASSUME MonitorInv, [DepositsNext]_depositVars
    PROVE  MonitorInv'
<1> USE DEF MonitorInv
<1>0. \A pages : Fetched(pages) \in SUBSET Window
  BY DEF Fetched
<1>1. CASE UNCHANGED <<monitor, offered>> /\ (tip' = tip \/ CloseLedger)
  BY <1>1 DEF CloseLedger, MonitorSkipsNothing, DepositsIn
<1>2. ASSUME NEW pages, MonitorScan(pages) PROVE MonitorInv'
  <2> DEFINE scan == ScanPages(Fetched(pages))
  <2>1. /\ scan.ledger \in Nat
        /\ \A n \in (monitor + 1) .. scan.ledger : DepositsIn(n) \subseteq scan.deposits
    BY <1>0, ScanComplete
  <2>2. /\ offered' = offered \cup scan.deposits /\ tip' = tip
        /\ monitor' = IF scan.ledger > monitor THEN scan.ledger ELSE monitor
    BY <1>2 DEF MonitorScan, chainVars
  <2> HIDE DEF scan
  <2>3. ASSUME NEW n \in 1 .. monitor' PROVE DepositsIn(n) \subseteq offered'
    <3>1. n \in 1 .. monitor \/ n \in (monitor + 1) .. scan.ledger
      BY <2>1, <2>2
    <3> QED
      BY <2>1, <2>2, <3>1 DEF MonitorSkipsNothing
  <2> QED
    BY <2>1, <2>2, <2>3 DEF MonitorSkipsNothing, DepositsIn
<1>3. ASSUME NEW pages, MonitorCrash(pages) PROVE MonitorInv'
  BY <1>3 DEF MonitorCrash, chainVars, MonitorSkipsNothing, DepositsIn
<1>4. ASSUME NEW answered, NEW failed, ScanPass(answered, failed)
      PROVE  UNCHANGED <<monitor, offered, tip>>
  BY <1>4 DEF ScanPass, chainVars
<1> QED
  BY <1>1, <1>2, <1>3, <1>4
     DEF DepositsNext, depositVars, chainVars, enclaveVars, CloseLedger, RefreshManifests, Arm,
         RestartDeposits, RotateKey, Collect, MissValidation, AdvanceClock

\* The deposit monitor of xrpl_monitor.rs never skips a deposit: wherever the paging
\* stops inside a ledger, at the page bound or at an error, and whatever crash comes
\* between the credits and the write of the cursor.
THEOREM MonitorIsComplete == DepositsSpec => []MonitorSkipsNothing
<1>1. DepositsInit => MonitorInv
  BY DEF DepositsInit, MonitorInv, MonitorSkipsNothing
<1>2. MonitorInv /\ [DepositsNext]_depositVars => MonitorInv'
  BY MonitorNext
<1>3. MonitorInv => MonitorSkipsNothing
  BY DEF MonitorInv
<1> QED
  BY <1>1, <1>2, <1>3, PTL DEF DepositsSpec
===============================================================================
