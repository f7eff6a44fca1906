-------------------------------- MODULE Access --------------------------------
(***************************************************************************)
(* Who may call a node.  A public call carries a signature of its sender   *)
(* over the body (or the path, for a GET or an empty body) and a           *)
(* timestamp, or a session token that a signed login obtained.  An admin   *)
(* call carries a signature in a domain of its own, and its signer must    *)
(* hold the operation on the roster that was loaded, verified, at start.   *)
(* An operator may also retire the pool credential of an account.          *)
(*                                                                         *)
(* Signatures that were sent once may be presented again by anyone: the    *)
(* mesh, a proxy or a retry duplicates calls.                              *)
(***************************************************************************)
EXTENDS Naturals, FiniteSets

CONSTANTS Users, Operators,  \* accounts; Operators \subseteq Users
          Bodies,            \* the non-empty JSON bodies, each [user, text]
          RosterVersions,           \* RosterVersions[v]: the accounts that hold the operation
          Drift,             \* MAX_TIMESTAMP_DRIFT_SECS
          SessionTtl,        \* SESSION_TTL
          LastTime, MaxSigned, AccessFaults

ASSUME AccessAssumption ==
    /\ Operators \subseteq Users
    /\ \A b \in Bodies : b.user \in Users
    /\ RosterVersions \in [DOMAIN RosterVersions -> SUBSET Operators] /\ DOMAIN RosterVersions \subseteq Nat
    /\ {Drift, SessionTtl, LastTime, MaxSigned, AccessFaults} \subseteq Nat

VARIABLES now,       \* the clock, in drift-sized units
          signed,    \* the signatures their owners made, [by, pre, ts]
          sessions,  \* the SessionStore: [addr, expires]
          roster,    \* the version in force, 0 when the surface fails closed
          rosterFile,\* the version of the signed file on disk, 0 for none
          surface,   \* the admin listener: "down" or "up"
          socket,    \* what is at the socket's path: "none", "socket", "file"
          served,    \* the last call that passed authentication, as a set
          cred,      \* the pool credential: the live key
          revoke,    \* the revoke-session-key command, with the faults it met
          troubles   \* faults that may still happen

accessVars == <<now, signed, sessions, roster, rosterFile, surface, socket, served,
                cred, revoke, troubles>>
nodeVars == <<roster, rosterFile, surface, socket>>
credVars == <<cred, revoke>>

NoRevoke == [pc |-> "idle", key |-> 0, faults |-> 0]

AccessInit ==
    /\ now = 0 /\ signed = {} /\ sessions = {} /\ served = {}
    /\ roster = 0 /\ rosterFile = 0 /\ surface = "down" /\ socket = "none"
    /\ cred = 1 /\ revoke = NoRevoke /\ troubles = AccessFaults

Trouble == troubles > 0 /\ troubles' = troubles - 1

Tick ==
    /\ now < LastTime /\ now' = now + 1
    /\ UNCHANGED <<signed, sessions, nodeVars, served, credVars, troubles>>

-------------------------------------------------------------------------------
(* Signatures.                                                             *)

\* Requests: [method, path, body], with body = "" for an empty one.
NoBody == [user |-> "nobody", text |-> ""]
PublicCalls == [method : {"GET"}, path : {"/v1/account"}, body : {NoBody}]
                 \cup [method : {"POST"}, path : {"/v1/orders"}, body : Bodies]
LoginCall == [method |-> "POST", path |-> "/v1/auth/login", body |-> NoBody]
AdminCalls == [method : {"POST"}, path : {"/admin/change"}, body : Bodies]

\* The preimage of a public call, without its timestamp: the path of a GET, a
\* tagged path when there is no body, else the body alone.
PublicPreimage(c) ==
    IF c.method = "GET" THEN <<"path", c.path>>
    ELSE IF c.body = NoBody THEN <<"login", c.path>> ELSE <<"body", c.body>>

\* The admin domain covers the method, the path and the body.
AdminPreimage(c) == <<"admin", c.method, c.path, c.body>>

Preimages == {PublicPreimage(c) : c \in PublicCalls \cup {LoginCall}}
               \cup {AdminPreimage(c) : c \in AdminCalls}

\* An owner signs with a clock that may be ahead or behind within the drift.
Sign(u, pre, ts) ==
    /\ Cardinality(signed) < MaxSigned
    /\ ts <= now + Drift /\ now <= ts + Drift
    /\ signed' = signed \cup {[by |-> u, pre |-> pre, ts |-> ts]}
    /\ UNCHANGED <<now, sessions, nodeVars, served, credVars, troubles>>

\* verify_xrpl_sig, for either key type: a signature its owner made over pre.
VerifySig(s, pre) == s \in signed /\ s.pre = pre

\* verify_request_with: the timestamp first, then the address and the signature.
VerifyRequest(s, pre) ==
    /\ s.ts <= now + Drift /\ now <= s.ts + Drift
    /\ VerifySig(s, pre)

\* A signature kept with an order verifies again on any node, at any time, over
\* the body alone (verify_signature_only).
VerifyBinding(b) == b.pre[1] = "body" /\ VerifySig(b, b.pre)

-------------------------------------------------------------------------------
(* The public API.                                                         *)

\* SessionStore::create prunes what has expired.
CreateSession(u) ==
    sessions' = {x \in sessions : x.expires > now}
                  \cup {[addr |-> u, expires |-> now + SessionTtl]}

\* Mutant: a token is looked up and its expiry forgotten.
AnySession(x) == x \in sessions

\* SessionStore::get.
LiveSession(x) == x \in sessions /\ x.expires > now

Login(s) ==
    /\ VerifyRequest(s, PublicPreimage(LoginCall))
    /\ CreateSession(s.by)
    /\ UNCHANGED <<now, signed, nodeVars, served, credVars, troubles>>

\* The body's user_id must be the caller's address.
OwnBody(u, body) == body = NoBody \/ body.user = u

ServeCall(u, c, kind, binding) ==
    served' = {[by |-> u, call |-> c, kind |-> kind, at |-> now, binding |-> binding]}

\* auth_middleware with a bearer token: no signature goes with the order.
BearerCall(x, c) ==
    /\ LiveSession(x) /\ OwnBody(x.addr, c.body)
    /\ ServeCall(x.addr, c, "bearer", {})
    /\ UNCHANGED <<now, signed, sessions, nodeVars, credVars, troubles>>

\* auth_middleware with signature headers: the signature becomes the order's.
SignedCall(s, c) ==
    /\ VerifyRequest(s, PublicPreimage(c)) /\ OwnBody(s.by, c.body)
    /\ ServeCall(s.by, c, "signed",
                 IF c.method # "GET" /\ c.body # NoBody THEN {s} ELSE {})
    /\ UNCHANGED <<now, signed, sessions, nodeVars, credVars, troubles>>

-------------------------------------------------------------------------------
(* The admin surface.                                                      *)

\* The governance key signs the next roster and the file is installed; an older
\* file, with its signature, may be put back.
InstallRoster(v) ==
    /\ v \in DOMAIN RosterVersions /\ v # rosterFile
    /\ rosterFile' = v
    /\ UNCHANGED <<now, signed, sessions, roster, surface, socket, served, credVars, troubles>>

\* check_invariants: an empty roster and a rollback are refused.
RosterLoads(v, inForce) == v # 0 /\ RosterVersions[v] # {} /\ v > inForce

\* load_baked at start, with no version in force; ssh-keygen may be missing.
LoadRoster(verified) == IF verified /\ RosterLoads(rosterFile, 0) THEN rosterFile ELSE 0

\* serve_on_socket unlinks a stale socket and refuses anything else.
SocketFree == socket \in {"none", "socket"}

StartAdmin(verified) ==
    /\ surface = "down"
    /\ roster' = LoadRoster(verified)
    /\ IF SocketFree THEN surface' = "up" /\ socket' = "socket"
                     ELSE UNCHANGED <<surface, socket>>
    /\ IF verified THEN UNCHANGED troubles ELSE Trouble
    /\ UNCHANGED <<now, signed, sessions, rosterFile, served, credVars>>

\* The process stops: its sessions are gone, its socket stays behind.
StopNode ==
    /\ surface = "up" /\ Trouble
    /\ surface' = "down" /\ roster' = 0 /\ sessions' = {}
    /\ UNCHANGED <<now, signed, rosterFile, socket, served, credVars>>

\* Something else is written at the socket's path, or removed from it.
TouchSocket(what) ==
    /\ surface = "down" /\ what # socket /\ Trouble /\ socket' = what
    /\ UNCHANGED <<now, signed, sessions, roster, rosterFile, surface, served, credVars>>

\* can_op and allowlist_for_path: nobody when no roster is in force.
Allowlist == IF roster = 0 THEN {} ELSE RosterVersions[roster]

\* verify_operator_request.
VerifyOperator(s, c) == VerifyRequest(s, AdminPreimage(c)) /\ s.by \in Allowlist

\* operator_only.
AdminCall(s, c) ==
    /\ surface = "up" /\ VerifyOperator(s, c)
    /\ ServeCall(s.by, c, "admin", {})
    /\ UNCHANGED <<now, signed, sessions, nodeVars, credVars, troubles>>

-------------------------------------------------------------------------------
(* revoke-session-key: keys are numbered; the config of the node names one. *)

ConfiguredKey == 0

\* in_use_digests and refuse_if_in_use.
StartRevoke(k) ==
    /\ revoke.pc = "idle" /\ k # ConfiguredKey
    /\ revoke' = [pc |-> "check", key |-> k, faults |-> 0]
    /\ UNCHANGED <<now, signed, sessions, nodeVars, served, cred, troubles>>

\* The command goes on to pc, as it should or after one more fault.
Reaches(pc) == revoke' = [revoke EXCEPT !.pc = pc] /\ UNCHANGED troubles
Stumbles(pc) == Trouble /\ revoke' = [revoke EXCEPT !.pc = pc, !.faults = @ + 1]

\* The key is presented: any answer but 200 means dead, no answer ends the command.
Precheck ==
    /\ revoke.pc = "check"
    /\ \/ Reaches(IF cred = revoke.key THEN "rotate" ELSE "dead")
       \/ Stumbles("dead") \/ Stumbles("error")
    /\ UNCHANGED <<now, signed, sessions, nodeVars, served, cred>>

\* /pool/regenerate-session-key: done, refused, answered
\* and not done, or done with its answer lost.
Rotate ==
    /\ revoke.pc = "rotate"
    /\ \/ cred' = cred + 1 /\ Reaches("recheck")
       \/ UNCHANGED cred /\ (Stumbles("refused") \/ Stumbles("recheck"))
       \/ cred' = cred + 1 /\ Stumbles("error")
    /\ UNCHANGED <<now, signed, sessions, nodeVars, served>>

\* Mutant: the answer of the rotation is believed.
Believed == "revoked"

\* classify, after the old key was presented again.
Verdict == IF cred = revoke.key THEN "still live" ELSE "revoked"

\* Any answer but 200 to the second check, too, means dead.
Recheck ==
    /\ revoke.pc = "recheck"
    /\ Reaches(Verdict) \/ Stumbles("revoked") \/ Stumbles("error")
    /\ UNCHANGED <<now, signed, sessions, nodeVars, served, cred>>

AccessNext ==
    \/ Tick
    \/ \E u \in Users, pre \in Preimages, ts \in 0 .. LastTime + Drift : Sign(u, pre, ts)
    \/ \E s \in signed : Login(s)
    \/ \E x \in sessions, c \in PublicCalls : BearerCall(x, c)
    \/ \E s \in signed, c \in PublicCalls : SignedCall(s, c)
    \/ \E s \in signed, c \in AdminCalls : AdminCall(s, c)
    \/ \E v \in DOMAIN RosterVersions : InstallRoster(v)
    \/ \E verified \in BOOLEAN : StartAdmin(verified)
    \/ StopNode \/ \E what \in {"none", "file"} : TouchSocket(what)
    \/ \E k \in {0, 1} : StartRevoke(k)
    \/ Precheck \/ Rotate \/ Recheck

AccessSpec == AccessInit /\ [][AccessNext]_accessVars

-------------------------------------------------------------------------------
(* Properties.                                                             *)

\* A public call acts for an account that signed its preimage within the drift, or
\* signed a login less than a drift and a session's life ago, however often the
\* signature is presented and whatever expired or restarted in between.  The preimage
\* of a POST is its body: its route is not signed
\* (auth.rs:160-205, 278-292, 432-437, 572-780).
ActsForItsSigner ==
    \A e \in served : e.kind # "admin" => \E s \in signed :
        /\ s.by = e.by
        /\ \/ e.kind = "signed" /\ s.pre = PublicPreimage(e.call) /\ e.at <= s.ts + Drift
           \/ e.kind = "bearer" /\ s.pre = PublicPreimage(LoginCall)
              /\ e.at < s.ts + Drift + SessionTtl

\* An admin call was signed as an admin call with exactly its method, path and
\* body by an account that some installed roster lets run it: nothing signed for
\* the public API opens the admin surface (auth.rs:479-515).
AdminCallsSignedAsSuch ==
    \A e \in served : e.kind = "admin" =>
        /\ \E s \in signed : s.by = e.by /\ s.pre = AdminPreimage(e.call)
        /\ \E v \in DOMAIN RosterVersions : e.by \in RosterVersions[v]

\* The signature kept with an order proves it to another node: a replica that
\* checks it alone accepts it, and its account is the order's user
\* (auth.rs:108-149, 683-709).
BindingsReverify ==
    \A e \in served : \A b \in e.binding : VerifyBinding(b) /\ b.by = e.call.body.user

\* Whatever is served, on either surface, was asked for by the account it acts for,
\* and an order carries the proof of it.
CallsActForSigners == ActsForItsSigner /\ AdminCallsSignedAsSuch /\ BindingsReverify

\* No single fault makes the command report a key as revoked that still authenticates:
\* the enclave may refuse the rotation, answer it without doing it or lose its answer, or
\* a check may fail for a reason of its own (session_key_revoke.rs:201-287).  Two can: a
\* rotation that was answered and not done, and a second check that fails.
RevokedIsDead == revoke.pc = "revoked" /\ revoke.faults <= 1 => cred # revoke.key
===============================================================================
