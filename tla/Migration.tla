------------------------------ MODULE Migration -------------------------------
(***************************************************************************)
(* Moving a node's sealed state to a new enclave build (Path A): the side- *)
(* by-side deployment of NEW, the ceremony driver behind                   *)
(* /admin/migrate-state and its dry run, which boots NEW on the migrated   *)
(* state and then empties it again.  Nothing keeps two requests, rehearsal *)
(* or not, from overlapping; Overlap bounds how many do.                   *)
(*                                                                         *)
(* An enclave is named by its port.  Its sealed state is the set of the    *)
(* names of its files.                                                     *)
(***************************************************************************)
EXTENDS Naturals, FiniteSets

CONSTANTS Ports,        \* the two slots of the node, by port
          OwnPort,      \* the enclave this orchestrator serves
          Requests,     \* migrate-state requests, numbered from 1
          Essential,    \* sealed files a migration must carry
          MayBeAbsent,  \* MAY_BE_ABSENT_FROM_NEW, ABSENT_BUT_MUST_BE_REESTABLISHED
          Overlap       \* how many requests may run at once

\* A node has two slots (SLOTS); request 0 stands for none; a sealed state is
\* many files.
ASSUME MigrationAssumption ==
    /\ OwnPort \in Ports /\ \A p, q \in Ports \ {OwnPort} : p = q
    /\ Requests \subseteq Nat \ {0} /\ Overlap \in Nat
    /\ Essential \cap MayBeAbsent = {} /\ IsFiniteSet(Essential)
    /\ \E f, g \in Essential : f # g

VARIABLES enclave,  \* enclave[p]: the slot at port p
          backup,   \* the accounts directory a plain deployment has moved aside
          req,      \* req[r]: the driver of request r
          mixed     \* history: a rehearsal and a real run have overlapped

migrationVars == <<enclave, backup, req, mixed>>

AllFiles == Essential \cup MayBeAbsent

\* writes, history: how often requests have changed the slot's files.
NoFiles == [up |-> FALSE, files |-> {}, retired |-> FALSE, key |-> 0, pending |-> 0,
            manifest |-> 0, writes |-> 0]
\* before: the files exported, then those counted before the boot; since, history:
\* NEW's writes at that count; booted, history: what NEW was started on.
NoRequest == [pc |-> "idle", dry |-> FALSE, old |-> OwnPort, new |-> OwnPort, before |-> {},
              since |-> 0, booted |-> {}, how |-> "none", result |-> "none"]

MigrationInit ==
    /\ enclave = [p \in Ports |-> IF p = OwnPort
                    THEN [NoFiles EXCEPT !.up = TRUE, !.files = AllFiles] ELSE NoFiles]
    /\ backup = {} /\ mixed = FALSE
    /\ req = [r \in Requests |-> NoRequest]

Running(r) == req[r].pc \notin {"idle", "done"}
Fail(r, why) == req' = [req EXCEPT ![r].pc = "done", ![r].result = why]
Goto(r, pc) == req' = [req EXCEPT ![r].pc = pc]

-------------------------------------------------------------------------------
(* Deployment.                                                             *)

\* preflight_old_running.
OldRunning(new) == \E old \in Ports \ {new} : enclave[old].up

\* preflight_new_dir_clean.
NewDirClean(new) == enclave[new].files = {}

\* deploy_local_side_by_side: OLD must run, NEW's directory must hold nothing
\* but its identity, its port must be free.
DeploySideBySide(new) ==
    /\ OldRunning(new) /\ NewDirClean(new) /\ ~enclave[new].up
    /\ enclave' = [enclave EXCEPT ![new] = [NoFiles EXCEPT !.up = TRUE, !.writes = enclave[new].writes]]
    /\ UNCHANGED <<backup, req, mixed>>

\* deploy_local: stop, move the sealed state aside, install, start empty.
DeployLocal ==
    /\ backup = {}
    /\ backup' = enclave[OwnPort].files
    /\ enclave' = [enclave EXCEPT ![OwnPort] = [NoFiles EXCEPT !.up = TRUE]]
    /\ UNCHANGED <<req, mixed>>

-------------------------------------------------------------------------------
(* The ceremony.  A step is an HTTP call: the enclave carries it out or    *)
(* refuses; its answer may be lost, and then the driver fails although the *)
(* step was taken.  Any failure ends the run.                              *)

\* Mutant: only NEW against OLD is compared.
DifferentPorts(old, new) == new # old

\* check_migration_ports.
CheckMigrationPorts(old, new) == new # old /\ new # OwnPort

\* handle_migrate_state up to the ceremony; a dry run also resolves both slots.
StartMigration(r, old, new, dry) ==
    /\ req[r].pc = "idle" /\ \A q \in Requests : q < r => req[q].pc # "idle"
    /\ Cardinality({q \in Requests : Running(q)}) < Overlap
    /\ req' = [req EXCEPT ![r] =
          [NoRequest EXCEPT !.pc = IF CheckMigrationPorts(old, new) THEN "keypair" ELSE "done",
             !.result = IF CheckMigrationPorts(old, new) THEN "none" ELSE "refused",
             !.old = old, !.new = new, !.dry = dry]]
    /\ mixed' = (mixed \/ \E q \in Requests : Running(q) /\ req[q].dry # dry)
    /\ UNCHANGED <<enclave, backup>>

\* Step 3: NEW draws its migration key for this ceremony's nonce (the request's
\* number); it lives in NEW's memory, one at a time.
GenerateKeypair(r, answered) ==
    LET new == req[r].new IN
    /\ req[r].pc = "keypair"
    /\ IF enclave[new].up /\ enclave[req[r].old].up
       THEN /\ enclave' = [enclave EXCEPT ![new].key = r]
            /\ IF answered THEN Goto(r, "delegation") ELSE Fail(r, "failed")
       ELSE Fail(r, "failed") /\ UNCHANGED enclave
    /\ UNCHANGED <<backup, mixed>>

\* The delegation signatures of the operators: one at least; the enclave wants
\* a quorum.
CollectDelegation(r, quorum) ==
    /\ req[r].pc = "delegation"
    /\ IF quorum THEN Goto(r, "export") ELSE Fail(r, "failed")
    /\ UNCHANGED <<enclave, backup, mixed>>

\* Step 4: OLD exports its state to the key; a real export arms the pending
\* migration, a dry one leaves OLD as it was.
ExportState(r, answered) ==
    LET old == req[r].old IN
    /\ req[r].pc = "export"
    /\ IF enclave[old].up /\ ~enclave[old].retired
       THEN /\ enclave' = [enclave EXCEPT ![old].pending = IF req[r].dry THEN @ ELSE r]
            /\ req' = [req EXCEPT ![r].pc = IF answered THEN "import" ELSE "done",
                                  ![r].result = IF answered THEN @ ELSE "failed",
                                  ![r].before = enclave[old].files]
       ELSE Fail(r, "failed") /\ UNCHANGED enclave
    /\ UNCHANGED <<backup, mixed>>

\* Step 5: NEW unseals with its key, reseals what the migration carries (a
\* faulty build may leave a file out) and writes the manifest last.
ImportState(r, left, answered) ==
    LET new == req[r].new IN
    /\ req[r].pc = "import"
    /\ IF enclave[new].up /\ enclave[new].key = r
       THEN /\ enclave' = [enclave EXCEPT ![new].files = (req[r].before \ MayBeAbsent) \ left,
                                          ![new].manifest = r, ![new].writes = @ + 1]
            /\ IF answered
               THEN Goto(r, IF req[r].dry THEN "boot" ELSE "confirm")
               ELSE Fail(r, "failed")
       ELSE Fail(r, "failed") /\ UNCHANGED enclave
    /\ UNCHANGED <<backup, mixed>>

\* Step 6, the point of no return: OLD checks NEW's completion report against
\* the migration it has pending and seals its retired marker.
VerifyConfirmation(r, answered) ==
    LET old == req[r].old IN
    /\ req[r].pc = "confirm"
    /\ IF enclave[old].up /\ enclave[old].pending = r
       THEN /\ enclave' = [enclave EXCEPT ![old].retired = TRUE, ![old].pending = 0]
            /\ IF answered THEN Fail(r, "ok") ELSE Fail(r, "failed")
       ELSE Fail(r, "failed") /\ UNCHANGED enclave
    /\ UNCHANGED <<backup, mixed>>

-------------------------------------------------------------------------------
(* Step 5a of a dry run: boot NEW on the migrated state, judge, reset.     *)

\* boot_new_on_migrated_state begins: the files are counted before the boot.
CountSealed(r) ==
    LET new == enclave[req[r].new] IN
    /\ req[r].pc = "boot"
    /\ req' = [req EXCEPT ![r].pc = "restart", ![r].before = new.files, ![r].since = new.writes]
    /\ UNCHANGED <<enclave, backup, mixed>>

\* NEW is stopped and started, each of which may fail and end the rehearsal; it
\* loses its key.  How the boot went: NEW does not come back, comes back but its
\* log has a refusal, comes back without a word on the manifest, or has
\* verified the manifest it holds.
RestartNew(r, how) ==
    LET new == req[r].new IN
    /\ req[r].pc = "restart"
    /\ \/ how = "not-stopped" /\ Fail(r, "boot-not-run") /\ UNCHANGED enclave
       \/ /\ how = "not-started" /\ Fail(r, "boot-not-run")
          /\ enclave' = [enclave EXCEPT ![new].up = FALSE, ![new].key = 0]
       \/ /\ how \in {"dead", "refused", "silent", "verified"}
          /\ how = "verified" => enclave[new].manifest # 0
          /\ enclave' = [enclave EXCEPT ![new].up = (how # "dead"), ![new].key = 0]
          /\ req' = [req EXCEPT ![r].pc = "judge", ![r].booted = enclave[new].files, ![r].how = how]
    /\ UNCHANGED <<backup, mixed>>

\* Mutant: the number of files may change across the boot.
BootedNames(old, before, after, how) ==
    /\ Cardinality(before) > 1 /\ how = "verified"
    /\ (old \ after) \subseteq MayBeAbsent

\* judge_boot_proof: something to boot on, NEW back, as many files after the
\* boot as before it, no refusal, no file of OLD missing that nothing explains,
\* the manifest adopted.
BootProved(old, before, after, how) ==
    /\ Cardinality(before) > 1 /\ how # "dead"
    /\ Cardinality(after) = Cardinality(before)
    /\ how # "refused" /\ (old \ after) \subseteq MayBeAbsent /\ how # "silent"

\* The files are counted again and named, and the proof is judged.
JudgeBoot(r) ==
    /\ req[r].pc = "judge"
    /\ IF BootProved(enclave[req[r].old].files, req[r].before, enclave[req[r].new].files, req[r].how)
       THEN Goto(r, "reset") ELSE Fail(r, "boot-failed")
    /\ UNCHANGED <<enclave, backup, mixed>>

\* reset_new_side_after_dry_run: NEW is stopped, emptied and started.  The stop
\* may fail, a file may not be removed (`left' stay, NEW is down), the start may
\* fail.
ResetNew(r, how, left) ==
    LET new == req[r].new
        Emptied == [NoFiles EXCEPT !.writes = enclave[new].writes + 1] IN
    /\ req[r].pc = "reset"
    /\ \/ how = "not-stopped" /\ UNCHANGED enclave
       \/ /\ how = "not-removed" /\ left \subseteq enclave[new].files
          /\ \E m \in {0, enclave[new].manifest} :
               enclave' = [enclave EXCEPT ![new] = [Emptied EXCEPT !.files = left, !.manifest = m]]
       \/ how = "not-started" /\ enclave' = [enclave EXCEPT ![new] = Emptied]
       \/ how = "ok" /\ enclave' = [enclave EXCEPT ![new] = [Emptied EXCEPT !.up = TRUE]]
    /\ Fail(r, IF how = "ok" THEN "dry-run-ok" ELSE "dry-run-ok-reset-failed")
    /\ UNCHANGED <<backup, mixed>>

MigrationNext ==
    \/ \E p \in Ports : DeploySideBySide(p)
    \/ DeployLocal
    \/ \E r \in Requests :
          \/ \E old, new \in Ports, dry \in BOOLEAN : StartMigration(r, old, new, dry)
          \/ \E ok \in BOOLEAN :
                \/ GenerateKeypair(r, ok) \/ CollectDelegation(r, ok) \/ ExportState(r, ok)
                \/ \E left \in {{}} \cup {{f} : f \in Essential} : ImportState(r, left, ok)
                \/ VerifyConfirmation(r, ok)
          \/ CountSealed(r) \/ JudgeBoot(r)
          \/ \E how \in {"not-stopped", "not-started", "dead", "refused", "silent", "verified"} :
                RestartNew(r, how)
          \/ \E how \in {"not-stopped", "not-started", "ok"} : ResetNew(r, how, {})
          \/ \E left \in SUBSET Essential : ResetNew(r, "not-removed", left)

MigrationSpec == MigrationInit /\ [][MigrationNext]_migrationVars

-------------------------------------------------------------------------------
(* Properties.                                                             *)

\* Unless a rehearsal and a real run overlap, the node's sealed state is never
\* lost: an enclave that is not retired still holds it, or a deployment has it in
\* its backup, or OLD is retired and NEW holds an imported set
\* (path_a_ceremony.rs:97, "OLD is retired (in-memory + sealed marker); NEW is the
\* active enclave"), however many requests of one kind overlap and whichever
\* answers are lost.
StateHeld ==
    \/ mixed
    \/ Essential \subseteq backup
    \/ Essential \subseteq enclave[OwnPort].files /\ ~enclave[OwnPort].retired
    \/ \E p \in Ports \ {OwnPort} : enclave[p].manifest # 0 /\ enclave[p].files # {}

\* With a rehearsal overlapping a real run it is refuted: the rehearsal resets
\* the slot that the real run has filled and OLD has retired for
\* (node_deploy.rs:861).
StateHeldAlways ==
    \/ Essential \subseteq backup
    \/ Essential \subseteq enclave[OwnPort].files /\ ~enclave[OwnPort].retired
    \/ \E p \in Ports \ {OwnPort} : enclave[p].manifest # 0 /\ enclave[p].files # {}

\* A rehearsal that passes has started NEW on every file that matters, even if
\* another request has written NEW's files once since they were counted: the
\* names are compared after the boot (node_deploy.rs:826), what was booted on is
\* known by its number only (node_deploy.rs:697).
RehearsalSound ==
    [][\A r \in Requests :
         /\ req[r].pc = "judge" /\ req'[r].pc = "reset"
         /\ enclave[req[r].new].writes <= req[r].since + 1
         => enclave[req[r].old].files \ req[r].booted \subseteq MayBeAbsent]_migrationVars
===============================================================================
