---------------------------- MODULE MCComponents ----------------------------
(***************************************************************************)
(* Small instances of the components beside the trading core.  They share  *)
(* no state with one another, so each behaviour runs one of them, `focus', *)
(* and leaves the others as they start.                                    *)
(*                                                                         *)
(* Membership: three nodes whose operators may replace nc by nd, the       *)
(* account of a machine that has not joined, or propose a set too small to *)
(* project; only na and nb find anchor 4 within their ledgers.  Key        *)
(* generation: two dealers.  Signing round: three signers, two of which    *)
(* make a signature.  Migration: two requests at a time over the same      *)
(* slots.  Safe projection: two epochs that share one member and differ in *)
(* their threshold.  Access: an operator whom the second roster revokes.   *)
(***************************************************************************)
EXTENDS Membership, Dkg, FrostRound, Migration, SafeProjection, Access, TLC

CONSTANTS na, nb, nc, nd

VARIABLE focus

-----------------------------------------------------------------------------
(* The values of the constants.                                            *)

MCNodes == {na, nb, nc}
Founders == [signers |-> {na, nb, nc}, quorum |-> 2]
Replaced == [signers |-> {na, nb, nd}, quorum |-> 2]
TooSmall == [signers |-> {na, nb}, quorum |-> 2]
MCSignerSets == {Founders, Replaced, TooSmall}
MCOwnLedger == [n \in MCNodes |-> IF n = na THEN 5 ELSE IF n = nb THEN 4 ELSE 1]
MCRosters == {[n \in {na, nb} |-> n], [n \in {na, nc} |-> nb]}

MCRoster == [n \in {na, nb} |-> {na, nb} \ {n}]

MCAskedSets == {{1, 2}, {1, 3}, {1}}

MCKnownTo == [n \in SafeNodes |-> SafeMembers]
MCSealedSet == <<{1, 2}, {2, 3, 4}>>
MCTarget == <<1, 2>>
MCFirstSafes == {[owners |-> <<1>>, threshold |-> 1],
                 [owners |-> <<3, 1, 4>>, threshold |-> 3]}

MCBodies == {[user |-> "op", text |-> "t"], [user |-> "u", text |-> "t"]}
MCRosterVersions == <<{"op"}, {}>>

-----------------------------------------------------------------------------

allVars == <<focus, vars, dkgVars, frostVars, migrationVars, safeVars, accessVars>>

ComponentsInit ==
    /\ focus \in {"membership", "dkg", "frost", "migration", "safe", "access"}
    /\ Init /\ DkgInit /\ FrostInit /\ MigrationInit /\ SafeInit /\ AccessInit
    \* Where initial states differ, only the component that runs ranges over them.
    /\ focus # "membership" => confirmed[na] = 1
    /\ focus # "safe" => safe.threshold = 1

RunMembership ==
    /\ focus = "membership" /\ Next
    /\ UNCHANGED <<focus, dkgVars, frostVars, migrationVars, safeVars, accessVars>>

RunDkg ==
    /\ focus = "dkg" /\ DkgNext
    /\ UNCHANGED <<focus, vars, frostVars, migrationVars, safeVars, accessVars>>

RunFrost ==
    /\ focus = "frost" /\ FrostNext
    /\ UNCHANGED <<focus, vars, dkgVars, migrationVars, safeVars, accessVars>>

RunMigration ==
    /\ focus = "migration" /\ MigrationNext
    /\ UNCHANGED <<focus, vars, dkgVars, frostVars, safeVars, accessVars>>

RunSafe ==
    /\ focus = "safe" /\ SafeNext
    /\ UNCHANGED <<focus, vars, dkgVars, frostVars, migrationVars, accessVars>>

RunAccess ==
    /\ focus = "access" /\ AccessNext
    /\ UNCHANGED <<focus, vars, dkgVars, frostVars, migrationVars, safeVars>>

ComponentsNext ==
    \/ RunMembership \/ RunDkg \/ RunFrost \/ RunMigration
    \/ RunSafe \/ RunAccess

ComponentsSpec == ComponentsInit /\ [][ComponentsNext]_allVars
=============================================================================
