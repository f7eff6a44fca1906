-------------------------- MODULE MCElectionReturn --------------------------
(***************************************************************************)
(* Election with a history variable: the sequencers each node found        *)
(* running when it was last restarted.                                     *)
(***************************************************************************)
EXTENDS MCElection

VARIABLE incumbents

IncumbentsAfter(n) ==
    IF ~up[n] /\ up'[n]
    THEN {m \in LiveNodes \ {n} : role[m] = "Sequencer"}
    ELSE {m \in incumbents[n] : up'[m] /\ role'[m] = "Sequencer"}

ReturnInit == ElectionInit /\ incumbents = [n \in Nodes |-> {}]

\* A node comes back only after its old messages are gone, so what follows
\* is the work of the new process.
ReturnNext ==
    /\ ElectionNext
    /\ \A m \in net : up[m.from] \/ ~up'[m.from]
    /\ incumbents' = [n \in Nodes |-> IncumbentsAfter(n)]

ReturnSpec ==
    ReturnInit /\ [][ReturnNext]_<<elVars, incumbents>> /\ WF_<<elVars, incumbents>>(Running /\ ReturnNext)

\* "Old sequencer returning does not reclaim leadership" (election.rs): a
\* sequencer that was serving when a node came back never stands down for it.
ReturningNodeDoesNotReclaim ==
    [][\A n, m \in Nodes :
        m \in incumbents[n] /\ up'[m] /\ role'[m] = "Validator"
            => leader'[m] # n]_<<elVars, incumbents>>
============================================================================
