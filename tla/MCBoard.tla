------------------------------- MODULE MCBoard -------------------------------
(* Small instances of the board. *)
EXTENDS BoardProperties, TLC

CONSTANTS t1, t2, p1, p2, root

MCOneProject  == [t \in Tasks |-> p1]
MCTwoProjects == [t \in Tasks |-> IF t = t1 THEN p1 ELSE p2]
MCRootOf      == [p \in Projects |-> root]

\* Identities are interchangeable; tasks are where they share a project.
AgentSymmetry == Permutations(Agents)
BoardSymmetry == Permutations(Agents) \cup Permutations(Tasks)
=============================================================================
