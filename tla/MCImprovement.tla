---------------------------- MODULE MCImprovement ----------------------------
(* Instances of Improvement: one code change and one configuration change   *)
(* of two paths.                                                            *)
EXTENDS Improvement, TLC

CONSTANTS a, b, u1, u2, k1, k2, t1, code, low, retries, limit

MCKept == Read \cup {"rollback_succeeded"}

MCPatch == [p \in Proposals |->
                CASE p = code -> [q \in {retries} |-> 3]
                  [] p = low -> [q \in {retries, limit} |-> 12]]

\* The front of "12" is "1".
MCCuts == [v \in Values |-> IF v = 12 THEN {1} ELSE {}]

MCOriginal == [q \in Paths |-> IF q = retries THEN 3 ELSE 0]

MCRollback == [p \in Proposals |-> 3]

\* Bounds.  An approval of what is neither signalled nor recorded is never
\* looked up, nor is a rejection of a code change.  Files are torn or names
\* used twice, but not both, and a backup that the roll-back of the code change
\* leaves (its paths are not whitelisted) is the end.
Explored ==
    /\ ~(torn /\ clashed)
    /\ gaps = {} \/ \A s \in Stamps : backups[s] = NoFile
    /\ \A r \in approvals :
          /\ r.proposal \in gaps \cup proposals
          /\ r.proposal \in CodeChanges => r.decision = "approved"

Symmetry == Permutations({a, b}) \cup Permutations(Urls) \cup
                Permutations(Commits)

=============================================================================
