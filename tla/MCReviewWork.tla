----------------------------- MODULE MCReviewWork ----------------------------
(* Instances of two components of a review under way: re-entering a session  *)
(* and executing a review stage.  `component` says which one a behaviour is   *)
(* about, so the state space is the disjoint sum of theirs.                  *)
EXTENDS SessionReentry, StageExecution, TLC

CONSTANTS g1, g2, h1, h2, e1, e2, n1, n2

\* A result of two findings, one of which a repaired answer keeps.
MCPacks == {[syntax |-> "good", items |-> {"f1", "f2"}, kept |-> {"f1"}, flawed |-> FALSE]}

\* The reviews and the stages are the same two values: neither module tells them
\* apart, and one small group of permutations then serves both.
MCSymmetry ==
    Permutations(Reviews) \cup Permutations(Pulls) \cup Permutations(Roots)
        \cup Permutations(Reentrants)

VARIABLE component   \* which one moves; no step changes it

workVars == <<component, reentryVars, stageVars>>

WorkInit ==
    /\ component \in {"reentry", "stages"}
    /\ ReentryInit /\ StageInit

ReentryStep == component = "reentry" /\ ReentryNext /\ UNCHANGED <<component, stageVars>>
StageStep == component = "stages" /\ StageNext /\ UNCHANGED <<component, reentryVars>>

WorkSpec == WorkInit /\ [][ReentryStep \/ StageStep]_workVars
==============================================================================
