----------------------------- MODULE MCLocalTools -----------------------------
(* Instances of three parts of the program on the operator's machine: the      *)
(* cockpit, the opening and upgrading of the store, and the installation of    *)
(* the binary and its browser files. `component` says which one a behaviour is *)
(* about, so the state space is the disjoint sum of theirs.                    *)
EXTENDS Cockpit, StoreUpgrade, HostInstall, TLC

CONSTANTS s1, s2, p1, p2, other

MCOwner == (1 :> s1) @@ (2 :> s1) @@ (3 :> s2)

\* Release 2 may upgrade by itself, release 3 needs the operator's consent.
MCEnvelope ==
  << [schema |-> 1, min |-> 0, auto |-> 0, policy |-> "binary_only", ceiling |-> "none", format |-> 1],
     [schema |-> 2, min |-> 0, auto |-> 1, policy |-> "auto_safe", ceiling |-> "class_a", format |-> 1],
     [schema |-> 4, min |-> 0, auto |-> 0, policy |-> "auto_safe", ceiling |-> "class_b", format |-> 1] >>
MCBrowsers == <<"chrome", "edge">>

VARIABLE component   \* which one moves; no step changes it

toolVars == <<component, cockpitVars, storeVars, hostVars>>

\* A component that does not move stays in one of its initial states.
Resting ==
    /\ IF component = "cockpit" THEN TRUE
       ELSE /\ triage = [f \in Findings |-> "new"] /\ batch = [s \in Sessions |-> "absent"]
            /\ ui = CHOOSE u \in Bootstrap : TRUE
    /\ IF component = "store" THEN TRUE ELSE foundVersion = 0
    /\ IF component = "host" THEN TRUE ELSE found = 0 /\ idFile = NoId

ToolInit ==
    /\ component \in {"cockpit", "store", "host"}
    /\ listing = [s \in Sessions |-> {f \in Findings : OwnerOf[f] = s}]
    /\ Resting
    /\ CockpitInit /\ StoreInit /\ HostInit

CockpitStep == /\ component = "cockpit" /\ CockpitNext
               /\ UNCHANGED <<component, storeVars, hostVars>>
StoreStep == /\ component = "store" /\ StoreNext
             /\ UNCHANGED <<component, cockpitVars, hostVars>>
HostStep == /\ component = "host" /\ HostNext
            /\ UNCHANGED <<component, cockpitVars, storeVars>>

ToolNext == CockpitStep \/ StoreStep \/ HostStep

ToolSpec == ToolInit /\ [][ToolNext]_toolVars
===============================================================================
