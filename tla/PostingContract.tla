--------------------------- MODULE PostingContract ---------------------------
(***************************************************************************)
(* What the outbound path promises an operator, without rows, reads or     *)
(* processes.  Texts are offered for posting under versions; an approval   *)
(* is given to texts that were offered together; only approved texts are   *)
(* delivered.  Offers and approvals are never altered: an edit offers a    *)
(* whole new version, which nobody has approved yet.                       *)
(***************************************************************************)
EXTENDS Naturals

CONSTANTS Drafts, Bodies, Generated

VARIABLES version,   \* the last version offered
          offered,   \* the texts that were offered: [draft, body, digest]
          approved,  \* the offered texts that were approved
          delivered  \* the texts that were delivered to GitHub

vars == <<version, offered, approved, delivered>>

OfVersion(v) == {o \in offered : o.digest = v}

GeneratedOf(S) == {[draft |-> d, body |-> Generated[d], digest |-> 0] : d \in S}

\* Some texts may have been generated already.
Init ==
  /\ version = 0
  /\ \E S \in SUBSET Drafts : offered = GeneratedOf(S)
  /\ approved = {}
  /\ delivered = {}

\* A generated text joins version 0.
Generate(d) ==
  /\ offered' = offered \cup GeneratedOf({d})
  /\ UNCHANGED <<version, approved, delivered>>

\* Some texts, at least the edited one, make up the next version.
Revise(S, body) ==
  /\ S # {}
  /\ version' = version + 1
  /\ offered' = offered \cup {[draft |-> d, body |-> body[d],
                               digest |-> version + 1] : d \in S}
  /\ UNCHANGED <<approved, delivered>>

\* Texts of one version are approved together; of an edited version, all.
Approve(v, S) ==
  /\ S # {}
  /\ S \subseteq OfVersion(v)
  /\ v > 0 => S = OfVersion(v)
  /\ approved' = approved \cup S
  /\ UNCHANGED <<version, offered, delivered>>

Deliver(o) ==
  /\ o \in approved
  /\ delivered' = delivered \cup {o}
  /\ UNCHANGED <<version, offered, approved>>

Next ==
  \/ \E d \in Drafts : Generate(d)
  \/ \E S \in SUBSET Drafts, body \in [Drafts -> Bodies] : Revise(S, body)
  \/ \E v \in 0..version : \E S \in SUBSET OfVersion(v) : Approve(v, S)
  \/ \E o \in approved : Deliver(o)

Spec == Init /\ [][Next]_vars
=============================================================================
