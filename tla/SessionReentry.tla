--------------------------- MODULE SessionReentry ---------------------------
(***************************************************************************)
(* Which session a command is about: `rr resume`, `rr return` and a        *)
(* `rr review` that reuses a session look one up by its id, by its pull    *)
(* request or by the repository alone, in the sessions and launch bindings *)
(* of the store, launch, and commit the session's new row and binding.     *)
(* Every reading command asks the same questions.                          *)
(*                                                                         *)
(* There is one repository.  A root is a git worktree of it; a binding     *)
(* made by the browser's bridge has none.  The launch itself is the step   *)
(* between Enter and Commit (ProviderLaunch, SessionLifecycle).            *)
(***************************************************************************)
EXTENDS Naturals, Sequences, FiniteSets, SequencesExt

CONSTANTS
    Reviews,       \* identifiers of review sessions
    Pulls,         \* pull requests
    Roots,         \* worktrees
    Reentrants,    \* processes that re-enter a session
    NoRoot,
    NoReview,
    MaxBindings,   \* bound: launch bindings
    MaxEntries,    \* bound: committed re-entries
    MaxNow         \* bound: the clock, in seconds

ASSUME ReentryAssumption ==
    /\ NoRoot \notin Roots /\ NoReview \notin Reviews \cup Reentrants
    /\ MaxBindings \in Nat /\ MaxEntries \in Nat /\ MaxNow \in Nat

Routes == {"cli", "bridge"}      \* the surfaces that bind a session

(* How a process came to its session: by its id or its pull request, by    *)
(* the repository alone, or by strength, in two stages: "inferring" while  *)
(* it has only chosen, "strength" once it has read the chosen row again.   *)
Ways == {"id", "repository", "inferring", "strength"}

VARIABLES
    reviews,    \* the review_sessions rows
    bindings,   \* the session_launch_bindings rows, in order of their creation
    entering,   \* what each process found and has yet to commit
    entries,    \* committed re-entries so far
    now         \* the clock

reentryVars == <<reviews, bindings, entering, entries, now>>

Idle == [session |-> NoReview, by |-> "id", binding |-> 0, changed |-> FALSE,
         surface |-> "cli", root |-> NoRoot]

(* quality: 2 for a usable continuity, 1 for a degraded one.  Of a row's   *)
(* version matters only whether it changed since a process read it, which  *)
(* the process's record keeps.                                             *)
ReviewRows == [pull : Pulls, quality : {1, 2}, updated : Nat, failed : BOOLEAN]

ReentryInit ==
    /\ reviews = [s \in {} |-> NoReview]
    /\ bindings = <<>>
    /\ entering = [p \in Reentrants |-> Idle]
    /\ entries = 0
    /\ now = 0

------------------------------------------------------------------------------
(* Looking a session up. *)

(* binding_local_root_for_surface. *)
BoundRoot(surface, root) == IF surface = "bridge" THEN NoRoot ELSE root

BindingsOf(s, surface) ==
    {i \in DOMAIN bindings : bindings[i].session = s /\ bindings[i].surface = surface}

(* binding_local_root_stale_reason. *)
LocalRootStale(b, root) == b.surface # "bridge" /\ b.root # root

(* A session's target never changes, so a binding is never of another one. *)
BindingResolution(s, surface, root) ==
    LET found == BindingsOf(s, surface)
    IN  IF found = {} THEN [kind |-> "not_found", binding |-> 0]
        ELSE IF Cardinality(found) > 1 THEN [kind |-> "ambiguous", binding |-> 0]
        ELSE LET i == CHOOSE i \in found : TRUE
             IN  IF LocalRootStale(bindings[i], root) THEN [kind |-> "stale", binding |-> 0]
                 ELSE [kind |-> "resolved", binding |-> i]

Enterable(resolution) == resolution.kind \in {"resolved", "not_found"}

OfPull(n) == {s \in DOMAIN reviews : reviews[s].pull = n}

\* resolve_session_reentry_with_context, as the sessions it resolves to.
ById(s, surface, root) ==
    {s} \cap {t \in DOMAIN reviews : Enterable(BindingResolution(t, surface, root))}

ByPull(n, surface, root) ==
    IF Cardinality(OfPull(n)) = 1
    THEN {s \in OfPull(n) : Enterable(BindingResolution(s, surface, root))} ELSE {}

(* With the repository alone, its only session, whatever its bindings. *)
ByRepository == IF Cardinality(DOMAIN reviews) = 1 THEN DOMAIN reviews ELSE {}

------------------------------------------------------------------------------
(* Choosing among several candidates: infer_strongest_reentry_selection.   *)

BindingRank(resolution) ==
    CASE resolution.kind = "resolved" -> 2
      [] resolution.kind = "not_found" -> 1
      [] OTHER -> 0

Score(s, surface, root, pulls) ==
    [pr |-> IF Cardinality(pulls) = 1 THEN 1 ELSE 0,
     binding |-> BindingRank(BindingResolution(s, surface, root)),
     quality |-> reviews[s].quality, updated |-> reviews[s].updated]

Weaker(x, y) ==
    \/ x.pr < y.pr
    \/ x.pr = y.pr /\ x.binding < y.binding
    \/ x.pr = y.pr /\ x.binding = y.binding /\ x.quality < y.quality
    \/ x.pr = y.pr /\ x.binding = y.binding /\ x.quality = y.quality /\ x.updated < y.updated

\* Mutant: a tie is settled in favour of the first.
ConsiderFirst(best, s, score) ==
    IF best.session = NoReview \/ Weaker(best.score, score)
    THEN [session |-> s, score |-> score, tied |-> FALSE] ELSE best

(* One round of the loop of select_unique_strongest_score_index. *)
Consider(best, s, score) ==
    IF best.session = NoReview \/ Weaker(best.score, score)
    THEN [session |-> s, score |-> score, tied |-> FALSE]
    ELSE [best EXCEPT !.tied = @ \/ best.score = score]

OfPulls(pulls) == {s \in DOMAIN reviews : reviews[s].pull \in pulls}

(* The candidates as session_finder lists them: newest first, those of one *)
(* second by their rowid, which the model does not keep.                   *)
Listed(pulls) ==
    CHOOSE l \in SetToSeqs(OfPulls(pulls)) :
        \A i, j \in DOMAIN l : i < j => reviews[l[i]].updated >= reviews[l[j]].updated

NoneYet == [session |-> NoReview, tied |-> FALSE,
            score |-> [pr |-> 0, binding |-> 0, quality |-> 0, updated |-> 0]]

(* The best after each round of the loop. *)
BestAfter(l, surface, root, pulls) ==
    LET best[i \in 0..Len(l)] ==
            IF i = 0 THEN NoneYet
            ELSE Consider(best[i - 1], l[i], Score(l[i], surface, root, pulls))
    IN  best

Strongest(surface, root, pulls) ==
    LET l == Listed(pulls)
        best == BestAfter(l, surface, root, pulls)[Len(l)]
    IN  IF best.tied \/ best.score.binding = 0 THEN NoReview ELSE best.session

(* picker_reason_supports_auto_selection: several sessions of what was asked. *)
AutoSelected(surface, root, pulls) ==
    IF Len(Listed(pulls)) < 2 THEN {}
    ELSE {Strongest(surface, root, pulls)} \ {NoReview}

------------------------------------------------------------------------------
(* Re-entering. *)

Takes(p, s, by, binding, surface, root) ==
    /\ entering' = [entering EXCEPT ![p] =
                       [session |-> s, by |-> by, binding |-> binding,
                        changed |-> FALSE, surface |-> surface, root |-> root]]
    /\ UNCHANGED <<reviews, bindings, entries, now>>

EnterById(p, s, surface, root) ==
    /\ s \in ById(s, surface, root)
    /\ Takes(p, s, "id", BindingResolution(s, surface, root).binding, surface, root)

EnterByPull(p, n, surface, root) ==
    \E s \in ByPull(n, surface, root) :
        Takes(p, s, "id", BindingResolution(s, surface, root).binding, surface, root)

EnterByRepository(p, surface, root) ==
    \E s \in ByRepository : Takes(p, s, "repository", 0, surface, root)

(* `rr resume` only: `rr return` asks the operator to choose.  The binding *)
(* is the one the choice was made with ...                                 *)
EnterStrongest(p, surface, root, pulls) ==
    \E s \in AutoSelected(surface, root, pulls) :
        Takes(p, s, "inferring", BindingResolution(s, surface, root).binding, surface, root)

(* ... but the row version that the commit compares is read afterwards.    *)
LoadInferred(p) ==
    /\ entering[p].by = "inferring"
    /\ entering' = [entering EXCEPT ![p].by = "strength"]
    /\ UNCHANGED <<reviews, bindings, entries, now>>

GiveUp(p) ==
    /\ entering[p] # Idle
    /\ entering' = [entering EXCEPT ![p] = Idle]
    /\ UNCHANGED <<reviews, bindings, entries, now>>

\* Mutant: nothing compares the row with what was read.
RowChangedUnnoticed(e) == FALSE

RowChanged(e) == e.changed

(* Every process that read the session's row before holds an old version. *)
Changes(s, except) ==
    [p \in Reentrants |->
        IF p = except THEN Idle
        ELSE IF entering[p].session = s /\ entering[p].by # "inferring"
             THEN [entering[p] EXCEPT !.changed = TRUE]
        ELSE entering[p]]

Binding(e) == [session |-> e.session, surface |-> e.surface, root |-> BoundRoot(e.surface, e.root)]

(* The upsert of a binding does not change its session. *)
PutBinding(e) ==
    IF e.binding = 0 THEN Append(bindings, Binding(e))
    ELSE [bindings EXCEPT ![e.binding].root = Binding(e).root, ![e.binding].surface = e.surface]

Commit(p, quality) ==
    LET e == entering[p]
    IN  /\ e # Idle /\ e.by # "inferring" /\ ~RowChanged(e)
        /\ entries < MaxEntries
        /\ e.binding = 0 => Len(bindings) < MaxBindings
        /\ reviews' = [reviews EXCEPT ![e.session].updated = now,
                                      ![e.session].quality = quality, ![e.session].failed = FALSE]
        /\ bindings' = PutBinding(e)
        /\ entering' = Changes(e.session, p)
        /\ entries' = entries + 1
        /\ UNCHANGED now

(* The transaction is refused. *)
Conflict(p) ==
    /\ entering[p] # Idle /\ entering[p].by # "inferring" /\ RowChanged(entering[p])
    /\ entering' = [entering EXCEPT ![p] = Idle]
    /\ UNCHANGED <<reviews, bindings, entries, now>>

(* select_reusable_session: without --fresh a live session of the pull     *)
(* request is resumed, which is EnterById.                                 *)
Reusables(n) == {s \in OfPull(n) : ~reviews[s].failed}

(* A new review, committed with its binding; a hosted one that fails       *)
(* leaves its session without one.                                         *)
StartReview(s, n, surface, root, quality, fresh, failed) ==
    /\ s \notin DOMAIN reviews
    /\ fresh \/ Reusables(n) = {}
    /\ ~failed => Len(bindings) < MaxBindings
    /\ failed => quality = 1
    /\ reviews' = [t \in DOMAIN reviews \cup {s} |->
                      IF t = s THEN [pull |-> n, quality |-> quality, updated |-> now,
                                     failed |-> failed]
                      ELSE reviews[t]]
    /\ bindings' = IF failed THEN bindings
                   ELSE Append(bindings, [session |-> s, surface |-> surface,
                                          root |-> BoundRoot(surface, root)])
    /\ UNCHANGED <<entering, entries, now>>

(* Anything else that writes the session's row: a worker's findings, a demotion. *)
Touched(s) ==
    /\ entries < MaxEntries
    /\ reviews' = [reviews EXCEPT ![s].updated = now]
    /\ entering' = Changes(s, NoReview)
    /\ entries' = entries + 1
    /\ UNCHANGED <<bindings, now>>

Tick == now < MaxNow /\ now' = now + 1 /\ UNCHANGED <<reviews, bindings, entering, entries>>

ReentryNext ==
    \/ \E p \in Reentrants :
          \/ entering[p] = Idle /\ \E surface \in Routes, root \in Roots :
                \/ \E s \in Reviews : EnterById(p, s, surface, root)
                \/ \E n \in Pulls : EnterByPull(p, n, surface, root)
                \/ EnterByRepository(p, surface, root)
                \/ \E pulls \in {{n} : n \in Pulls} \cup {Pulls} :
                      EnterStrongest(p, surface, root, pulls)
          \/ LoadInferred(p)
          \/ GiveUp(p)
          \/ \E quality \in {1, 2} : Commit(p, quality)
          \/ Conflict(p)
    \/ \E s \in Reviews, n \in Pulls, surface \in Routes, root \in Roots, quality \in {1, 2},
          fresh \in BOOLEAN, failed \in BOOLEAN :
             StartReview(s, n, surface, root, quality, fresh, failed)
    \/ \E s \in DOMAIN reviews : Touched(s)
    \/ Tick

ReentrySpec == ReentryInit /\ [][ReentryNext]_reentryVars

------------------------------------------------------------------------------
(* Properties. *)

(* Every row has fields of their kinds, a binding of the bridge has no     *)
(* root and one of the command line has one, and every binding belongs to  *)
(* a session in the store.                                                 *)
ReentryTypeOK ==
    /\ DOMAIN reviews \subseteq Reviews
    /\ \A s \in DOMAIN reviews : reviews[s] \in ReviewRows
    /\ \A i \in DOMAIN bindings :
          /\ bindings[i] \in [session : DOMAIN reviews, surface : Routes,
                              root : Roots \cup {NoRoot}]
          /\ (bindings[i].surface = "bridge") <=> (bindings[i].root = NoRoot)
    /\ entering \in [Reentrants -> [session : Reviews \cup {NoReview},
                                    by : Ways, changed : BOOLEAN,
                                    binding : 0..MaxBindings, surface : Routes,
                                    root : Roots \cup {NoRoot}]]
    /\ entries \in 0..MaxEntries
    /\ now \in 0..MaxNow

(* finalize_existing_session_launch_attempt: a re-entry that looked its    *)
(* session up by id or by pull request commits only while no binding of    *)
(* the session on its surface is of another worktree, also when another    *)
(* process bound it during the launch.  One by strength has no such        *)
(* promise: what is bound between its choice and its second read of the    *)
(* row goes unnoticed.                                                     *)
WorktreesDoNotMix ==
    [][\A p \in Reentrants :
          LET e == entering[p]
          IN  e # Idle /\ e.by = "id" /\ entering'[p] = Idle /\ entries' # entries =>
                  \A i \in BindingsOf(e.session, e.surface) :
                      bindings[i].root = BoundRoot(e.surface, e.root)]_reentryVars

(* infer_strongest_reentry_selection never guesses: what it picks is       *)
(* strictly stronger than every other candidate and bound to no other      *)
(* worktree, and it picks whenever there is such a candidate.              *)
PickIsUniqueStrongest ==
    \A surface \in Routes, root \in Roots, pulls \in {{n} : n \in Pulls} \cup {Pulls} :
        LET asked == OfPulls(pulls)
            Beats(s) == /\ Enterable(BindingResolution(s, surface, root))
                        /\ \A t \in asked \ {s} : Weaker(Score(t, surface, root, pulls),
                                                         Score(s, surface, root, pulls))
        IN  Cardinality(asked) > 1 =>
                AutoSelected(surface, root, pulls) = {s \in asked : Beats(s)}

(* packages/storage/tests/session_resolution_smoke.rs:480: "expected       *)
(* explicit-session reentry to keep the validated binding".  A session     *)
(* whose bindings on a surface are all of one worktree can be re-entered   *)
(* by its id from there.                                                   *)
BoundIsReenterable ==
    \A s \in DOMAIN reviews, surface \in Routes, root \in Roots :
        (\A i \in BindingsOf(s, surface) : bindings[i].root = BoundRoot(surface, root))
            => ById(s, surface, root) = {s}

(* The rows, and what a re-entry without an id would pick from them.       *)
ReentryInv ==
    /\ ReentryTypeOK
    /\ PickIsUniqueStrongest

==============================================================================
