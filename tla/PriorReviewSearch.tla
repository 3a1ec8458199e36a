-------------------------- MODULE PriorReviewSearch --------------------------
(* A search of prior reviews: the plan that a query resolves to, and the     *)
(* lookup that reads exact, lexical and semantic hits in one statement after *)
(* another, while memory items change state and semantic assets are          *)
(* installed, damaged and repaired.                                          *)
(*                                                                           *)
(* Documents are numbered in id order. A document matches a query by tokens: *)
(* it has a name (fingerprint, normalized key) and a body.                   *)
EXTENDS Integers, FiniteSets

CONSTANTS Memories,    \* memory items, numbered
          Evidence,    \* findings, posted outcomes and draft revisions, numbered
          Text,        \* document -> [name, body]: tokens
          Affinity,    \* document -> its semantic score against the query, in milli
          Searchers,   \* [operator, worker, cockpit -> limit] of the surfaces that search
          Queries,     \* [tokens, mode, anchors, classes, locator]
          MaxChanges   \* bound: changes to memory items

Documents == Memories \cup Evidence
Classes == {"promoted_memory", "tentative_candidates", "evidence_hits"}
Surfaces == {"operator", "worker", "cockpit"}
Promoted == {"established", "proven"}
MemoryStates == Promoted \cup {"candidate", "deprecated", "anti_pattern"}

ASSUME SearchConstants ==
    /\ Documents \subseteq Nat /\ Memories \cap Evidence = {}
    /\ IsFiniteSet(Memories) /\ IsFiniteSet(Evidence)
    /\ \A d \in Documents : /\ IsFiniteSet(Text[d].name) /\ IsFiniteSet(Text[d].body)
                             /\ Affinity[d] \in 0..1000
    /\ \A q \in Queries : /\ q.classes \subseteq Classes
                           /\ q.mode \in {"auto", "exact_lookup", "recall", "related_context",
                                         "candidate_audit", "promotion_review"}
    /\ DOMAIN Searchers = Surfaces
    /\ \A s \in Surfaces : Searchers[s] \in 1..100
    /\ MaxChanges \in Nat

VARIABLES standing,   \* state of each memory item; "absent" before it exists
          changes,    \* how often that changed
          tree,       \* the model on disk: absent, sound, or damaged
          activeManifest, \* active_manifest.json: absent, torn, or what its digest covers
          indexReady, \* index_states has a ready row for the repository's semantic scope
          installer,  \* state of `rr assets install`
          search      \* the search in progress

searchVars == <<standing, changes, tree, activeManifest, indexReady, installer, search>>

NoHits == [evidence |-> {}, promoted |-> {}, tentative |-> {}]
NoSearch == [pc |-> "idle", by |-> "operator", query |-> CHOOSE q \in Queries : TRUE,
             plan |-> [ok |-> FALSE, mode |-> "none", classes |-> {}, semantic |-> FALSE,
                       tentative |-> FALSE],
             verified |-> FALSE, candidates |-> {}, fused |-> FALSE,
             exact |-> {}, hits |-> NoHits, moved |-> {}, reply |-> "none"]

SearchInit ==
    /\ standing \in [Memories -> {"absent", "candidate", "established"}]
    /\ changes = 0
    /\ tree = "absent" /\ activeManifest = "absent" /\ indexReady = FALSE
    /\ installer = "idle"
    /\ search = NoSearch

----------------------------------------------------------------------------
(* The plan: plan_search_query, materialize_search_plan                      *)

Resolved(q) ==
    IF q.mode # "auto" THEN q.mode
    ELSE IF q.anchors  THEN "related_context"
    ELSE IF q.locator  THEN "exact_lookup"
    ELSE "recall"

CandidateAware == {"candidate_audit", "promotion_review"}
Semantic == {"recall", "related_context", "promotion_review"}

\* A worker may not ask for promotion reviews; only it names classes.
Plan(by, q, verified) ==
    LET mode == Resolved(q)
        aware == mode \in CandidateAware
        asked == IF by = "worker" THEN q.classes ELSE {}
        classes == IF asked # {} THEN asked
                   ELSE IF aware THEN Classes ELSE Classes \ {"tentative_candidates"}
    IN [ok |-> /\ q.tokens # {} \/ (by = "worker" /\ q.anchors)
               /\ mode = "related_context" => q.anchors
               /\ mode = "promotion_review" => by # "worker"
               /\ aware <=> "tentative_candidates" \in classes,
        mode |-> mode, classes |-> classes,
        semantic |-> mode \in Semantic /\ verified,
        tentative |-> aware]

\* The cockpit has no plan: evidence only, with semantic hits when it can.
CockpitPlan(verified) == [ok |-> TRUE, mode |-> "recall", classes |-> {"evidence_hits"},
                          semantic |-> verified, tentative |-> FALSE]

----------------------------------------------------------------------------
(* Scores and order                                                          *)

\* lexical_token_clauses: every token occurs somewhere; each occurrence counts,
\* a token that is the whole name more.
Matches(d, q) == \A t \in q.tokens : t \in Text[d].name \cup Text[d].body

Weight(d) == IF d \in Memories THEN [name |-> 55, body |-> 40] ELSE [name |-> 60, body |-> 80]
Merit(state) == CASE state = "proven" -> 20 [] state = "established" -> 10
                  [] state = "candidate" -> 5 [] OTHER -> 0

Lexical(d, q, state) ==
    IF q.tokens = {} THEN 0
    ELSE Cardinality(q.tokens \cap Text[d].name) * Weight(d).name
         + Cardinality(q.tokens \cap Text[d].body) * Weight(d).body
         + (IF Cardinality(Text[d].name) = 1 /\ Text[d].name \subseteq q.tokens THEN 120 ELSE 0)
         + Merit(state)

ExactScore == 200
IsExact(d, q) == q.tokens # {} /\ Text[d].name = q.tokens

Hit(d, state, why, lexical) == [doc |-> d, state |-> state, why |-> why, lexical |-> lexical,
                                semantic |-> 0]
Fused(h) == h.lexical * 10 + h.semantic

\* sort_evidence_hits, sort_memory_hits.
Before(g, h) ==
    \/ Fused(g) > Fused(h)
    \/ Fused(g) = Fused(h) /\ g.why = "exact" /\ h.why # "exact"
    \/ Fused(g) = Fused(h) /\ (g.why = "exact" <=> h.why = "exact") /\ g.lexical > h.lexical
    \/ /\ Fused(g) = Fused(h) /\ (g.why = "exact" <=> h.why = "exact")
       /\ g.lexical = h.lexical /\ g.doc < h.doc

First(hits, n) == {h \in hits : Cardinality({g \in hits : Before(g, h)}) < n}

\* The statement's own order and LIMIT: best first, later rows first.
Best(hits, n) ==
    {h \in hits : Cardinality({g \in hits : \/ g.lexical > h.lexical
                                            \/ g.lexical = h.lexical /\ g.doc > h.doc}) < n}

Limit == Searchers[search.by] + (IF search.by = "operator" THEN 1 ELSE 0)

StateOf(d) == IF d \in Memories THEN standing[d] ELSE "evidence"

ExactHits(docs) == {Hit(d, StateOf(d), "exact", ExactScore) : d \in {x \in docs : IsExact(x, search.query)}}

\* Lexical hits are read with their LIMIT before the exact ones are taken out.
LexicalHits(docs) ==
    LET q == search.query
        found == {Hit(d, StateOf(d), "lexical", Lexical(d, q, StateOf(d))) :
                  d \in {x \in docs : Matches(x, q)}}
    IN {h \in Best(found, Limit) : h.doc \notin search.exact}

----------------------------------------------------------------------------
(* Semantic assets                                                           *)

\* verify_semantic_asset_manifest; a torn manifest is an error of its reader.
Verification == IF activeManifest = "torn" THEN "error"
                ELSE IF activeManifest = "absent" THEN "absent"
                ELSE IF activeManifest = tree THEN "verified"
                ELSE "mismatch"

\* The embedder downloads what is missing, and has to load and run.
Probe ==
    /\ installer \in {"idle", "done"}
    /\ tree \in {"absent", "sound"}
    /\ tree' = "sound"
    /\ installer' = "digest"
    /\ UNCHANGED <<standing, changes, activeManifest, indexReady, search>>

\* The manifest is written in place, and a crash can tear it; the install is
\* complete once what it wrote verifies.
WriteActiveManifest ==
    /\ installer = "digest"
    /\ \/ activeManifest' = tree /\ installer' = "verify"
       \/ activeManifest' = "torn" /\ installer' = "done"
    /\ UNCHANGED <<standing, changes, tree, indexReady, search>>

\* The install marks a scope that no search reads.
VerifyInstall ==
    /\ installer = "verify"
    /\ installer' = "done"
    /\ UNCHANGED <<standing, changes, tree, activeManifest, indexReady, search>>

Damage ==
    /\ tree = "sound" /\ activeManifest = "sound"
    /\ tree' = "damaged"
    /\ UNCHANGED <<standing, changes, activeManifest, indexReady, installer, search>>

----------------------------------------------------------------------------
(* The search                                                                *)

Searching == search.pc \notin {"idle", "done"}

\* Verified assets make the repository's semantic scope ready, for good.
BeginSearch ==
    /\ search.pc = "idle"
    /\ \E by \in Surfaces, q \in Queries :
         LET verified == Verification = "verified"
             plan == IF by = "cockpit" THEN CockpitPlan(verified) ELSE Plan(by, q, verified)
         IN /\ indexReady' = (indexReady \/ (verified /\ by # "worker"))
            /\ search' = [NoSearch EXCEPT !.pc = IF plan.ok THEN "embed" ELSE "done",
                            !.by = by, !.query = q, !.plan = plan, !.verified = verified,
                            !.reply = IF plan.ok THEN "none" ELSE "blocked"]
    /\ UNCHANGED <<standing, changes, tree, activeManifest, installer>>

\* generate_semantic_candidates: the nearest of the corpus. A model that does
\* not load gives none.
Embed ==
    LET corpus == {m \in Memories : standing[m] \in Promoted \cup {"candidate"}} \cup Evidence
        closer(e, d) == Affinity[e] > Affinity[d] \/ (Affinity[e] = Affinity[d] /\ e < d)
        nearest == {d \in corpus : Cardinality({e \in corpus : closer(e, d)}) < Limit}
    IN
    /\ search.pc = "embed"
    /\ search' = [search EXCEPT !.pc = "evidence",
                    !.candidates = IF search.plan.semantic /\ search.query.tokens # {}
                                      /\ tree = "sound"
                                   THEN nearest ELSE {}]
    /\ UNCHANGED <<standing, changes, tree, activeManifest, indexReady, installer>>

Standing(states) == {m \in Memories : standing[m] \in states}

\* prior_review_lookup, up to the evidence: the assets are verified again, and
\* exact identifiers are looked up first.
ReadEvidence ==
    /\ search.pc = "evidence"
    /\ IF Verification = "error"
       THEN search' = [search EXCEPT !.pc = "done", !.reply = "error"]
       ELSE search' = [search EXCEPT !.pc = "promoted",
              !.fused = /\ search.verified /\ Verification = "verified"
                        /\ indexReady /\ search.candidates # {},
              !.exact = {d \in Standing(Promoted \cup {"candidate"}) \cup Evidence :
                           IsExact(d, search.query)},
              !.hits.evidence = ExactHits(Evidence) \cup
                                {h \in LexicalHits(Evidence) : ~IsExact(h.doc, search.query)}]
    /\ UNCHANGED <<standing, changes, tree, activeManifest, indexReady, installer>>

\* Mutant: an established item is no exact match.
ReadPromotedProven ==
    /\ search.pc = "promoted"
    /\ search' = [search EXCEPT !.pc = "tentative",
                    !.hits.promoted = ExactHits(Standing({"proven"}))
                                      \cup LexicalHits(Standing(Promoted))]
    /\ UNCHANGED <<standing, changes, tree, activeManifest, indexReady, installer>>

ReadPromoted ==
    /\ search.pc = "promoted"
    /\ search' = [search EXCEPT !.pc = "tentative",
                    !.hits.promoted = ExactHits(Standing(Promoted))
                                      \cup LexicalHits(Standing(Promoted))]
    /\ UNCHANGED <<standing, changes, tree, activeManifest, indexReady, installer>>

ReadTentative ==
    /\ search.pc = "tentative"
    /\ search' = [search EXCEPT !.pc = "hydrate",
                    !.hits.tentative = IF search.plan.tentative
                                       THEN ExactHits(Standing({"candidate"}))
                                            \cup LexicalHits(Standing({"candidate"}))
                                       ELSE {}]
    /\ UNCHANGED <<standing, changes, tree, activeManifest, indexReady, installer>>

Scored(hits) == {[h EXCEPT !.semantic = IF h.doc \in search.candidates THEN Affinity[h.doc] ELSE 0] :
                 h \in hits}
DocsOf(hits) == {h.doc : h \in hits}

\* The classes the plan leaves out are read but not shown.
GiveHits(evidence, promoted, tentative) ==
    search' = [search EXCEPT !.pc = "done", !.reply = "answered",
                 !.hits = [evidence |-> IF "evidence_hits" \in search.plan.classes
                                        THEN First(evidence, Limit) ELSE {},
                           promoted |-> IF "promoted_memory" \in search.plan.classes
                                        THEN First(promoted, Limit) ELSE {},
                           tentative |-> First(tentative, Limit)]]

\* Mutant: whatever is hydrated counts as promoted memory.
HydrateAll ==
    LET hits == search.hits
        missing == {Hit(d, StateOf(d), "lexical", 0) :
                    d \in search.candidates \ DocsOf(hits.evidence \cup hits.promoted \cup hits.tentative)}
    IN
    /\ search.pc = "hydrate"
    /\ GiveHits(Scored(hits.evidence), Scored(hits.promoted \cup missing), Scored(hits.tentative))
    /\ UNCHANGED <<standing, changes, tree, activeManifest, indexReady, installer>>

\* Semantic candidates that no statement found are read by id, and the state
\* they have by now decides on their lane.
Hydrate ==
    LET hits == search.hits
        known == DocsOf(hits.evidence \cup hits.promoted \cup hits.tentative)
        missing == IF search.fused
                   THEN {Hit(d, StateOf(d), "lexical", 0) : d \in search.candidates \ known} ELSE {}
        score(lane) == IF search.fused THEN Scored(lane) ELSE lane
    IN
    /\ search.pc = "hydrate"
    /\ GiveHits(score(hits.evidence \cup {h \in missing : h.doc \in Evidence}),
              score(hits.promoted \cup {h \in missing : h.state \in Promoted}),
              score(hits.tentative \cup {h \in missing : search.plan.tentative /\ h.state = "candidate"}))
    /\ UNCHANGED <<standing, changes, tree, activeManifest, indexReady, installer>>

\* A resolution, elsewhere, creates or moves a memory item.
Restate(m) ==
    /\ Searching /\ changes < MaxChanges
    /\ \E state \in MemoryStates \ {standing[m]} : standing' = [standing EXCEPT ![m] = state]
    /\ changes' = changes + 1
    /\ search' = [search EXCEPT !.moved = @ \cup {m}]
    /\ UNCHANGED <<tree, activeManifest, indexReady, installer>>

SearchNext ==
    \/ Probe \/ WriteActiveManifest \/ VerifyInstall \/ Damage
    \/ BeginSearch \/ Embed \/ ReadEvidence \/ ReadPromoted \/ ReadTentative \/ Hydrate
    \/ \E m \in Memories : Restate(m)

SearchSpec == SearchInit /\ [][SearchNext]_searchVars
----------------------------------------------------------------------------
(* What a reply says of a hit                                                *)

\* recall_posture_for_memory_hit.
Posture(lane, state) ==
    IF state = "anti_pattern" THEN "warning_only"
    ELSE IF lane = "tentative" \/ state = "candidate" THEN "inspect_only"
    ELSE "cite_allowed"

Answered == search.pc = "done" /\ search.reply = "answered"
Settled(m) == m \notin search.moved

----------------------------------------------------------------------------
(* Properties                                                                *)

SearchTypeOK ==
    /\ standing \in [Memories -> MemoryStates \cup {"absent"}]
    /\ tree \in {"absent", "sound", "damaged"}
    /\ activeManifest \in {"absent", "torn", "sound", "damaged"}
    /\ installer \in {"idle", "digest", "verify", "done"}
    /\ search.pc \in {"idle", "embed", "evidence", "promoted", "tentative", "hydrate", "done"}
    /\ search.reply # "none" <=> search.pc = "done"
    /\ \A lane \in DOMAIN NoHits : \A h \in search.hits[lane] :
         h.doc \in (IF lane = "evidence" THEN Evidence ELSE Memories)

\* Tentative memory is for inspection: whatever way a memory item was found,
\* and whatever it becomes while the search reads, a reply shows it as a
\* candidate only to a query that asks for candidates, and never as something
\* to cite; what is shown for citing was promoted when it was read.
TentativeStaysInAudit ==
    Answered => \A lane \in {"promoted", "tentative"} : \A h \in search.hits[lane] :
      /\ h.state = "candidate" => search.plan.tentative /\ Posture(lane, h.state) = "inspect_only"
      /\ Posture(lane, h.state) = "cite_allowed" => h.state \in Promoted

\* The exact, the lexical and the semantic reads find the same documents: one
\* that nothing changed during the search is listed at most once.
ListedOnce ==
    Answered => \A l, m \in DOMAIN NoHits : \A g \in search.hits[l], h \in search.hits[m] :
      g.doc = h.doc /\ Settled(g.doc) => l = m /\ g = h

\* An exact identifier is taken out of the lexical hits because its own lookup
\* finds it: a document that nothing changed during the search, and whose lane
\* the query shows, is not lost between the two.
ExactIsFound ==
    Answered => \A d \in Documents :
      LET lane == IF d \in Evidence THEN "evidence"
                  ELSE IF standing[d] \in Promoted THEN "promoted"
                  ELSE IF standing[d] = "candidate" /\ search.plan.tentative THEN "tentative"
                  ELSE "none"
          shown == CASE lane = "evidence" -> "evidence_hits" \in search.plan.classes
                     [] lane = "promoted" -> "promoted_memory" \in search.plan.classes
                     [] OTHER -> lane = "tentative"
      IN IsExact(d, search.query) /\ Settled(d) /\ shown =>
           \/ \E h \in search.hits[lane] : h.doc = d
           \/ Cardinality(search.hits[lane]) >= Limit

\* What a search lists, whatever changes while it reads its lanes one by one.
SearchInv ==
    /\ SearchTypeOK
    /\ ListedOnce
    /\ ExactIsFound

=============================================================================
