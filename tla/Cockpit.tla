------------------------------- MODULE Cockpit -------------------------------
(***************************************************************************)
(* The terminal cockpit, `rr open`: the reducer of packages/tui/src/       *)
(* model.rs, one key at a time, over the store reached through backend.rs, *)
(* while other `rr` processes and workers change the same store.           *)
(*                                                                         *)
(* The cockpit's fields are the record ui, which every handler maps to     *)
(* another record.  A session, its repository and its one draft batch have *)
(* one name.  A finding is a number, its place in the stored order.  A     *)
(* cursor is kept only where state follows it, on the findings queue;      *)
(* elsewhere a key acts on any row that is listed.  Notices, layout and    *)
(* the letters of a filter are left out.  The event loop is synchronous:   *)
(* while an editor or a launched session holds the terminal (ui.effect) no *)
(* key is read.                                                            *)
(***************************************************************************)
EXTENDS Naturals, FiniteSets

CONSTANTS
    Sessions,       \* review sessions
    Findings,       \* findings, a set of numbers
    OwnerOf,        \* the session of a finding
    NoSession,
    MaxChanges      \* bound: changes to the store, by the cockpit and by others

ASSUME CockpitAssumption ==
    /\ Findings \subseteq Nat \ {0} /\ IsFiniteSet(Findings)
    /\ OwnerOf \in [Findings -> Sessions]
    /\ NoSession \notin Sessions

TriageActions == {"accepted", "ignored"}
TriageStates == {"new"} \cup TriageActions
BatchStates == {"absent", "awaiting_approval", "approved", "posted"}
Bodies == {"draft", "edited"}
Needles == {"", "accepted"}      \* the finding filter: everything, or a state's name
NoFinding == 0

VARIABLES
    listing,    \* store: the findings of a session's latest run
    triage,     \* store: the triage state of each finding
    batch,      \* store: the projected state of each session's draft batch
    body,       \* store: the text of its draft
    review,     \* store: the memory review request of a session's repository
    changes,    \* changes to the store so far
    ui,         \* the cockpit's own state
    deeds,      \* what the last key wrote to the store
    stale       \* the store moved under the queue, or a triage was not read back

savedVars == <<listing, triage, batch, body, review>>
cockpitVars == <<savedVars, changes, ui, deeds, stale>>

NoBatch == [session |-> NoSession, state |-> "absent"]
NoItems == [session |-> NoSession, body |-> "draft"]
NoEffect == [kind |-> "none", session |-> NoSession, body |-> "draft"]
NoOverlay == [kind |-> "none", session |-> NoSession, typed |-> ""]
NoRows == [f \in {} |-> "new"]

(* A cockpit that has just started, on the finder or the picker. *)
Fresh(screen) ==
    [screen |-> screen, overlay |-> NoOverlay, mode |-> "none", active |-> NoSession,
     rows |-> NoRows, cursor |-> 1, needle |-> "", sort |-> "stored", selected |-> {},
     detail |-> NoFinding, batch |-> NoBatch, items |-> NoItems, open |-> NoSession,
     reviews |-> {}, composer |-> NoFinding, effect |-> NoEffect]

------------------------------------------------------------------------------
(* What the queue shows. *)

(* The rows the filter keeps, by the sort key and then the stored order. *)
VisibleFindings(rows, needle) == {f \in DOMAIN rows : needle \in {"", rows[f]}}

Rank(state, sort) == IF sort = "triage" /\ state = "new" THEN 1 ELSE 0

Before(f, g, rows, sort) ==
    \/ Rank(rows[f], sort) < Rank(rows[g], sort)
    \/ Rank(rows[f], sort) = Rank(rows[g], sort) /\ f < g

PlaceOf(f, rows, needle, sort) ==
    1 + Cardinality({g \in VisibleFindings(rows, needle) : Before(g, f, rows, sort)})

FindingAt(place, rows, needle, sort) ==
    LET there == {f \in VisibleFindings(rows, needle) : PlaceOf(f, rows, needle, sort) = place}
    IN  IF there = {} THEN NoFinding ELSE CHOOSE f \in there : TRUE

CurrentFinding(u) == FindingAt(u.cursor, u.rows, u.needle, u.sort)

(* The inspector is loaded again only when the focus is on another finding. *)
RefreshDetail(u, loads) ==
    LET f == CurrentFinding(u)
    IN  IF f = NoFinding THEN [u EXCEPT !.detail = NoFinding]
        ELSE IF u.detail = f THEN u
        ELSE [u EXCEPT !.detail = IF loads THEN f ELSE NoFinding]

LoadedRows(s) == [f \in listing[s] |-> triage[f]]

------------------------------------------------------------------------------
(* Moving between screens. *)

ResetPerSession(u) ==
    [u EXCEPT !.selected = {}, !.needle = "", !.cursor = 1, !.detail = NoFinding,
              !.composer = NoFinding]

(* What a screen lists is loaded again when it is entered; all but the list *)
(* of drafts is dropped here once it is left.                              *)
Forget(u) == [u EXCEPT !.rows = NoRows, !.cursor = 1, !.items = NoItems, !.open = NoSession,
                       !.reviews = {}]

SessionHome(u, s) == ResetPerSession([u EXCEPT !.active = s, !.screen = "SessionHome"])

(* The home of the active session, or of no session: then the finder. *)
HomeForActive(u, loads) ==
    IF u.active = NoSession THEN [u EXCEPT !.screen = "Home"]
    ELSE IF loads THEN [Forget(u) EXCEPT !.screen = "SessionHome"] ELSE u

OpenFindings(u, loads) ==
    LET shown == [u EXCEPT !.rows = LoadedRows(u.active), !.cursor = 1, !.screen = "Findings",
                           !.selected = @ \cap listing[u.active]]
    IN  RefreshDetail(shown, loads)

ListedBatch(s) == IF batch[s] = "absent" THEN NoBatch ELSE [session |-> s, state |-> batch[s]]

PendingReviews(s) == {r \in {s} : review[r] = "pending"}

\* Mutant: the screen is entered although the batches could not be loaded.
OpenDraftsAnyway(u, loads) ==
    [u EXCEPT !.batch = IF loads THEN ListedBatch(u.active) ELSE @, !.screen = "Drafts"]

OpenDrafts(u, loads) ==
    IF loads THEN [u EXCEPT !.batch = ListedBatch(u.active), !.screen = "Drafts"] ELSE u

(* One step of the cockpit that writes nothing to the store. *)
Shows(u) ==
    /\ ui' = u
    /\ deeds' = {}
    /\ UNCHANGED <<savedVars, changes, stale>>

(* One key that may write: what it wrote is what it is held to account for. *)
Writes(what) ==
    /\ deeds' = what
    /\ IF what = {} THEN UNCHANGED changes ELSE changes < MaxChanges /\ changes' = changes + 1

(* The keys reach a screen only past the overlays and the text inputs. *)
On(screen) ==
    /\ ui.overlay = NoOverlay
    /\ ui.mode = "none"
    /\ ui.effect = NoEffect
    /\ ui.screen = screen

Typing(mode) ==
    /\ ui.overlay = NoOverlay
    /\ ui.mode = mode
    /\ ui.effect = NoEffect

------------------------------------------------------------------------------
(* Starting and leaving. *)

(* The cockpit opens on the picker, on one session's home, or on the finder. *)
Bootstrap == {Fresh("Home"), Fresh("Picker")} \cup {SessionHome(Fresh("Home"), s) : s \in Sessions}

(* q, or Ctrl-C at any time; the operator starts the cockpit again. *)
Quit ==
    /\ ui.effect = NoEffect
    /\ ui' \in Bootstrap
    /\ deeds' = {}
    /\ stale' = FALSE
    /\ UNCHANGED <<savedVars, changes>>

(* Enter in the finder or the picker, and Esc out of the picker; a home     *)
(* that cannot be loaded is not opened.                                     *)
OpenSession ==
    /\ On("Home") \/ On("Picker")
    /\ \/ \E s \in Sessions : Shows(SessionHome(ui, s))
       \/ ui.screen = "Picker" /\ Shows([ui EXCEPT !.screen = "Home"])
       \/ Shows(ui)

(* The queue or the timeline is not opened either when its load fails. *)
SessionKeys ==
    /\ On("SessionHome")
    /\ \/ \E loads \in BOOLEAN :
             /\ ui' = OpenFindings(ui, loads)
             /\ stale' = FALSE
             /\ deeds' = {}
             /\ UNCHANGED <<savedVars, changes>>
       \/ \E loads \in BOOLEAN : Shows(OpenDrafts(ui, loads))
       \/ Shows([ui EXCEPT !.screen = "Timeline"])
       \/ \E listed \in {{}, PendingReviews(ui.active)} :
             Shows([ui EXCEPT !.reviews = listed, !.screen = "Search", !.mode = "search"])
       \/ Shows([ui EXCEPT !.mode = "composer", !.composer = NoFinding])
       \/ Shows([ui EXCEPT !.screen = "Home"])
       \/ Shows(ui)

(* o: the terminal goes to `rr review --resume --session <s>`. *)
Launch ==
    \/ /\ On("Home")
       /\ \E s \in Sessions : Shows([ui EXCEPT !.effect.kind = "launch", !.effect.session = s])
    \/ /\ On("SessionHome")
       /\ Shows([ui EXCEPT !.effect.kind = "launch", !.effect.session = ui.active])

(* The child ends, however it ends; an active session is opened again. *)
LaunchReturns ==
    /\ ui.effect.kind = "launch"
    /\ LET back == [ui EXCEPT !.effect = NoEffect]
       IN  \E loads \in BOOLEAN :
              Shows(IF ui.active = NoSession THEN back ELSE HomeForActive(back, loads))

(* Esc from a screen of the session. *)
Back ==
    /\ \/ On("Drafts") \/ On("Timeline") \/ On("Search")
       \/ On("Findings") /\ ui.selected = {} /\ ui.needle = ""
    /\ \E loads \in BOOLEAN : Shows(HomeForActive(ui, loads))

------------------------------------------------------------------------------
(* The findings queue. *)

Move ==
    /\ On("Findings")
    /\ \E next \in {ui.cursor - 1, ui.cursor + 1}, loads \in BOOLEAN :
          /\ next >= 1
          /\ next <= Cardinality(VisibleFindings(ui.rows, ui.needle))
          /\ Shows(RefreshDetail([ui EXCEPT !.cursor = next], loads))

ToggleSelection ==
    /\ On("Findings")
    /\ CurrentFinding(ui) # NoFinding
    /\ LET f == CurrentFinding(ui)
       IN  Shows([ui EXCEPT !.selected = IF f \in @ THEN @ \ {f} ELSE @ \cup {f}])

\* Mutant: the focus moves with the order and the inspector stays.
ResortOnly ==
    /\ On("Findings")
    /\ Shows([ui EXCEPT !.sort = IF @ = "stored" THEN "triage" ELSE "stored", !.cursor = 1])

Resort ==
    /\ On("Findings")
    /\ \E loads \in BOOLEAN :
          Shows(RefreshDetail(
             [ui EXCEPT !.sort = IF @ = "stored" THEN "triage" ELSE "stored", !.cursor = 1], loads))

(* Filtering: each letter puts the focus on the first row that is left; Esc *)
(* drops first the selection, then the filter.                              *)
Filter ==
    \/ On("Findings") /\ Shows([ui EXCEPT !.mode = "finding_filter"])
    \/ /\ Typing("finding_filter")
       /\ \E needle \in Needles, loads \in BOOLEAN :
             Shows(RefreshDetail([ui EXCEPT !.needle = needle, !.cursor = 1], loads))
    \/ Typing("finding_filter") /\ Shows([ui EXCEPT !.mode = "none"])
    \/ On("Findings") /\ ui.selected # {} /\ Shows([ui EXCEPT !.selected = {}])
    \/ /\ On("Findings")
       /\ ui.selected = {} /\ ui.needle # ""
       /\ \E loads \in BOOLEAN :
             Shows(RefreshDetail([ui EXCEPT !.needle = "", !.cursor = 1], loads))

(* What a triage or a draft is about: the selection, or without one the row *)
(* under the cursor (triage) and every accepted row (draft).                *)
TriageTargets == IF ui.selected # {} THEN ui.selected ELSE {CurrentFinding(ui)} \ {NoFinding}
DraftTargets ==
    IF ui.selected # {} THEN ui.selected
    ELSE {f \in DOMAIN ui.rows : ui.rows[f] = "accepted"}

Deed(op, of) == [op |-> op, session |-> ui.active, of |-> of]

(* The queue as it is loaded again, with the cursor on the row it was on. *)
Reloaded(u, rows, loads) ==
    LET anchor == CurrentFinding(u)
        shown == VisibleFindings(rows, u.needle)
        last == Cardinality(shown)
        cursor == IF anchor \in shown THEN PlaceOf(anchor, rows, u.needle, u.sort)
                  ELSE IF last = 0 THEN 1
                  ELSE IF u.cursor > last THEN last ELSE u.cursor
    IN  RefreshDetail([u EXCEPT !.rows = rows, !.selected = @ \cap DOMAIN rows,
                                !.cursor = cursor], loads)

(* Each target in turn gets the state; the first failure stops there, and  *)
(* it or a queue that then cannot be loaded again leaves what is shown as  *)
(* it was.                                                                 *)
Triage ==
    /\ On("Findings")
    /\ TriageTargets # {}
    /\ \E state \in TriageActions, done \in SUBSET TriageTargets, loads \in BOOLEAN :
          /\ \A f \in done, g \in TriageTargets \ done : f < g
          /\ triage' = [f \in Findings |-> IF f \in done THEN state ELSE triage[f]]
          /\ Writes({Deed("triage", OwnerOf[f]) : f \in done})
          /\ \/ /\ done = TriageTargets
                /\ ui' = Reloaded(ui, [f \in listing[ui.active] |-> triage'[f]], loads)
                /\ stale' = FALSE
             \/ ui' = ui /\ stale' = TRUE
    /\ UNCHANGED <<listing, batch, body, review>>

(* d: a batch of the targets, if the store finds all of them accepted and   *)
(* none drafted yet; then the drafts are opened, if they can be loaded.     *)
CreateDraft ==
    /\ On("Findings")
    /\ DraftTargets # {}
    /\ IF /\ batch[ui.active] = "absent"
          /\ \A f \in DraftTargets : triage[f] = "accepted"
       THEN /\ batch' = [batch EXCEPT ![ui.active] = "awaiting_approval"]
            /\ Writes({Deed("draft", OwnerOf[f]) : f \in DraftTargets})
            /\ ui' \in {ui, [Forget(ui) EXCEPT !.screen = "Drafts",
                               !.batch = [session |-> ui.active, state |-> "awaiting_approval"]]}
       ELSE Writes({}) /\ UNCHANGED <<batch, ui>>
    /\ UNCHANGED <<listing, triage, body, review, stale>>

(* c: the composer keeps the finding the cursor was on; Enter files the     *)
(* clarification, and a failure leaves the composer open.                   *)
OpenComposer ==
    /\ On("Findings")
    /\ Shows([ui EXCEPT !.mode = "composer", !.composer = CurrentFinding(ui)])

SubmitClarification ==
    /\ Typing("composer")
    /\ ui' = [ui EXCEPT !.mode = "none", !.composer = NoFinding]
    /\ \/ Writes({})
       \/ Writes({Deed("clarify", IF ui.composer = NoFinding THEN ui.active
                                  ELSE OwnerOf[ui.composer])})
    /\ UNCHANGED <<savedVars, stale>>

------------------------------------------------------------------------------
(* Drafts: the gates for approving and posting, and the editor. *)

Word(kind) == kind

OpenGate(kind, state) ==
    /\ On("Drafts")
    /\ ui.batch.session # NoSession
    /\ ui.batch.state = state
    /\ Shows([ui EXCEPT !.overlay = [kind |-> kind, session |-> ui.batch.session, typed |-> ""]])

TypeInGate ==
    /\ ui.overlay.kind \in {"approve", "post"}
    /\ \/ \E word \in {"", "approve", "post"} : Shows([ui EXCEPT !.overlay.typed = word])
       \/ Shows([ui EXCEPT !.overlay = NoOverlay])

(* The gate is closed and the batch named in it is approved or posted, with *)
(* whatever text it has now; the list is loaded again, or stays if it cannot *)
(* be.                                                                       *)
ConfirmGate ==
    /\ ui.overlay.kind \in {"approve", "post"}
    /\ ui.overlay.typed = Word(ui.overlay.kind)
    /\ LET s == ui.overlay.session
           closed == [ui EXCEPT !.overlay = NoOverlay]
           from == IF ui.overlay.kind = "approve" THEN "awaiting_approval" ELSE "approved"
           to == IF ui.overlay.kind = "approve" THEN "approved" ELSE "posted"
       IN  \/ /\ batch[s] = from
              /\ batch' = [batch EXCEPT ![s] = to]
              /\ Writes({Deed(ui.overlay.kind, s)})
              /\ ui' \in {closed, [closed EXCEPT !.batch = [session |-> s, state |-> to]]}
           \/ /\ Writes({})
              /\ ui' \in {closed, [closed EXCEPT !.batch = ListedBatch(ui.active)]}
              /\ UNCHANGED batch
    /\ UNCHANGED <<listing, triage, body, review, stale>>

OpenItems ==
    /\ On("Drafts")
    /\ ui.batch.session # NoSession
    /\ LET s == ui.batch.session
       IN  Shows([ui EXCEPT !.items = [session |-> s, body |-> body[s]], !.open = s,
                            !.screen = "DraftItems"])

LeaveItems ==
    /\ On("DraftItems")
    /\ Shows([ui EXCEPT !.screen = "Drafts", !.open = NoSession, !.items = NoItems])

(* e: the editor gets the text that was loaded. *)
RequestEdit ==
    /\ On("DraftItems")
    /\ Shows([ui EXCEPT !.effect = [kind |-> "edit", session |-> ui.items.session,
                                    body |-> ui.items.body]])

(* Cancelled, failed or unchanged: nothing is written.  Otherwise the text  *)
(* replaces the one in the store, an approval goes with the old text, and a *)
(* posted draft refuses the change.                                         *)
EditorReturns ==
    /\ ui.effect.kind = "edit"
    /\ LET s == ui.effect.session
           back == [ui EXCEPT !.effect = NoEffect]
       IN  \/ ui' = back /\ Writes({}) /\ UNCHANGED <<batch, body>>
           \/ \E text \in Bodies \ {ui.effect.body} :
                /\ batch[s] # "posted"
                /\ body' = [body EXCEPT ![s] = text]
                /\ batch' = [batch EXCEPT ![s] = "awaiting_approval"]
                /\ Writes({Deed("revise", s)})
                /\ ui' \in {back, [back EXCEPT !.items.body = text]}
    /\ UNCHANGED <<listing, triage, review, stale>>

------------------------------------------------------------------------------
(* Search, and the memory review lane. *)

(* / and Enter query the repository's findings; Esc out of a query nobody  *)
(* ran goes home; m loads the lane of pending requests again.              *)
SearchKeys ==
    \/ On("Search") /\ Shows([ui EXCEPT !.mode = "search"])
    \/ Typing("search") /\ Shows([ui EXCEPT !.mode = "none"])
    \/ /\ Typing("search")
       /\ \E loads \in BOOLEAN : Shows(HomeForActive([ui EXCEPT !.mode = "none"], loads))
    \/ On("Search") /\ Shows([ui EXCEPT !.reviews = PendingReviews(ui.active)])

(* a or x: the focused request is resolved; when that fails, because someone *)
(* else resolved it first or the store is busy, the lane stays as it is.     *)
ResolveReview ==
    /\ On("Search")
    /\ \E s \in ui.reviews :
          \/ /\ review[s] = "pending"
             /\ review' = [review EXCEPT ![s] = "resolved"]
             /\ Writes({Deed("review", s)})
             /\ ui' \in {ui, [ui EXCEPT !.reviews = {}]}
          \/ Writes({}) /\ UNCHANGED <<review, ui>>
    /\ UNCHANGED <<listing, triage, batch, body, stale>>

------------------------------------------------------------------------------
(* Other processes: `rr triage`, `rr approve`, a worker's new run, ... *)
OtherProcesses ==
    /\ changes < MaxChanges
    /\ changes' = changes + 1
    /\ stale' = TRUE
    /\ deeds' = {}
    /\ UNCHANGED ui
    /\ \/ \E s \in Sessions, run \in SUBSET Findings :
            /\ \A f \in run : OwnerOf[f] = s
            /\ listing' = [listing EXCEPT ![s] = run]
            /\ UNCHANGED <<triage, batch, body, review>>
       \/ \E f \in Findings, state \in TriageActions :
            /\ triage' = [triage EXCEPT ![f] = state]
            /\ UNCHANGED <<listing, batch, body, review>>
       \/ \E s \in Sessions :
            /\ batch[s] # "posted"
            /\ batch' = [batch EXCEPT ![s] = CASE @ = "absent" -> "awaiting_approval"
                                              [] @ = "awaiting_approval" -> "approved"
                                              [] @ = "approved" -> "posted"]
            /\ UNCHANGED <<listing, triage, body, review>>
       \/ \E s \in Sessions, new \in Bodies :
            /\ batch[s] \notin {"absent", "posted"}
            /\ body' = [body EXCEPT ![s] = new]
            /\ batch' = [batch EXCEPT ![s] = "awaiting_approval"]
            /\ UNCHANGED <<listing, triage, review>>
       \/ \E s \in Sessions :
            /\ review[s] = "pending"
            /\ review' = [review EXCEPT ![s] = "resolved"]
            /\ UNCHANGED <<listing, triage, batch, body>>

------------------------------------------------------------------------------
CockpitInit ==
    /\ listing = [s \in Sessions |-> {f \in Findings : OwnerOf[f] = s}]
    /\ \/ triage = [f \in Findings |-> "new"] /\ batch = [s \in Sessions |-> "absent"]
       \/ /\ triage = [f \in Findings |-> "accepted"]
          /\ \E state \in BatchStates : batch = [s \in Sessions |-> state]
    /\ body = [s \in Sessions |-> "draft"]
    /\ review = [s \in Sessions |-> "pending"]
    /\ changes = 0
    /\ ui \in Bootstrap
    /\ deeds = {}
    /\ stale = FALSE

CockpitNext ==
    \/ Quit
    \/ OpenSession \/ SessionKeys \/ Launch \/ LaunchReturns \/ Back
    \/ Move \/ ToggleSelection \/ Resort \/ Filter
    \/ Triage \/ CreateDraft \/ OpenComposer \/ SubmitClarification
    \/ OpenGate("approve", "awaiting_approval") \/ OpenGate("post", "approved")
    \/ TypeInGate \/ ConfirmGate
    \/ OpenItems \/ LeaveItems \/ RequestEdit \/ EditorReturns
    \/ SearchKeys \/ ResolveReview
    \/ OtherProcesses

CockpitSpec == CockpitInit /\ [][CockpitNext]_cockpitVars

------------------------------------------------------------------------------
(* The types of the cockpit's fields; a text input and an overlay are never *)
(* open at once, so a letter typed in one cannot be a command in another.   *)
CockpitTypeOK ==
    /\ ui.screen \in {"Picker", "Home", "SessionHome", "Findings", "Drafts", "DraftItems",
                      "Timeline", "Search"}
    /\ ui.active \in Sessions \cup {NoSession}
    /\ ui.screen \notin {"Picker", "Home"} => ui.active # NoSession
    /\ ui.mode # "none" => ui.overlay = NoOverlay /\ ui.effect = NoEffect
    /\ ui.overlay # NoOverlay => ui.effect = NoEffect
    /\ batch \in [Sessions -> BatchStates] /\ body \in [Sessions -> Bodies]
    /\ triage \in [Findings -> TriageStates]

(* Whatever a key writes, a triage of a selection made three screens ago,   *)
(* an approval, a clarification, an edited draft, is about the session that *)
(* is open, although the lists of the session before are still in memory.   *)
WritesAreForActive == \A d \in deeds : d.of = d.session

(* On the queue, the inspector shows the finding under the cursor or        *)
(* nothing, through sorting, filtering, triage and failed loads.            *)
DetailIsFocused ==
    ui.screen = "Findings" => ui.detail \in {NoFinding, CurrentFinding(ui)}

(* On the queue, the selection holds only findings that are in it: never    *)
(* one of another session, or one the newer run dropped.                    *)
SelectionIsListed == ui.screen = "Findings" => ui.selected \subseteq DOMAIN ui.rows

(* While nobody else changes the store and every triage is carried out and  *)
(* read back, the queue shows each finding in the state the store has.      *)
QueueIsTruthful ==
    ui.screen = "Findings" /\ ~stale =>
        \A f \in DOMAIN ui.rows : ui.rows[f] = triage[f]

(* The panes agree with one another and with the store, key by key.        *)
CockpitInv ==
    /\ CockpitTypeOK
    /\ DetailIsFocused
    /\ SelectionIsListed
    /\ QueueIsTruthful

==============================================================================
