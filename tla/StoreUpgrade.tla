---------------------------- MODULE StoreUpgrade ----------------------------
(* Opening the store. Every command opens it, and the first one after an     *)
(* update brings its schema up to date: a batch of statements, a row of the  *)
(* ledger and the version number for each step, none of them in a common     *)
(* transaction. Commands may open the store together, and may be killed.     *)
EXTENDS Integers, FiniteSets

CONSTANTS Current,     \* CURRENT_SCHEMA_VERSION
          Rerunnable,  \* batches that are IF NOT EXISTS throughout
          Starts,      \* schema versions of the stores found; 0: no store yet
          Openers,     \* commands
          MaxStoreSeconds, \* bound: seconds that pass
          MaxStoreKills \* bound: commands that are killed

Batches == 1..Current

ASSUME StoreConstants ==
    /\ Current \in Nat \ {0} /\ Rerunnable \subseteq Batches
    /\ Starts \subseteq 0..Current
    /\ MaxStoreSeconds \in Nat /\ MaxStoreKills \in Nat

VARIABLES foundVersion, \* the version the store had when it was found; no step changes it
          db,          \* [version, effects, ledger]
          journal,     \* migration_journal: <<second, from>> -> state
          checkpoints, \* backups: <<second, from>> -> the version copied
          sidecars,    \* derived indexes: "old" before an upgrade, "rebuild", "fresh"
          marker,      \* the second `rr init` first wrote its marker in; -1: never
          seconds, storeKills,
          opener       \* state of each command

storeVars == <<foundVersion, db, journal, checkpoints, sidecars, marker, seconds, storeKills, opener>>

Unopened == [pc |-> "idle", saw |-> 0, next |-> 0, at |-> 0, outcome |-> "none"]

StoreInit ==
    /\ foundVersion \in Starts
    /\ db = [version |-> foundVersion,
             effects |-> [k \in Batches |-> IF k <= foundVersion THEN "whole" ELSE "none"],
             ledger |-> 1..foundVersion]
    /\ journal = [key \in {} |-> "started"] /\ checkpoints = [key \in {} |-> 0]
    /\ sidecars = IF foundVersion = 0 THEN "fresh" ELSE "old"
    /\ marker = -1
    /\ seconds = 0 /\ storeKills = 0
    /\ opener = [p \in Openers |-> Unopened]

With(f, key, value) == [k \in DOMAIN f \cup {key} |-> IF k = key THEN value ELSE f[k]]

\* classify_store_migration_class.
Class(from) == CASE Current - from <= 1 -> "class_a" [] Current - from = 2 -> "class_b" [] OTHER -> "class_d"
ClassOf(saw) == IF saw = 0 THEN "class_a" ELSE Class(saw)

Attempt(p) == <<opener[p].at, opener[p].saw>>
Steps(p, pc) == opener' = [opener EXCEPT ![p].pc = pc]
Ends(p, outcome) == opener' = [opener EXCEPT ![p].pc = "done", ![p].outcome = outcome]

----------------------------------------------------------------------------
(* apply_migrations                                                          *)

\* An attempt still marked as started is taken for interrupted, even if the
\* command that made it is at work.
OpenStore(p) ==
    /\ opener[p] = Unopened
    /\ journal' = [key \in DOMAIN journal |->
                     IF journal[key] = "started" THEN "needs_operator_recovery" ELSE journal[key]]
    /\ Steps(p, "opened")
    /\ UNCHANGED <<foundVersion, db, checkpoints, sidecars, marker, seconds, storeKills>>

\* Mutant: a class_a upgrade needs no checkpoint.
ClassifyLightly(p) ==
    /\ opener[p].pc = "opened"
    /\ opener' = [opener EXCEPT ![p].saw = db.version, ![p].next = db.version + 1,
         ![p].at = seconds,
         ![p].pc = CASE db.version >= Current -> "done"
                     [] ClassOf(db.version) = "class_d" -> "done"
                     [] ClassOf(db.version) = "class_b" -> "checkpoint"
                     [] OTHER -> "apply",
         ![p].outcome = CASE db.version >= Current -> "open"
                          [] ClassOf(db.version) = "class_d" -> "refused"
                          [] OTHER -> "none"]
    /\ UNCHANGED <<foundVersion, db, journal, checkpoints, sidecars, marker, seconds, storeKills>>

\* A new store is built without a checkpoint; a jump of three and more is
\* refused (open_store_or_response reports it as blocked).
Classify(p) ==
    /\ opener[p].pc = "opened"
    /\ opener' = [opener EXCEPT ![p].saw = db.version, ![p].next = db.version + 1,
         ![p].at = seconds,
         ![p].pc = CASE db.version >= Current -> "done"
                     [] db.version = 0 -> "apply"
                     [] db.version > 0 /\ Class(db.version) = "class_d" -> "done"
                     [] OTHER -> "checkpoint",
         ![p].outcome = CASE db.version >= Current -> "open"
                          [] db.version > 0 /\ Class(db.version) = "class_d" -> "refused"
                          [] OTHER -> "none"]
    /\ UNCHANGED <<foundVersion, db, journal, checkpoints, sidecars, marker, seconds, storeKills>>

\* create_migration_checkpoint. Its directory names the second and the versions:
\* another attempt in the same second copies over it.
Checkpoint(p) ==
    /\ opener[p].pc = "checkpoint"
    /\ checkpoints' = With(checkpoints, Attempt(p), db.version)
    /\ Steps(p, "begin")
    /\ UNCHANGED <<foundVersion, db, journal, sidecars, marker, seconds, storeKills>>

Begin(p) ==
    /\ opener[p].pc = "begin"
    /\ IF Attempt(p) \in DOMAIN journal
       THEN Ends(p, "error") /\ UNCHANGED journal
       ELSE journal' = With(journal, Attempt(p), "started") /\ Steps(p, "apply")
    /\ UNCHANGED <<foundVersion, db, checkpoints, sidecars, marker, seconds, storeKills>>

\* A failure after the attempt was recorded is recorded with it.
Fails(p) ==
    /\ journal' = IF opener[p].saw > 0 THEN With(journal, Attempt(p), "failed_pre_commit") ELSE journal
    /\ Ends(p, "error")

\* The batches above the version that the command saw, in order. A batch that
\* is not rerunnable fails on what an earlier run of it left behind.
Apply(p) ==
    LET k == opener[p].next IN
    /\ opener[p].pc = "apply"
    /\ IF db.effects[k] # "none" /\ k \notin Rerunnable
       THEN Fails(p) /\ UNCHANGED db
       ELSE db' = [db EXCEPT !.effects[k] = "whole"] /\ Steps(p, "log") /\ UNCHANGED journal
    /\ UNCHANGED <<foundVersion, checkpoints, sidecars, marker, seconds, storeKills>>

\* Mutant: a row that is there already is replaced.
LogOrReplace(p) ==
    /\ opener[p].pc = "log"
    /\ db' = [db EXCEPT !.ledger = @ \cup {opener[p].next}]
    /\ Steps(p, "bump")
    /\ UNCHANGED <<foundVersion, journal, checkpoints, sidecars, marker, seconds, storeKills>>

\* The row of schema_migrations: its key is the version.
Log(p) ==
    LET k == opener[p].next IN
    /\ opener[p].pc = "log"
    /\ IF k \in db.ledger THEN Fails(p) /\ UNCHANGED db
       ELSE db' = [db EXCEPT !.ledger = @ \cup {k}] /\ Steps(p, "bump") /\ UNCHANGED journal
    /\ UNCHANGED <<foundVersion, checkpoints, sidecars, marker, seconds, storeKills>>

AfterLast(saw) == IF ClassOf(saw) = "class_b" THEN "invalidate" ELSE "commit"

\* Mutant: the version is written once, after the first batch.
BumpToCurrent(p) ==
    /\ opener[p].pc = "bump"
    /\ db' = [db EXCEPT !.version = Current]
    /\ opener' = [opener EXCEPT ![p].next = @ + 1,
         ![p].pc = IF opener[p].next < Current THEN "apply" ELSE AfterLast(opener[p].saw)]
    /\ UNCHANGED <<foundVersion, journal, checkpoints, sidecars, marker, seconds, storeKills>>

Bump(p) ==
    /\ opener[p].pc = "bump"
    /\ db' = [db EXCEPT !.version = opener[p].next]
    /\ opener' = [opener EXCEPT ![p].next = @ + 1,
         ![p].pc = IF opener[p].next < Current THEN "apply" ELSE AfterLast(opener[p].saw)]
    /\ UNCHANGED <<foundVersion, journal, checkpoints, sidecars, marker, seconds, storeKills>>

\* invalidate_sidecars_for_migration.
Invalidate(p) ==
    /\ opener[p].pc = "invalidate"
    /\ sidecars' = "rebuild"
    /\ Steps(p, "commit")
    /\ UNCHANGED <<foundVersion, db, journal, checkpoints, marker, seconds, storeKills>>

Commit(p) ==
    /\ opener[p].pc = "commit"
    /\ journal' = IF opener[p].saw > 0 THEN With(journal, Attempt(p), "committed") ELSE journal
    /\ Ends(p, "open")
    /\ UNCHANGED <<foundVersion, db, checkpoints, sidecars, marker, seconds, storeKills>>

----------------------------------------------------------------------------
(* What commands do with it, and the rest of the world                       *)

\* `rr init` only adds its marker to what opening did.
WriteMarker(p) ==
    /\ opener[p].outcome = "open"
    /\ marker' = IF marker = -1 THEN seconds ELSE marker
    /\ opener[p].pc = "done" /\ Steps(p, "left")
    /\ UNCHANGED <<foundVersion, db, journal, checkpoints, sidecars, seconds, storeKills>>

\* A killed command stops where it is; a batch that it was running may be half
\* done.
Kill(p) ==
    /\ storeKills < MaxStoreKills
    /\ opener[p].pc \notin {"idle", "done", "left"}
    /\ \/ UNCHANGED db
       \/ /\ opener[p].pc = "apply" /\ db.effects[opener[p].next] = "none"
          /\ db' = [db EXCEPT !.effects[opener[p].next] = "part"]
    /\ opener' = [opener EXCEPT ![p] = Unopened]
    /\ storeKills' = storeKills + 1
    /\ UNCHANGED <<foundVersion, journal, checkpoints, sidecars, marker, seconds>>

Again(p) ==
    /\ opener[p].pc = "done" /\ opener[p].outcome # "open"
    /\ opener' = [opener EXCEPT ![p] = Unopened]
    /\ UNCHANGED <<foundVersion, db, journal, checkpoints, sidecars, marker, seconds, storeKills>>

NextSecond ==
    /\ seconds < MaxStoreSeconds
    /\ seconds' = seconds + 1
    /\ UNCHANGED <<foundVersion, db, journal, checkpoints, sidecars, marker, storeKills, opener>>

StoreNext ==
    \/ \E p \in Openers :
         \/ OpenStore(p) \/ Classify(p) \/ Checkpoint(p) \/ Begin(p)
         \/ Apply(p) \/ Log(p) \/ Bump(p) \/ Invalidate(p) \/ Commit(p)
         \/ WriteMarker(p) \/ Kill(p) \/ Again(p)
    \/ NextSecond

StoreSpec == StoreInit /\ [][StoreNext]_storeVars
----------------------------------------------------------------------------
(* Properties                                                                *)

StoreTypeOK ==
    /\ db.version \in 0..Current
    /\ db.effects \in [Batches -> {"none", "part", "whole"}]
    /\ db.ledger \subseteq Batches
    /\ \A key \in DOMAIN journal :
         /\ journal[key] \in {"started", "committed", "failed_pre_commit", "needs_operator_recovery"}
         /\ key \in DOMAIN checkpoints
    /\ sidecars \in {"old", "rebuild", "fresh"}
    /\ \A p \in Openers : opener[p].next \in 0..(Current + 1)

\* However many commands upgrade the store at once and wherever they are
\* killed, the version number never claims a batch that is not in the database
\* or not in the ledger: a reader can rely on it.
VersionIsHonest == \A k \in 1..db.version : db.effects[k] = "whole" /\ k \in db.ledger

\* A command that is slow to write its version number does not take back the
\* one a faster command wrote.
VersionNeverFalls == [][db'.version >= db.version]_storeVars

\* "the canonical DB is backed up before any migration class that is not
\* trivially reversible": no store that was found is changed before an attempt
\* from its version is in the journal, with a checkpoint.
BackedUpBeforeChange ==
    foundVersion > 0 /\ (\E k \in Batches : k > foundVersion /\ db.effects[k] # "none") =>
      \E key \in DOMAIN journal \cap DOMAIN checkpoints : key[2] = foundVersion

\* "This is what makes crash recovery and operator support honest": an attempt
\* is committed only when the schema is current and, where the class asks for
\* it, the derived indexes of the old schema are invalid.
CommittedIsComplete ==
    \A key \in DOMAIN journal : journal[key] = "committed" =>
      /\ db.version = Current
      /\ Class(key[2]) = "class_b" => sidecars # "old"

\* What the journal and the checkpoints say of an upgrade is true, also when
\* commands upgrade together or are killed.
StoreInv ==
    /\ StoreTypeOK
    /\ BackedUpBeforeChange
    /\ CommittedIsComplete

=============================================================================
