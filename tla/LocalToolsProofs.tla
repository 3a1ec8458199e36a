--------------------------- MODULE LocalToolsProofs ---------------------------
(*****************************************************************************)
(* Proofs about what runs on one machine, each component for every value of  *)
(* its constants: the store that commands open and upgrade, the cockpit over *)
(* it, and the binary and the host files that `rr` installs.                 *)
(*****************************************************************************)
EXTENDS StoreUpgrade, Cockpit, HostInstall,
        FiniteSetTheorems, WellFoundedInduction, TLAPS

-------------------------------------------------------------------------------
(***************************************************************************)
(* Proofs about StoreUpgrade for every number of schema versions, whatever *)
(* batches can be run again, and any number of commands, kills and         *)
(* seconds: the version number is honest and never falls, and what the     *)
(* journal and the checkpoints say of an upgrade is true.                  *)
(***************************************************************************)

Effects  == {"none", "part", "whole"}
Pcs      == {"idle", "opened", "checkpoint", "begin", "apply", "log", "bump",
             "invalidate", "commit", "done", "left"}
Outcomes == {"none", "open", "refused", "error"}
Opener   == [pc : Pcs, saw : 0..Current, next : 0..(Current + 1), at : Nat,
             outcome : Outcomes]

\* What the proof needs of the types.
RowsOK ==
  /\ db \in [version : 0..Current, effects : [Batches -> Effects],
             ledger : SUBSET Batches]
  /\ opener \in [Openers -> Opener]
  /\ seconds \in Nat

\* The ledger has every batch up to the version, and at most the next one:
\* its row is written before the version. A batch in it is in the database.
LedgerLeads ==
  /\ 1..db.version \subseteq db.ledger
  /\ db.ledger \subseteq 1..(db.version + 1)
  /\ \A k \in db.ledger : db.effects[k] = "whole"

\* A command on its way stands at most one batch ahead of the version, also
\* when others overtook it; one that is about to write the version wrote the
\* row of the very next batch.
Stands(o) ==
  /\ o.pc \in {"checkpoint", "begin", "apply", "log", "bump"}
       => o.next \in Batches /\ o.next <= db.version + 1
  /\ o.pc = "log"  => db.effects[o.next] = "whole"
  /\ o.pc = "bump" => o.next = db.version + 1 /\ o.next \in db.ledger

\* The row of a batch admits one command to the version number.
OneBumps ==
  \A p, q \in Openers : opener[p].pc = "bump" /\ opener[q].pc = "bump" => p = q

UpgradeInv ==
  /\ RowsOK
  /\ LedgerLeads
  /\ \A p \in Openers : Stands(opener[p])
  /\ OneBumps

-----------------------------------------------------------------------------
LEMMA UnopenedType == Unopened \in Opener
BY StoreConstants DEF Unopened, Opener, Pcs, Outcomes

LEMMA UpgradeInit == StoreInit => UpgradeInv
<1> SUFFICES ASSUME StoreInit PROVE UpgradeInv
  OBVIOUS
<1> USE StoreConstants DEF StoreInit
<1>1. foundVersion \in 0..Current
  OBVIOUS
<1>2. RowsOK
  BY <1>1, UnopenedType DEF RowsOK, Batches, Effects
<1>3. LedgerLeads
  BY <1>1 DEF LedgerLeads, Batches
<1>4. \A p \in Openers : Stands(opener[p]) /\ opener[p].pc # "bump"
  BY DEF Stands, Unopened
<1> QED BY <1>2, <1>3, <1>4 DEF UpgradeInv, OneBumps

\* A step that leaves the database alone and takes one command anywhere but to
\* the version number.
LEMMA MoveKeeps ==
  ASSUME UpgradeInv, NEW p \in Openers, NEW o \in Opener, Stands(o),
         o.pc # "bump", opener' = [opener EXCEPT ![p] = o],
         UNCHANGED db, seconds' \in Nat
  PROVE  UpgradeInv'
<1>1. RowsOK'
  BY DEF UpgradeInv, RowsOK
<1>2. LedgerLeads'
  BY DEF UpgradeInv, LedgerLeads
<1>3. \A q \in Openers : opener'[q] = IF q = p THEN o ELSE opener[q]
  BY DEF UpgradeInv, RowsOK
<1>4. ASSUME NEW q \in Openers PROVE Stands(opener[q])'
  BY <1>3 DEF UpgradeInv, Stands
<1>5. OneBumps'
  BY <1>3 DEF UpgradeInv, OneBumps
<1> QED BY <1>1, <1>2, <1>4, <1>5 DEF UpgradeInv

\* The command takes its next pc, or ends.
LEMMA GoesTo ==
  ASSUME UpgradeInv, NEW p \in Openers, NEW pc \in Pcs, Steps(p, pc)
  PROVE  /\ opener' = [opener EXCEPT ![p] = [opener[p] EXCEPT !.pc = pc]]
         /\ [opener[p] EXCEPT !.pc = pc] \in Opener
BY DEF UpgradeInv, RowsOK, Opener, Steps

LEMMA EndsAt ==
  ASSUME UpgradeInv, NEW p \in Openers, NEW outcome \in Outcomes,
         Ends(p, outcome), UNCHANGED <<db, seconds>>
  PROVE  UpgradeInv'
<1> DEFINE o == [opener[p] EXCEPT !.pc = "done", !.outcome = outcome]
<1>1. o \in Opener /\ o.pc = "done"
  BY DEF UpgradeInv, RowsOK, Opener, Pcs
<1>2. opener' = [opener EXCEPT ![p] = o]
  BY DEF UpgradeInv, RowsOK, Opener, Ends
<1>3. Stands(o)
  BY <1>1 DEF Stands
<1>4. seconds' \in Nat
  BY DEF UpgradeInv, RowsOK
<1> HIDE DEF o
<1> QED BY <1>1, <1>2, <1>3, <1>4, MoveKeeps

LEMMA StepsTo ==
  ASSUME UpgradeInv, NEW p \in Openers,
         NEW pc \in {"opened", "begin", "apply", "commit", "left"},
         Steps(p, pc), UNCHANGED <<db, seconds>>,
         pc \in {"begin", "apply"}
           => opener[p].pc \in {"checkpoint", "begin"}
  PROVE  UpgradeInv'
<1> DEFINE o == [opener[p] EXCEPT !.pc = pc]
<1>1. o \in Opener /\ opener' = [opener EXCEPT ![p] = o]
  BY GoesTo, ZenonT(60) DEF Pcs
<1>2. o.pc = pc /\ o.next = opener[p].next
  BY DEF UpgradeInv, RowsOK, Opener
<1>3. Stands(o)
  BY <1>2 DEF UpgradeInv, Stands
<1>4. seconds' \in Nat
  BY DEF UpgradeInv, RowsOK
<1> HIDE DEF o
<1> QED BY <1>1, <1>2, <1>3, <1>4, MoveKeeps

LEMMA ClassifyKeeps ==
  ASSUME UpgradeInv, NEW p \in Openers, Classify(p)
  PROVE  UpgradeInv'
<1> USE StoreConstants
<1> DEFINE
  v == db.version
  pc == CASE v >= Current -> "done"
          [] v = 0 -> "apply"
          [] Class(v) = "class_d" -> "done"
          [] OTHER -> "checkpoint"
  outcome == CASE v >= Current -> "open"
               [] v > 0 /\ Class(v) = "class_d" -> "refused"
               [] OTHER -> "none"
  o == [opener[p] EXCEPT !.saw = v, !.next = v + 1, !.at = seconds, !.pc = pc,
                         !.outcome = outcome]
<1>1. v \in 0..Current /\ opener[p] \in Opener /\ seconds \in Nat
  BY DEF UpgradeInv, RowsOK
<1>2. opener' = [opener EXCEPT ![p] = o] /\ UNCHANGED <<db, seconds>>
  BY DEF Classify, UpgradeInv, RowsOK, Opener
<1>3. pc \in {"done", "apply", "checkpoint"} /\ (v >= Current => pc = "done")
  BY <1>1
<1>4. outcome \in Outcomes
  BY <1>1 DEF Outcomes
<1> HIDE DEF pc, outcome
<1>5. o \in Opener /\ o.next = v + 1 /\ o.pc = pc
  <2>1. v + 1 \in 0..(Current + 1) /\ pc \in Pcs
    BY <1>1, <1>3 DEF Pcs
  <2> QED BY <1>1, <1>4, <2>1 DEF Opener
<1>6. Stands(o)
  BY <1>1, <1>3, <1>5 DEF Stands, Batches
<1>7. UNCHANGED db /\ seconds' \in Nat /\ o.pc # "bump"
  BY <1>1, <1>2, <1>3, <1>5
<1> HIDE DEF o
<1> QED BY <1>2, <1>5, <1>6, <1>7, MoveKeeps

LEMMA BumpKeeps ==
  ASSUME UpgradeInv, NEW p \in Openers, Bump(p)
  PROVE  UpgradeInv' /\ db'.version = db.version + 1
<1> USE StoreConstants
<1> DEFINE
  v == db.version
  pc == IF opener[p].next < Current THEN "apply" ELSE AfterLast(opener[p].saw)
  o == [opener[p] EXCEPT !.next = opener[p].next + 1, !.pc = pc]
<1>1. v \in 0..Current /\ opener[p] \in Opener /\ seconds \in Nat
  BY DEF UpgradeInv, RowsOK
<1>2. opener[p].next = v + 1 /\ v + 1 \in db.ledger /\ v + 1 \in Batches
  BY DEF Bump, UpgradeInv, Stands
<1>3. /\ db' = [db EXCEPT !.version = v + 1]
      /\ db'.version = v + 1 /\ db'.effects = db.effects /\ db'.ledger = db.ledger
  BY <1>2 DEF Bump, UpgradeInv, RowsOK
<1>4. pc \in {"apply", "invalidate", "commit"} /\ (pc = "apply" => v + 1 < Current)
  BY <1>2 DEF AfterLast
<1>5. opener' = [opener EXCEPT ![p] = o] /\ UNCHANGED seconds
  BY DEF Bump, UpgradeInv, RowsOK, Opener
<1> HIDE DEF pc
<1>6. o \in Opener /\ o.pc = pc /\ o.next = v + 2
  <2>1. v + 2 \in 0..(Current + 1) /\ pc \in Pcs /\ opener[p].next + 1 = v + 2
    BY <1>1, <1>2, <1>4 DEF Pcs, Batches
  <2> QED BY <1>1, <2>1 DEF Opener
<1> HIDE DEF o
<1>7. \A q \in Openers : opener'[q] = IF q = p THEN o ELSE opener[q]
  BY <1>5 DEF UpgradeInv, RowsOK
<1>8. RowsOK'
  <2>1. db' \in [version : 0..Current, effects : [Batches -> Effects],
                 ledger : SUBSET Batches]
    BY <1>1, <1>2, <1>3 DEF UpgradeInv, RowsOK, Batches
  <2>2. opener' \in [Openers -> Opener]
    BY <1>5, <1>6 DEF UpgradeInv, RowsOK
  <2> QED BY <1>1, <1>5, <2>1, <2>2 DEF RowsOK
<1>9. LedgerLeads'
  BY <1>1, <1>2, <1>3 DEF UpgradeInv, LedgerLeads
<1>10. \A q \in Openers : q # p => opener[q].pc # "bump"
  BY DEF Bump, UpgradeInv, OneBumps
<1>11. ASSUME NEW q \in Openers PROVE Stands(opener[q])'
  <2>1. CASE q = p
    <3>1. opener'[q] = o
      BY <2>1, <1>7
    <3>2. o.pc = "apply" => o.next \in Batches /\ o.next <= db'.version + 1
      BY <1>1, <1>3, <1>4, <1>6 DEF Batches
    <3> QED BY <1>4, <1>6, <3>1, <3>2 DEF Stands
  <2>2. CASE q # p
    <3>1. Stands(opener[q]) /\ opener[q] \in Opener /\ opener'[q] = opener[q]
      BY <2>2, <1>7 DEF UpgradeInv, RowsOK
    <3>2. opener[q].next \in Int
      BY <3>1 DEF Opener
    <3> QED BY <2>2, <3>1, <3>2, <1>1, <1>3, <1>10 DEF Stands, Batches
  <2> QED BY <2>1, <2>2
<1>12. OneBumps'
  BY <1>4, <1>6, <1>7, <1>10 DEF OneBumps
<1> QED BY <1>3, <1>8, <1>9, <1>11, <1>12 DEF UpgradeInv

LEMMA ApplyKeeps ==
  ASSUME UpgradeInv, NEW p \in Openers, Apply(p)
  PROVE  UpgradeInv'
<1> DEFINE k == opener[p].next
<1>1. k \in Batches /\ k <= db.version + 1
  BY DEF Apply, UpgradeInv, Stands
<1>2. CASE db.effects[k] # "none" /\ k \notin Rerunnable
  BY <1>2, EndsAt DEF Apply, Fails, Outcomes
<1>3. CASE ~(db.effects[k] # "none" /\ k \notin Rerunnable)
  <2> DEFINE o == [opener[p] EXCEPT !.pc = "log"]
  <2>1. db' = [db EXCEPT !.effects[k] = "whole"] /\ Steps(p, "log")
        /\ UNCHANGED seconds
    BY <1>3 DEF Apply
  <2>2. o \in Opener /\ opener' = [opener EXCEPT ![p] = o]
    BY <2>1, GoesTo DEF Pcs
  <2>3. o.pc = "log" /\ o.next = k
    BY DEF UpgradeInv, RowsOK, Opener
  <2>4. /\ db'.version = db.version /\ db'.ledger = db.ledger
        /\ db'.effects \in [Batches -> Effects]
        /\ \A j \in Batches : db'.effects[j] = IF j = k THEN "whole" ELSE db.effects[j]
    BY <2>1, <1>1 DEF UpgradeInv, RowsOK, Effects
  <2>5. \A q \in Openers : opener'[q] = IF q = p THEN o ELSE opener[q]
    BY <2>2 DEF UpgradeInv, RowsOK
  <2>6. RowsOK'
    BY <2>1, <2>2, <2>4 DEF UpgradeInv, RowsOK
  <2>7. LedgerLeads'
    BY <2>4 DEF UpgradeInv, RowsOK, LedgerLeads
  <2>8. ASSUME NEW q \in Openers PROVE Stands(opener[q])'
    <3>1. CASE q = p
      <4>1. opener'[q] = o
        BY <2>5, <3>1
      <4> HIDE DEF o
      <4> QED BY <1>1, <2>3, <2>4, <4>1 DEF Stands
    <3>2. CASE q # p
      <4>1. opener'[q] = opener[q] /\ Stands(opener[q])
        BY <2>5, <3>2 DEF UpgradeInv
      <4> QED BY <2>4, <4>1 DEF Stands
    <3> QED BY <3>1, <3>2
  <2>9. OneBumps'
    BY <2>3, <2>5, ZenonT(60) DEF UpgradeInv, OneBumps
  <2> QED BY <2>6, <2>7, <2>8, <2>9 DEF UpgradeInv
<1> QED BY <1>2, <1>3

LEMMA LogKeeps ==
  ASSUME UpgradeInv, NEW p \in Openers, Log(p)
  PROVE  UpgradeInv'
<1> USE StoreConstants
<1> DEFINE k == opener[p].next
<1>1. k \in Batches /\ k <= db.version + 1 /\ db.effects[k] = "whole"
  BY DEF Log, UpgradeInv, Stands
<1>2. CASE k \in db.ledger
  BY <1>2, EndsAt DEF Log, Fails, Outcomes
<1>3. CASE k \notin db.ledger
  <2> DEFINE o == [opener[p] EXCEPT !.pc = "bump"]
  <2>1. db' = [db EXCEPT !.ledger = @ \cup {k}] /\ Steps(p, "bump")
        /\ UNCHANGED seconds
    BY <1>3 DEF Log
  <2>2. o \in Opener /\ opener' = [opener EXCEPT ![p] = o]
    BY <2>1, GoesTo DEF Pcs
  <2>3. o.pc = "bump" /\ o.next = k
    BY DEF UpgradeInv, RowsOK, Opener
  <2>4. /\ db'.version = db.version /\ db'.effects = db.effects
        /\ db'.ledger = db.ledger \cup {k}
    BY <2>1 DEF UpgradeInv, RowsOK
  <2>5. \A q \in Openers : opener'[q] = IF q = p THEN o ELSE opener[q]
    BY <2>2 DEF UpgradeInv, RowsOK
  <2>6. db.version \in Nat
    BY DEF UpgradeInv, RowsOK
  \* Only the next batch is missing from the ledger, so nobody is past it.
  <2>7. k = db.version + 1
    BY <1>1, <1>3, <2>6 DEF UpgradeInv, LedgerLeads, Batches
  <2>8. \A q \in Openers : opener[q].pc # "bump"
    BY <1>3, <2>7 DEF UpgradeInv, Stands
  <2>9. RowsOK'
    BY <1>1, <2>1, <2>2, <2>4 DEF UpgradeInv, RowsOK
  <2>10. LedgerLeads'
    BY <1>1, <2>4, <2>6, <2>7 DEF UpgradeInv, LedgerLeads
  <2>11. ASSUME NEW q \in Openers PROVE Stands(opener[q])'
    BY <1>1, <2>3, <2>4, <2>5, <2>7, <2>8 DEF UpgradeInv, Stands
  <2>12. OneBumps'
    BY <2>3, <2>5, <2>8 DEF OneBumps
  <2> QED BY <2>9, <2>10, <2>11, <2>12 DEF UpgradeInv
<1> QED BY <1>2, <1>3

LEMMA KillKeeps ==
  ASSUME UpgradeInv, NEW p \in Openers, Kill(p)
  PROVE  UpgradeInv'
<1> DEFINE k == opener[p].next
<1>1. Stands(Unopened) /\ Unopened.pc = "idle"
  BY DEF Stands, Unopened
<1>2. opener' = [opener EXCEPT ![p] = Unopened] /\ seconds' \in Nat
  BY DEF Kill, UpgradeInv, RowsOK
<1>3. CASE UNCHANGED db
  BY <1>1, <1>2, <1>3, UnopenedType, MoveKeeps
<1>4. CASE /\ opener[p].pc = "apply" /\ db.effects[k] = "none"
           /\ db' = [db EXCEPT !.effects[k] = "part"]
  <2>1. k \in Batches
    BY <1>4 DEF UpgradeInv, Stands
  <2>2. /\ db'.version = db.version /\ db'.ledger = db.ledger
        /\ db'.effects \in [Batches -> Effects]
        /\ \A j \in Batches : db'.effects[j] = IF j = k THEN "part" ELSE db.effects[j]
    BY <1>4, <2>1 DEF UpgradeInv, RowsOK, Effects
  <2>3. \A q \in Openers : opener'[q] = IF q = p THEN Unopened ELSE opener[q]
    BY <1>2 DEF UpgradeInv, RowsOK
  <2>4. RowsOK'
    BY <1>2, <1>4, <2>2, UnopenedType DEF UpgradeInv, RowsOK
  <2>5. LedgerLeads'
    BY <1>4, <2>2 DEF UpgradeInv, RowsOK, LedgerLeads
  <2>6. ASSUME NEW q \in Openers PROVE Stands(opener[q])'
    BY <1>1, <1>4, <2>2, <2>3 DEF UpgradeInv, Stands
  <2>7. OneBumps'
    BY <1>1, <2>3 DEF UpgradeInv, OneBumps
  <2> QED BY <2>4, <2>5, <2>6, <2>7 DEF UpgradeInv
<1> QED BY <1>3, <1>4 DEF Kill

LEMMA UpgradeStep == UpgradeInv /\ [StoreNext]_storeVars => UpgradeInv'
<1> SUFFICES ASSUME UpgradeInv, [StoreNext]_storeVars PROVE UpgradeInv'
  OBVIOUS
<1>0. seconds \in Nat /\ \A p \in Openers : opener[p] \in Opener
  BY DEF UpgradeInv, RowsOK
<1>1. ASSUME NEW p \in Openers, OpenStore(p) PROVE UpgradeInv'
  BY <1>1, StepsTo DEF OpenStore
<1>2. ASSUME NEW p \in Openers, Classify(p) PROVE UpgradeInv'
  BY <1>2, ClassifyKeeps
<1>3. ASSUME NEW p \in Openers, Checkpoint(p) PROVE UpgradeInv'
  BY <1>3, StepsTo DEF Checkpoint
<1>4. ASSUME NEW p \in Openers, Begin(p) PROVE UpgradeInv'
  <2>1. CASE Attempt(p) \in DOMAIN journal
    BY <1>4, <2>1, EndsAt DEF Begin, Outcomes
  <2>2. CASE Attempt(p) \notin DOMAIN journal
    BY <1>4, <2>2, StepsTo DEF Begin
  <2> QED BY <2>1, <2>2
<1>5. ASSUME NEW p \in Openers, Apply(p) PROVE UpgradeInv'
  BY <1>5, ApplyKeeps
<1>6. ASSUME NEW p \in Openers, Log(p) PROVE UpgradeInv'
  BY <1>6, LogKeeps
<1>7. ASSUME NEW p \in Openers, Bump(p) PROVE UpgradeInv'
  BY <1>7, BumpKeeps
<1>8. ASSUME NEW p \in Openers, Invalidate(p) PROVE UpgradeInv'
  BY <1>8, StepsTo DEF Invalidate
<1>9. ASSUME NEW p \in Openers, Commit(p) PROVE UpgradeInv'
  BY <1>9, EndsAt DEF Commit, Outcomes
<1>10. ASSUME NEW p \in Openers, WriteMarker(p) PROVE UpgradeInv'
  BY <1>10, StepsTo DEF WriteMarker
<1>11. ASSUME NEW p \in Openers, Kill(p) PROVE UpgradeInv'
  BY <1>11, KillKeeps
<1>12. ASSUME NEW p \in Openers, Again(p) PROVE UpgradeInv'
  <2>1. Stands(Unopened) /\ Unopened.pc = "idle"
    BY DEF Stands, Unopened
  <2>2. /\ opener' = [opener EXCEPT ![p] = Unopened]
        /\ UNCHANGED db /\ seconds' \in Nat
    BY <1>0, <1>12 DEF Again
  <2> QED BY <2>1, <2>2, UnopenedType, MoveKeeps
<1>13. CASE NextSecond
  <2>1. UNCHANGED <<db, opener>> /\ seconds' \in Nat
    BY <1>0, <1>13 DEF NextSecond
  <2> QED BY <2>1 DEF UpgradeInv, RowsOK, LedgerLeads, Stands, OneBumps
<1>14. CASE UNCHANGED storeVars
  BY <1>14 DEF storeVars, UpgradeInv, RowsOK, LedgerLeads, Stands, OneBumps
<1> QED
  BY <1>1, <1>2, <1>3, <1>4, <1>5, <1>6, <1>7, <1>8, <1>9, <1>10, <1>11,
     <1>12, <1>13, <1>14 DEF StoreNext

LEMMA Upgrading == StoreSpec => []UpgradeInv
BY UpgradeInit, UpgradeStep, PTL DEF StoreSpec

-----------------------------------------------------------------------------
\* The version number never claims a batch that is not in the database and in
\* the ledger, whatever commands apply_migrations runs in at once and wherever
\* they are killed.
THEOREM HonestVersion == StoreSpec => []VersionIsHonest
<1>1. UpgradeInv => VersionIsHonest
  BY DEF UpgradeInv, LedgerLeads, VersionIsHonest
<1> QED BY <1>1, Upgrading, PTL

\* No command takes back the version another one wrote: only the one that
\* wrote the row of the next batch gets to write its number.
THEOREM MonotonicVersion == StoreSpec => VersionNeverFalls
<1>1. UpgradeInv /\ [StoreNext]_storeVars
        => [db'.version >= db.version]_storeVars
  <2> SUFFICES ASSUME UpgradeInv, [StoreNext]_storeVars
               PROVE  db'.version >= db.version
    OBVIOUS
  <2>1. db.version \in Nat
    BY DEF UpgradeInv, RowsOK
  <2>2. ASSUME NEW p \in Openers, Bump(p) PROVE db'.version >= db.version
    BY <2>1, <2>2, BumpKeeps
  <2>3. ASSUME NEW p \in Openers,
               \/ OpenStore(p) \/ Classify(p) \/ Checkpoint(p) \/ Begin(p)
               \/ Apply(p) \/ Log(p) \/ Invalidate(p) \/ Commit(p)
               \/ WriteMarker(p) \/ Kill(p) \/ Again(p)
        PROVE  db'.version = db.version
    BY <2>3 DEF UpgradeInv, RowsOK, OpenStore, Classify, Checkpoint, Begin,
                Apply, Log, Invalidate, Commit, WriteMarker, Kill, Again
  <2>4. CASE NextSecond \/ UNCHANGED storeVars
    BY <2>1, <2>4 DEF NextSecond, storeVars
  <2> QED BY <2>1, <2>2, <2>3, <2>4 DEF StoreNext
<1> QED BY <1>1, Upgrading, PTL DEF StoreSpec, VersionNeverFalls

-----------------------------------------------------------------------------
\* The journal and the checkpoints.

\* What a command on its way carries from the version it saw: it did not see an
\* older version than was found, its checkpoint is taken before it begins, its
\* attempt is in the journal before it applies anything, and it only gets past
\* the last batch when the version is current.
Carries(o) ==
  LET key == <<o.at, o.saw>> IN
  /\ o.pc \in {"checkpoint", "begin", "apply", "log", "bump", "invalidate", "commit"}
       => foundVersion <= o.saw /\ o.saw <= db.version
  /\ o.pc \in {"checkpoint", "begin"} => o.saw > 0
  /\ o.pc = "begin" => key \in DOMAIN checkpoints
  /\ o.pc \in {"apply", "log", "bump", "invalidate", "commit"} /\ o.saw > 0
       => key \in DOMAIN journal
  /\ o.pc \in {"invalidate", "commit"} => db.version = Current
  /\ o.pc = "commit" /\ o.saw > 0 /\ Class(o.saw) = "class_b" => sidecars # "old"

JournalStates == {"started", "committed", "failed_pre_commit", "needs_operator_recovery"}

JournalRows ==
  /\ \A key \in DOMAIN journal : journal[key] \in JournalStates /\ key \in DOMAIN checkpoints
  /\ sidecars \in {"old", "rebuild", "fresh"}
  /\ foundVersion \in 0..Current /\ foundVersion <= db.version

JournalInv ==
  /\ JournalRows
  /\ \A p \in Openers : Carries(opener[p])
  /\ BackedUpBeforeChange
  /\ CommittedIsComplete

LEMMA JournalInitial == StoreInit => JournalInv
<1> SUFFICES ASSUME StoreInit PROVE JournalInv
  OBVIOUS
<1> USE StoreConstants DEF StoreInit
<1>1. JournalRows
  BY DEF JournalRows
<1>2. \A p \in Openers : Carries(opener[p])
  BY DEF Carries, Unopened
<1>3. BackedUpBeforeChange
  BY DEF BackedUpBeforeChange, Batches
<1>4. CommittedIsComplete
  BY DEF CommittedIsComplete
<1> QED BY <1>1, <1>2, <1>3, <1>4 DEF JournalInv

\* The journal and the checkpoints only gain keys, the version does not fall, and
\* derived indexes do not become old.
Advances ==
  /\ DOMAIN journal \subseteq DOMAIN journal' /\ DOMAIN checkpoints \subseteq DOMAIN checkpoints'
  /\ db'.version >= db.version /\ db'.version \in 0..Current
  /\ sidecars' \in {"old", "rebuild", "fresh"} /\ (sidecars # "old" => sidecars' # "old")
  /\ UNCHANGED foundVersion

LEMMA CarriesOn ==
  ASSUME UpgradeInv, JournalInv, Advances, NEW p \in Openers, Carries(opener[p])
  PROVE  \A o : o = opener[p] => Carries(o)'
<1>1. db.version \in 0..Current /\ opener[p] \in Opener
  BY DEF UpgradeInv, RowsOK
<1>2. foundVersion \in 0..Current /\ Current \in Nat
  BY StoreConstants DEF JournalInv, JournalRows
<1>3. opener[p].saw \in 0..Current
  BY <1>1 DEF Opener
<1> QED BY <1>1, <1>2, <1>3 DEF Advances, Carries

\* One command moves.
LEMMA OneMoves ==
  ASSUME UpgradeInv, JournalInv, Advances, NEW p \in Openers, NEW o,
         opener' = [opener EXCEPT ![p] = o], Carries(o)'
  PROVE  \A q \in Openers : Carries(opener[q])'
<1>1. ASSUME NEW q \in Openers PROVE Carries(opener[q])'
  <2>1. CASE q = p
    <3>1. opener'[q] = o
      BY <2>1 DEF UpgradeInv, RowsOK
    <3> QED BY <3>1
  <2>2. CASE q # p
    <3>1. opener'[q] = opener[q]
      BY <2>2 DEF UpgradeInv, RowsOK
    <3>2. PICK r : r = opener[q]
      OBVIOUS
    <3>3. Carries(r)'
      BY <3>2, CarriesOn DEF JournalInv
    <3>4. r = opener'[q]
      BY <3>1, <3>2
    <3> QED BY <3>3, <3>4 DEF Carries
  <2> QED BY <2>1, <2>2
<1> QED BY <1>1

LEMMA BackupStays ==
  ASSUME JournalInv, Advances, db'.effects = db.effects
  PROVE  BackedUpBeforeChange'
BY DEF JournalInv, BackedUpBeforeChange, Advances

LEMMA CommittedStays ==
  ASSUME UpgradeInv, JournalInv, Advances, UNCHANGED journal
  PROVE  CommittedIsComplete'
<1>1. Current \in Nat /\ db.version \in 0..Current
  BY StoreConstants DEF UpgradeInv, RowsOK
<1> QED BY <1>1 DEF JournalInv, CommittedIsComplete, Advances

\* A step of one command that leaves the database and the indexes alone.
LEMMA QuietStep ==
  ASSUME UpgradeInv, JournalInv, NEW p \in Openers, NEW o,
         opener' = [opener EXCEPT ![p] = o], Carries(o)',
         UNCHANGED <<foundVersion, db, sidecars>>,
         DOMAIN journal \subseteq DOMAIN journal', DOMAIN checkpoints \subseteq DOMAIN checkpoints',
         \A key \in DOMAIN journal' : journal'[key] \in JournalStates /\ key \in DOMAIN checkpoints',
         CommittedIsComplete'
  PROVE  JournalInv'
<1>1. Advances
  BY StoreConstants DEF Advances, UpgradeInv, RowsOK, JournalInv, JournalRows
<1>2. JournalRows'
  BY DEF JournalInv, JournalRows
<1>3. BackedUpBeforeChange'
  BY <1>1, BackupStays
<1>4. \A q \in Openers : Carries(opener[q])'
  BY <1>1, OneMoves
<1> QED BY <1>2, <1>3, <1>4 DEF JournalInv

\* A step of one command that also leaves the journal alone.
LEMMA SilentStep ==
  ASSUME UpgradeInv, JournalInv, NEW p \in Openers, NEW o,
         opener' = [opener EXCEPT ![p] = o], Carries(o)',
         UNCHANGED <<foundVersion, db, sidecars, journal>>,
         DOMAIN checkpoints \subseteq DOMAIN checkpoints'
  PROVE  JournalInv'
<1>1. Advances
  BY StoreConstants DEF Advances, UpgradeInv, RowsOK, JournalInv, JournalRows
<1>2. CommittedIsComplete'
  BY <1>1, CommittedStays
<1>3. \A key \in DOMAIN journal' : journal'[key] \in JournalStates /\ key \in DOMAIN checkpoints'
  BY DEF JournalInv, JournalRows
<1> QED BY <1>2, <1>3, QuietStep

LEMMA OpenStoreJournals ==
  ASSUME UpgradeInv, JournalInv, NEW p \in Openers, OpenStore(p)
  PROVE  JournalInv'
<1>1. PICK o : o = [opener[p] EXCEPT !.pc = "opened"]
  OBVIOUS
<1>2. opener' = [opener EXCEPT ![p] = o] /\ o.pc = "opened"
  BY <1>1 DEF OpenStore, Steps, UpgradeInv, RowsOK, Opener
<1>3. Carries(o)'
  BY <1>2 DEF Carries
<1>4. /\ DOMAIN journal' = DOMAIN journal
      /\ \A key \in DOMAIN journal' :
           journal'[key] \in {journal[key], "needs_operator_recovery"}
  BY DEF OpenStore
<1>5. \A key \in DOMAIN journal' : journal'[key] \in JournalStates /\ key \in DOMAIN checkpoints'
  BY <1>4 DEF OpenStore, JournalInv, JournalRows, JournalStates
<1>6. CommittedIsComplete'
  BY <1>4 DEF OpenStore, JournalInv, CommittedIsComplete
<1> QED BY <1>2, <1>3, <1>4, <1>5, <1>6, QuietStep DEF OpenStore

LEMMA ClassifyJournals ==
  ASSUME UpgradeInv, JournalInv, NEW p \in Openers, Classify(p)
  PROVE  JournalInv'
<1> USE StoreConstants
<1> DEFINE
  goes == CASE db.version >= Current -> "done"
            [] db.version = 0 -> "apply"
            [] db.version > 0 /\ Class(db.version) = "class_d" -> "done"
            [] OTHER -> "checkpoint"
  tells == CASE db.version >= Current -> "open"
             [] db.version > 0 /\ Class(db.version) = "class_d" -> "refused"
             [] OTHER -> "none"
<1>0. PICK pc : pc = goes
  OBVIOUS
<1>1. PICK o : /\ o = [opener[p] EXCEPT !.saw = db.version, !.next = db.version + 1,
                                        !.at = seconds, !.pc = pc, !.outcome = tells]
               /\ opener' = [opener EXCEPT ![p] = o]
  <2> HIDE DEF tells
  <2>1. opener' = [opener EXCEPT ![p].saw = db.version, ![p].next = db.version + 1,
                                 ![p].at = seconds, ![p].pc = pc, ![p].outcome = tells]
    BY <1>0 DEF Classify, tells
  <2> QED BY <2>1 DEF UpgradeInv, RowsOK
<1>2. db.version \in 0..Current /\ opener[p] \in Opener
  BY DEF UpgradeInv, RowsOK
<1>3. o.pc = pc /\ o.saw = db.version
  BY <1>1, <1>2 DEF Opener
<1>4. pc \in {"done", "apply", "checkpoint"} /\ (pc = "apply" => db.version = 0)
      /\ (pc = "checkpoint" => db.version > 0)
  BY <1>0, <1>2
<1>5. foundVersion \in 0..Current /\ foundVersion <= db.version
  BY DEF JournalInv, JournalRows
<1>6. UNCHANGED <<foundVersion, db, sidecars, journal, checkpoints>>
  BY DEF Classify
<1>7. Carries(o)'
  BY <1>2, <1>3, <1>4, <1>5, <1>6 DEF Carries
<1> QED BY <1>1, <1>6, <1>7, SilentStep

LEMMA CheckpointJournals ==
  ASSUME UpgradeInv, JournalInv, NEW p \in Openers, Checkpoint(p)
  PROVE  JournalInv'
<1>1. PICK o : o = [opener[p] EXCEPT !.pc = "begin"]
  OBVIOUS
<1>2. opener' = [opener EXCEPT ![p] = o] /\ o.pc = "begin" /\ o.at = opener[p].at
      /\ o.saw = opener[p].saw
  BY <1>1 DEF Checkpoint, Steps, UpgradeInv, RowsOK, Opener
<1>3. DOMAIN checkpoints' = DOMAIN checkpoints \cup {<<o.at, o.saw>>}
  BY <1>2 DEF Checkpoint, Attempt, With
<1>4. Carries(opener[p]) /\ opener[p].pc = "checkpoint"
  BY DEF Checkpoint, JournalInv
<1>5. UNCHANGED <<foundVersion, db, sidecars, journal>>
  BY DEF Checkpoint
<1>6. Carries(o)'
  BY <1>2, <1>3, <1>4, <1>5 DEF Carries
<1> QED BY <1>2, <1>3, <1>5, <1>6, SilentStep

LEMMA BeginJournals ==
  ASSUME UpgradeInv, JournalInv, NEW p \in Openers, Begin(p)
  PROVE  JournalInv'
<1>0. Carries(opener[p]) /\ opener[p].pc = "begin"
  BY DEF Begin, JournalInv
<1>1. UNCHANGED <<foundVersion, db, sidecars, checkpoints>>
  BY DEF Begin
<1>2. CASE Attempt(p) \in DOMAIN journal
  <2>1. PICK o : o = [opener[p] EXCEPT !.pc = "done", !.outcome = "error"]
    OBVIOUS
  <2>2. opener' = [opener EXCEPT ![p] = o] /\ o.pc = "done" /\ UNCHANGED journal
    BY <1>2, <2>1 DEF Begin, Ends, UpgradeInv, RowsOK, Opener
  <2>3. Carries(o)'
    BY <2>2 DEF Carries
  <2> QED BY <1>1, <2>2, <2>3, SilentStep
<1>3. CASE Attempt(p) \notin DOMAIN journal
  <2>1. PICK o : o = [opener[p] EXCEPT !.pc = "apply"]
    OBVIOUS
  <2>2. opener' = [opener EXCEPT ![p] = o] /\ o.pc = "apply" /\ o.at = opener[p].at
        /\ o.saw = opener[p].saw
    BY <1>3, <2>1 DEF Begin, Steps, UpgradeInv, RowsOK, Opener
  <2>3. PICK key : key = <<o.at, o.saw>>
    OBVIOUS
  <2>4. journal' = With(journal, key, "started") /\ key \in DOMAIN checkpoints
    BY <1>0, <1>3, <2>2, <2>3 DEF Begin, Attempt, Carries
  <2>5. /\ DOMAIN journal' = DOMAIN journal \cup {key}
        /\ journal'[key] = "started"
        /\ \A k \in DOMAIN journal : k # key => journal'[k] = journal[k]
    BY <2>4 DEF With
  <2>6. Carries(o)'
    BY <1>0, <1>1, <2>2, <2>3, <2>5 DEF Carries
  <2>7. \A k \in DOMAIN journal' : journal'[k] \in JournalStates /\ k \in DOMAIN checkpoints'
    BY <1>1, <2>4, <2>5 DEF JournalInv, JournalRows, JournalStates
  <2>8. CommittedIsComplete'
    BY <1>1, <2>5 DEF JournalInv, CommittedIsComplete
  <2> QED BY <1>1, <2>2, <2>5, <2>6, <2>7, <2>8, QuietStep
<1> QED BY <1>2, <1>3

\* A failure overwrites the attempt with something that is not "committed".
LEMMA FailureJournals ==
  ASSUME UpgradeInv, JournalInv, NEW p \in Openers, Fails(p),
         opener[p].pc \in {"apply", "log"},
         UNCHANGED <<foundVersion, db, sidecars, checkpoints>>
  PROVE  JournalInv'
<1>0. Carries(opener[p])
  BY DEF JournalInv
<1>1. PICK o : o = [opener[p] EXCEPT !.pc = "done", !.outcome = "error"]
  OBVIOUS
<1>2. opener' = [opener EXCEPT ![p] = o] /\ o.pc = "done"
  BY <1>1 DEF Fails, Ends, UpgradeInv, RowsOK, Opener
<1>3. Carries(o)'
  BY <1>2 DEF Carries
<1>4. CASE opener[p].saw > 0
  <2>1. PICK key : key = Attempt(p)
    OBVIOUS
  <2>2. key \in DOMAIN journal
    BY <1>0, <1>4, <2>1 DEF Carries, Attempt
  <2>3. /\ DOMAIN journal' = DOMAIN journal
        /\ journal'[key] = "failed_pre_commit"
        /\ \A k \in DOMAIN journal : k # key => journal'[k] = journal[k]
    BY <1>4, <2>1, <2>2 DEF Fails, With
  <2>4. \A k \in DOMAIN journal' : journal'[k] \in JournalStates /\ k \in DOMAIN checkpoints'
    BY <2>2, <2>3 DEF JournalInv, JournalRows, JournalStates
  <2>5. CommittedIsComplete'
    BY <2>3 DEF JournalInv, CommittedIsComplete
  <2> QED BY <1>2, <1>3, <2>3, <2>4, <2>5, QuietStep
<1>5. CASE ~(opener[p].saw > 0)
  <2>1. UNCHANGED journal
    BY <1>5 DEF Fails
  <2> QED BY <1>2, <1>3, <2>1, SilentStep
<1> QED BY <1>4, <1>5

\* A command that applies batches works on a new store, or on one with an attempt
\* from the version that was found: its own, or the one that brought the store to
\* the version it saw.
LEMMA BackedUp ==
  ASSUME UpgradeInv, JournalInv, NEW p \in Openers, opener[p].pc = "apply"
  PROVE  \/ \E key \in DOMAIN journal \cap DOMAIN checkpoints : key[2] = foundVersion
         \/ foundVersion = 0
<1> USE StoreConstants
<1>1. /\ Carries(opener[p]) /\ opener[p] \in Opener /\ db.version \in 0..Current
      /\ foundVersion \in 0..Current
  BY DEF JournalInv, JournalRows, UpgradeInv, RowsOK
<1>2. /\ opener[p].saw \in 0..Current /\ foundVersion <= opener[p].saw
      /\ opener[p].saw <= db.version
  BY <1>1 DEF Carries, Opener
<1>3. CASE opener[p].saw = 0
  BY <1>1, <1>2, <1>3
<1>4. CASE opener[p].saw > 0 /\ opener[p].saw = foundVersion
  <2>1. Attempt(p) \in DOMAIN journal /\ Attempt(p)[2] = foundVersion
    BY <1>1, <1>4 DEF Carries, Attempt
  <2> QED BY <2>1 DEF JournalInv, JournalRows
<1>5. CASE opener[p].saw > foundVersion
  <2>1. foundVersion + 1 \in Batches /\ foundVersion + 1 \in 1..db.version
    BY <1>1, <1>2, <1>5 DEF Batches
  <2>2. db.effects[foundVersion + 1] # "none"
    BY <2>1 DEF UpgradeInv, LedgerLeads
  <2>3. foundVersion + 1 > foundVersion
    BY <1>1
  <2> QED BY <1>1, <2>1, <2>2, <2>3 DEF JournalInv, BackedUpBeforeChange
<1> QED BY <1>1, <1>2, <1>3, <1>4, <1>5

\* A step of one command that changes the database and not the journal.
LEMMA DatabaseStep ==
  ASSUME UpgradeInv, JournalInv, Advances, NEW p \in Openers, NEW o,
         opener' = [opener EXCEPT ![p] = o], Carries(o)',
         UNCHANGED <<journal, checkpoints>>,
         db'.effects = db.effects \/ opener[p].pc = "apply"
  PROVE  JournalInv'
<1>1. JournalRows'
  <2>1. /\ foundVersion \in 0..Current /\ foundVersion <= db.version /\ db.version \in 0..Current
        /\ db'.version \in 0..Current /\ db'.version >= db.version /\ Current \in Nat
    BY StoreConstants DEF JournalInv, JournalRows, UpgradeInv, RowsOK, Advances
  <2>2. foundVersion <= db'.version
    BY <2>1
  <2> QED BY <2>1, <2>2 DEF JournalInv, JournalRows, Advances
<1>2. BackedUpBeforeChange'
  <2>1. \/ db'.effects = db.effects
        \/ \E key \in DOMAIN journal \cap DOMAIN checkpoints : key[2] = foundVersion
        \/ foundVersion = 0
    <3>1. CASE opener[p].pc = "apply"
      BY <3>1, BackedUp
    <3> QED BY <3>1
  <2> QED BY <2>1 DEF JournalInv, BackedUpBeforeChange, Advances
<1>3. \A q \in Openers : Carries(opener[q])'
  BY OneMoves
<1> QED BY <1>1, <1>2, <1>3, CommittedStays DEF JournalInv

LEMMA ApplyJournals ==
  ASSUME UpgradeInv, JournalInv, NEW p \in Openers, Apply(p)
  PROVE  JournalInv'
<1> DEFINE k == opener[p].next
<1>1. CASE db.effects[k] # "none" /\ k \notin Rerunnable
  BY <1>1, FailureJournals DEF Apply
<1>2. CASE ~(db.effects[k] # "none" /\ k \notin Rerunnable)
  <2>1. PICK o : o = [opener[p] EXCEPT !.pc = "log"]
    OBVIOUS
  <2>2. opener' = [opener EXCEPT ![p] = o] /\ o.pc = "log" /\ o.at = opener[p].at
        /\ o.saw = opener[p].saw
    BY <1>2, <2>1 DEF Apply, Steps, UpgradeInv, RowsOK, Opener
  <2>3. /\ db' = [db EXCEPT !.effects[k] = "whole"]
        /\ UNCHANGED <<foundVersion, journal, checkpoints, sidecars>>
    BY <1>2 DEF Apply
  <2>4. db'.version = db.version
    BY <2>3 DEF UpgradeInv, RowsOK
  <2>5. Carries(opener[p]) /\ opener[p].pc = "apply"
    BY DEF Apply, JournalInv
  <2>6. Carries(o)'
    BY <2>2, <2>3, <2>4, <2>5 DEF Carries
  <2>7. Advances
    BY <2>3, <2>4 DEF Advances, UpgradeInv, RowsOK, JournalInv, JournalRows
  <2> QED BY <2>2, <2>3, <2>5, <2>6, <2>7, DatabaseStep
<1> QED BY <1>1, <1>2

LEMMA LogJournals ==
  ASSUME UpgradeInv, JournalInv, NEW p \in Openers, Log(p)
  PROVE  JournalInv'
<1> DEFINE k == opener[p].next
<1>1. CASE k \in db.ledger
  BY <1>1, FailureJournals DEF Log
<1>2. CASE k \notin db.ledger
  <2>1. PICK o : o = [opener[p] EXCEPT !.pc = "bump"]
    OBVIOUS
  <2>2. opener' = [opener EXCEPT ![p] = o] /\ o.pc = "bump" /\ o.at = opener[p].at
        /\ o.saw = opener[p].saw
    BY <1>2, <2>1 DEF Log, Steps, UpgradeInv, RowsOK, Opener
  <2>3. /\ db' = [db EXCEPT !.ledger = @ \cup {k}]
        /\ UNCHANGED <<foundVersion, journal, checkpoints, sidecars>>
    BY <1>2 DEF Log
  <2>4. db'.version = db.version /\ db'.effects = db.effects
    BY <2>3 DEF UpgradeInv, RowsOK
  <2>5. Carries(opener[p]) /\ opener[p].pc = "log"
    BY DEF Log, JournalInv
  <2>6. Carries(o)'
    BY <2>2, <2>3, <2>4, <2>5 DEF Carries
  <2>7. Advances
    BY <2>3, <2>4 DEF Advances, UpgradeInv, RowsOK, JournalInv, JournalRows
  <2> QED BY <2>2, <2>3, <2>4, <2>6, <2>7, DatabaseStep
<1> QED BY <1>1, <1>2

\* A command that writes the last version number, and only that one, goes on to
\* the derived indexes or to the commit.
LEMMA BumpJournals ==
  ASSUME UpgradeInv, JournalInv, NEW p \in Openers, Bump(p)
  PROVE  JournalInv'
<1> USE StoreConstants
<1>1. PICK pc : pc = IF opener[p].next < Current THEN "apply" ELSE AfterLast(opener[p].saw)
  OBVIOUS
<1>2. PICK o : o = [opener[p] EXCEPT !.next = opener[p].next + 1, !.pc = pc]
  OBVIOUS
<1>3. /\ opener' = [opener EXCEPT ![p] = o]
      /\ o.pc = pc /\ o.at = opener[p].at /\ o.saw = opener[p].saw
  BY <1>1, <1>2 DEF Bump, UpgradeInv, RowsOK, Opener
<1>4. /\ db' = [db EXCEPT !.version = opener[p].next]
      /\ UNCHANGED <<foundVersion, journal, checkpoints, sidecars>>
  BY DEF Bump
<1>5. /\ opener[p].next = db.version + 1 /\ opener[p].next \in Batches
      /\ opener[p].pc = "bump" /\ Carries(opener[p])
  BY DEF Bump, UpgradeInv, Stands, JournalInv
<1>6. /\ db'.version = db.version + 1 /\ db'.effects = db.effects
      /\ db.version \in 0..Current /\ db'.version \in 0..Current
  BY <1>4, <1>5 DEF UpgradeInv, RowsOK, Batches
<1>7. Advances
  BY <1>4, <1>6 DEF Advances, JournalInv, JournalRows
<1>8. /\ pc \in {"apply", "invalidate", "commit"}
      /\ pc # "apply" => db'.version = Current
      /\ pc = "commit" => ClassOf(opener[p].saw) # "class_b"
  BY <1>1, <1>5, <1>6 DEF AfterLast, Batches
<1>9. opener[p].saw \in 0..Current /\ foundVersion \in 0..Current
  BY DEF UpgradeInv, RowsOK, Opener, JournalInv, JournalRows
<1>10. Carries(o)'
  BY <1>3, <1>4, <1>5, <1>6, <1>8, <1>9 DEF Carries, ClassOf
<1> QED BY <1>3, <1>4, <1>6, <1>7, <1>10, DatabaseStep

LEMMA InvalidateJournals ==
  ASSUME UpgradeInv, JournalInv, NEW p \in Openers, Invalidate(p)
  PROVE  JournalInv'
<1>1. PICK o : o = [opener[p] EXCEPT !.pc = "commit"]
  OBVIOUS
<1>2. opener' = [opener EXCEPT ![p] = o] /\ o.pc = "commit" /\ o.at = opener[p].at
      /\ o.saw = opener[p].saw
  BY <1>1 DEF Invalidate, Steps, UpgradeInv, RowsOK, Opener
<1>3. /\ sidecars' = "rebuild"
      /\ UNCHANGED <<foundVersion, db, journal, checkpoints>>
  BY DEF Invalidate
<1>4. Carries(opener[p]) /\ opener[p].pc = "invalidate"
  BY DEF Invalidate, JournalInv
<1>5. Advances
  BY <1>3 DEF Advances, UpgradeInv, RowsOK, JournalInv, JournalRows
<1>6. Carries(o)'
  BY <1>2, <1>3, <1>4 DEF Carries
<1> QED BY <1>2, <1>3, <1>5, <1>6, DatabaseStep

LEMMA CommitJournals ==
  ASSUME UpgradeInv, JournalInv, NEW p \in Openers, Commit(p)
  PROVE  JournalInv'
<1>0. Carries(opener[p]) /\ opener[p].pc = "commit"
  BY DEF Commit, JournalInv
<1>1. PICK o : o = [opener[p] EXCEPT !.pc = "done", !.outcome = "open"]
  OBVIOUS
<1>2. opener' = [opener EXCEPT ![p] = o] /\ o.pc = "done"
  BY <1>1 DEF Commit, Ends, UpgradeInv, RowsOK, Opener
<1>3. Carries(o)'
  BY <1>2 DEF Carries
<1>4. UNCHANGED <<foundVersion, db, checkpoints, sidecars>>
  BY DEF Commit
<1>5. CASE opener[p].saw > 0
  <2>1. PICK key : key = <<opener[p].at, opener[p].saw>>
    OBVIOUS
  <2>2. key \in DOMAIN journal /\ key[2] = opener[p].saw
    BY <1>0, <1>5, <2>1 DEF Carries
  <2>3. /\ DOMAIN journal' = DOMAIN journal
        /\ journal'[key] = "committed"
        /\ \A k \in DOMAIN journal : k # key => journal'[k] = journal[k]
    BY <1>5, <2>1, <2>2 DEF Commit, With, Attempt
  <2>4. \A k \in DOMAIN journal' : journal'[k] \in JournalStates /\ k \in DOMAIN checkpoints'
    BY <1>4, <2>2, <2>3 DEF JournalInv, JournalRows, JournalStates
  <2>5. db.version = Current /\ (Class(key[2]) = "class_b" => sidecars # "old")
    BY <1>0, <1>5, <2>2 DEF Carries
  <2>6. CommittedIsComplete'
    BY <1>4, <2>3, <2>5 DEF JournalInv, CommittedIsComplete
  <2> QED BY <1>2, <1>3, <1>4, <2>3, <2>4, <2>6, QuietStep
<1>6. CASE ~(opener[p].saw > 0)
  <2>1. UNCHANGED journal
    BY <1>6 DEF Commit
  <2> QED BY <1>2, <1>3, <1>4, <2>1, SilentStep
<1> QED BY <1>5, <1>6

LEMMA KillJournals ==
  ASSUME UpgradeInv, JournalInv, NEW p \in Openers, Kill(p)
  PROVE  JournalInv'
<1>1. /\ opener' = [opener EXCEPT ![p] = Unopened]
      /\ UNCHANGED <<foundVersion, journal, checkpoints, sidecars>>
  BY DEF Kill
<1>2. Carries(Unopened)'
  BY DEF Carries, Unopened
<1>3. /\ db'.version = db.version
      /\ db'.effects = db.effects \/ opener[p].pc = "apply"
  BY DEF Kill, UpgradeInv, RowsOK
<1>4. Advances
  BY <1>1, <1>3 DEF Advances, UpgradeInv, RowsOK, JournalInv, JournalRows
<1> QED BY <1>1, <1>2, <1>3, <1>4, DatabaseStep

LEMMA JournalStep ==
  UpgradeInv /\ JournalInv /\ [StoreNext]_storeVars => JournalInv'
<1> SUFFICES ASSUME UpgradeInv, JournalInv, [StoreNext]_storeVars PROVE JournalInv'
  OBVIOUS
<1>1. ASSUME NEW p \in Openers,
             \/ OpenStore(p) \/ Classify(p) \/ Checkpoint(p) \/ Begin(p)
             \/ Apply(p) \/ Log(p) \/ Bump(p) \/ Invalidate(p) \/ Commit(p) \/ Kill(p)
      PROVE  JournalInv'
  BY <1>1, OpenStoreJournals, ClassifyJournals, CheckpointJournals, BeginJournals,
     ApplyJournals, LogJournals, BumpJournals, InvalidateJournals, CommitJournals, KillJournals
<1>2. ASSUME NEW p \in Openers, WriteMarker(p) PROVE JournalInv'
  <2>1. PICK o : o = [opener[p] EXCEPT !.pc = "left"]
    OBVIOUS
  <2>2. opener' = [opener EXCEPT ![p] = o] /\ o.pc = "left"
    BY <1>2, <2>1 DEF WriteMarker, Steps, UpgradeInv, RowsOK, Opener
  <2>3. Carries(o)'
    BY <2>2 DEF Carries
  <2> QED BY <1>2, <2>2, <2>3, SilentStep DEF WriteMarker
<1>3. ASSUME NEW p \in Openers, Again(p) PROVE JournalInv'
  <2>1. Carries(Unopened)'
    BY DEF Carries, Unopened
  <2> QED BY <1>3, <2>1, SilentStep DEF Again
<1>4. CASE NextSecond
  BY <1>4 DEF NextSecond, JournalInv, JournalRows, Carries, BackedUpBeforeChange,
     CommittedIsComplete
<1>5. CASE UNCHANGED storeVars
  BY <1>5 DEF storeVars, JournalInv, JournalRows, Carries, BackedUpBeforeChange,
     CommittedIsComplete
<1> QED BY <1>1, <1>2, <1>3, <1>4, <1>5 DEF StoreNext

\* "the canonical DB is backed up before any migration class that is not trivially
\* reversible", and an attempt is journalled as committed only when the schema is
\* current and its old indexes are invalid: what the journal and the checkpoints
\* say is true for any schemas, commands, kills and seconds (apply_migrations).
THEOREM TrueJournal == StoreSpec => []StoreInv
<1>1. UpgradeInv /\ JournalInv => StoreInv
  <2> SUFFICES ASSUME UpgradeInv, JournalInv PROVE StoreInv
    OBVIOUS
  <2>1. StoreTypeOK
    BY DEF StoreTypeOK, UpgradeInv, RowsOK, JournalInv, JournalRows, JournalStates, Effects,
       Opener
  <2> QED BY <2>1 DEF StoreInv, JournalInv
<1>2. StoreSpec => []JournalInv
  BY JournalInitial, JournalStep, Upgrading, PTL DEF StoreSpec
<1> QED BY <1>1, <1>2, Upgrading, PTL

-------------------------------------------------------------------------------
(* Cockpit: what the panes show and what keys write agree, for any sessions  *)
(* and findings, whatever other processes change.                            *)

-----------------------------------------------------------------------------
(* The inductive invariant                                                 *)

Screens == {"Picker", "Home", "SessionHome", "Findings", "Drafts", "DraftItems",
            "Timeline", "Search"}
RowTables == UNION {[D -> TriageStates] : D \in SUBSET Findings}
AnySession == Sessions \cup {NoSession}
AnyFinding == Findings \cup {NoFinding}

Overlays == [kind : {"none", "approve", "post"}, session : AnySession,
             typed : {"", "approve", "post"}]
CockpitEffects == [kind : {"none", "launch", "edit"}, session : AnySession, body : Bodies]
BatchRecords == [session : AnySession, state : BatchStates]
DraftItems == [session : AnySession, body : Bodies]

Panes == [screen : Screens,
          overlay : Overlays,
          mode : {"none", "search", "composer", "finding_filter"},
          active : AnySession, rows : RowTables, cursor : Nat, needle : Needles,
          sort : {"stored", "triage"}, selected : SUBSET Findings,
          detail : AnyFinding, batch : BatchRecords,
          items : DraftItems, open : AnySession,
          reviews : SUBSET AnySession, composer : AnyFinding,
          effect : CockpitEffects]

OwnedBy(s, fs) == \A f \in fs : OwnerOf[f] = s

\* Only one of a text input, an overlay and an effect is there, and a screen
\* of a session has one.
OneInput(u) ==
    /\ u.screen \notin {"Picker", "Home"} => u.active # NoSession
    /\ u.mode # "none" => u.overlay = NoOverlay /\ u.effect = NoEffect
    /\ u.overlay # NoOverlay => u.effect = NoEffect

\* What a key can write is about the active session: the queue and its
\* selection, the batch and the draft on their screens, the gate, the editor,
\* the memory lane and the composer.
ShowsActive(u) ==
    /\ u.screen = "Findings" => OwnedBy(u.active, DOMAIN u.rows)
                                /\ u.selected \subseteq DOMAIN u.rows
    /\ u.screen \in {"Drafts", "DraftItems"} =>
          u.batch.session \in {NoSession, u.active}
    /\ u.screen = "DraftItems" => u.items.session = u.active
    /\ u.overlay.kind \in {"approve", "post"} =>
          u.overlay.session = u.active /\ u.active # NoSession
    /\ u.effect.kind = "edit" => u.effect.session = u.active
    /\ u.screen = "Search" => u.reviews \subseteq {u.active}
    /\ u.composer # NoFinding => OwnerOf[u.composer] = u.active

PanesAgree(u) == u \in Panes /\ OneInput(u) /\ ShowsActive(u)

DetailFits(u) ==
    u.screen = "Findings" => u.detail \in {NoFinding, CurrentFinding(u)}

StoreOK ==
    /\ listing \in [Sessions -> SUBSET Findings]
    /\ \A s \in Sessions : OwnedBy(s, listing[s])
    /\ triage \in [Findings -> TriageStates]
    /\ batch \in [Sessions -> BatchStates]
    /\ body \in [Sessions -> Bodies]

CockpitIInv ==
    /\ StoreOK
    /\ PanesAgree(ui)
    /\ DetailFits(ui)
    /\ QueueIsTruthful
    /\ WritesAreForActive

-----------------------------------------------------------------------------
(* What the queue shows                                                    *)

LEMMA TableFacts ==
    /\ NoRows \in RowTables /\ DOMAIN NoRows = {}
    /\ \A r \in RowTables : DOMAIN r \subseteq Findings
    /\ \A D \in SUBSET Findings : \A r \in [D -> TriageStates] : r \in RowTables
  <1>1. \A D \in SUBSET Findings : \A r \in [D -> TriageStates] : r \in RowTables
    BY DEF RowTables
  <1>2. \A r \in RowTables : DOMAIN r \subseteq Findings
    BY DEF RowTables
  <1>3. {} \in SUBSET Findings /\ NoRows \in [{} -> TriageStates]
    BY DEF NoRows
  <1>4. NoRows \in RowTables
    BY <1>1, <1>3
  <1> QED BY <1>1, <1>2, <1>3, <1>4

LEMMA ShownIsFinite ==
    ASSUME NEW rows \in RowTables, NEW needle
    PROVE  /\ VisibleFindings(rows, needle) \subseteq DOMAIN rows
           /\ DOMAIN rows \subseteq Findings
           /\ IsFiniteSet(VisibleFindings(rows, needle))
           /\ Cardinality(VisibleFindings(rows, needle)) \in Nat
  <1>1. /\ VisibleFindings(rows, needle) \subseteq DOMAIN rows
        /\ DOMAIN rows \subseteq Findings
    BY TableFacts DEF VisibleFindings
  <1>2. IsFiniteSet(VisibleFindings(rows, needle))
    BY <1>1, CockpitAssumption, FS_Subset
  <1> QED BY <1>1, <1>2, FS_CardinalityType

LEMMA PlaceIsNumber ==
    ASSUME NEW f, NEW rows \in RowTables, NEW needle, NEW sort
    PROVE  PlaceOf(f, rows, needle, sort) \in Nat
  <1>1. {g \in VisibleFindings(rows, needle) : Before(g, f, rows, sort)}
          \subseteq VisibleFindings(rows, needle)
    OBVIOUS
  <1>2. Cardinality({g \in VisibleFindings(rows, needle) : Before(g, f, rows, sort)})
          \in Nat
    BY <1>1, ShownIsFinite, FS_Subset, FS_CardinalityType
  <1> QED BY <1>2 DEF PlaceOf

\* The focus is on a row of the queue, or on none.
LEMMA FocusIsRow ==
    ASSUME NEW u \in Panes
    PROVE  /\ CurrentFinding(u) \in DOMAIN u.rows \cup {NoFinding}
           /\ CurrentFinding(u) \in AnyFinding
           /\ DOMAIN u.rows \subseteq Findings
  <1>1. u.rows \in RowTables
    BY DEF Panes
  <1>2. PICK rows : rows = u.rows
    OBVIOUS
  <1>3. PICK there : there = {f \in VisibleFindings(rows, u.needle) :
                                PlaceOf(f, rows, u.needle, u.sort) = u.cursor}
    OBVIOUS
  <1>4. CurrentFinding(u) = IF there = {} THEN NoFinding ELSE CHOOSE f \in there : TRUE
    BY <1>2, <1>3 DEF CurrentFinding, FindingAt
  <1>5. CurrentFinding(u) \in there \cup {NoFinding}
    BY <1>4
  <1>6. there \subseteq DOMAIN rows /\ DOMAIN rows \subseteq Findings
    BY <1>1, <1>2, <1>3, ShownIsFinite
  <1> QED BY <1>2, <1>5, <1>6 DEF AnyFinding

\* Loading the inspector touches nothing else and leaves it on the focus.
LEMMA RefreshFits ==
    ASSUME NEW u, PanesAgree(u), NEW loads \in BOOLEAN
    PROVE  /\ PanesAgree(RefreshDetail(u, loads))
           /\ DetailFits(RefreshDetail(u, loads))
           /\ RefreshDetail(u, loads).screen = u.screen
           /\ RefreshDetail(u, loads).rows = u.rows
           /\ RefreshDetail(u, loads).active = u.active
  <1>1. PICK v : v = RefreshDetail(u, loads)
    OBVIOUS
  <1>2. \E d \in {NoFinding, CurrentFinding(u)} : v = [u EXCEPT !.detail = d]
    <2>1. CASE CurrentFinding(u) # NoFinding /\ u.detail = CurrentFinding(u)
      <3>1. v = u
        BY <1>1, <2>1 DEF RefreshDetail
      <3>2. u = [u EXCEPT !.detail = u.detail]
        BY DEF PanesAgree, Panes
      <3> QED BY <2>1, <3>1, <3>2
    <2>2. CASE ~(CurrentFinding(u) # NoFinding /\ u.detail = CurrentFinding(u))
      BY <1>1, <2>2 DEF RefreshDetail
    <2> QED BY <2>1, <2>2
  <1>3. PICK d \in {NoFinding, CurrentFinding(u)} : v = [u EXCEPT !.detail = d]
    BY <1>2
  <1>4. d \in AnyFinding
    BY <1>3, FocusIsRow DEF AnyFinding, PanesAgree
  <1>5. v \in Panes
    BY <1>3, <1>4 DEF PanesAgree, Panes
  <1>6. /\ v.detail = d /\ v.screen = u.screen /\ v.rows = u.rows
        /\ v.active = u.active /\ v.cursor = u.cursor /\ v.needle = u.needle
        /\ v.sort = u.sort /\ v.mode = u.mode /\ v.overlay = u.overlay
        /\ v.effect = u.effect /\ v.selected = u.selected /\ v.batch = u.batch
        /\ v.items = u.items /\ v.reviews = u.reviews /\ v.composer = u.composer
    BY <1>3 DEF PanesAgree, Panes
  <1>7. CurrentFinding(v) = CurrentFinding(u)
    BY <1>6 DEF CurrentFinding
  <1>8. OneInput(v) /\ ShowsActive(v)
    BY <1>6 DEF PanesAgree, OneInput, ShowsActive
  <1>9. DetailFits(v)
    BY <1>3, <1>6, <1>7 DEF DetailFits
  <1> QED BY <1>1, <1>5, <1>6, <1>8, <1>9 DEF PanesAgree

-----------------------------------------------------------------------------
(* Steps that write nothing                                                *)

LEMMA ShowsStep ==
    ASSUME CockpitIInv, NEW u, Shows(u), PanesAgree(u), DetailFits(u),
           u.screen = "Findings" => ui.screen = "Findings" /\ u.rows = ui.rows
    PROVE  CockpitIInv'
  <1>1. ui' = u /\ deeds' = {} /\ UNCHANGED <<savedVars, stale>>
    BY DEF Shows
  <1>2. StoreOK'
    BY <1>1 DEF CockpitIInv, StoreOK, savedVars
  <1>3. QueueIsTruthful'
    BY <1>1 DEF CockpitIInv, QueueIsTruthful, savedVars
  <1>4. WritesAreForActive'
    BY <1>1 DEF WritesAreForActive
  <1> QED BY <1>1, <1>2, <1>3, <1>4 DEF CockpitIInv

LEMMA NothingOpen ==
    /\ NoBatch \in BatchRecords
    /\ NoItems \in DraftItems
    /\ NoEffect \in CockpitEffects
    /\ NoOverlay \in Overlays
    /\ NoBatch.session = NoSession /\ NoOverlay.kind = "none"
    /\ NoEffect.kind = "none" /\ NoFinding \in AnyFinding
    /\ 1 \in Nat /\ "" \in Needles
    /\ NoSession \in AnySession /\ {} \in SUBSET AnySession
    /\ {} \in SUBSET Findings
  BY DEF NoBatch, NoItems, NoEffect, NoOverlay, AnySession, BatchStates, Bodies,
         AnyFinding, Needles, Overlays, CockpitEffects, BatchRecords, DraftItems

LEMMA FreshAgrees ==
    ASSUME NEW screen \in {"Picker", "Home"}
    PROVE  PanesAgree(Fresh(screen)) /\ Fresh(screen).screen = screen
  <1>1. Fresh(screen) \in Panes
    BY NothingOpen, TableFacts DEF Fresh, Panes, Screens, AnySession
  <1>2. OneInput(Fresh(screen)) /\ ShowsActive(Fresh(screen))
    BY NothingOpen DEF Fresh, OneInput, ShowsActive
  <1> QED BY <1>1, <1>2 DEF PanesAgree, Fresh

LEMMA SessionHomeAgrees ==
    ASSUME NEW u, PanesAgree(u), u.overlay = NoOverlay, u.effect = NoEffect,
           NEW s \in Sessions
    PROVE  /\ PanesAgree(SessionHome(u, s))
           /\ SessionHome(u, s).screen = "SessionHome"
  <1>1. PICK v : v = SessionHome(u, s)
    OBVIOUS
  <1>2. v = [[u EXCEPT !.active = s, !.screen = "SessionHome"] EXCEPT
               !.selected = {}, !.needle = "", !.cursor = 1,
               !.detail = NoFinding, !.composer = NoFinding]
    BY <1>1 DEF SessionHome, ResetPerSession
  <1>3. v \in Panes
    <2>1. PICK w : w = [u EXCEPT !.active = s, !.screen = "SessionHome"]
      OBVIOUS
    <2>2. w \in Panes
      BY <2>1 DEF PanesAgree, Panes, Screens, AnySession
    <2>3. v = [w EXCEPT !.selected = {}, !.needle = "", !.cursor = 1,
                        !.detail = NoFinding, !.composer = NoFinding]
      BY <1>2, <2>1
    <2> QED BY <2>2, <2>3, NothingOpen DEF Panes
  <1>4. /\ v.screen = "SessionHome" /\ v.active = s /\ v.overlay = u.overlay
        /\ v.effect = u.effect /\ v.mode = u.mode /\ v.composer = NoFinding
    BY <1>2 DEF PanesAgree, Panes
  <1>5. OneInput(v) /\ ShowsActive(v)
    BY <1>4, NothingOpen, CockpitAssumption
       DEF PanesAgree, OneInput, ShowsActive
  <1> QED BY <1>1, <1>3, <1>4, <1>5 DEF PanesAgree

LEMMA BootstrapAgrees ==
    ASSUME NEW u \in Bootstrap
    PROVE  PanesAgree(u) /\ u.screen # "Findings"
  <1>1. Fresh("Home").overlay = NoOverlay /\ Fresh("Home").effect = NoEffect
    BY DEF Fresh
  <1> QED BY <1>1, FreshAgrees, SessionHomeAgrees DEF Bootstrap

LEMMA HomeAgrees ==
    ASSUME NEW u, PanesAgree(u), DetailFits(u), NEW loads \in BOOLEAN
    PROVE  /\ PanesAgree(HomeForActive(u, loads))
           /\ DetailFits(HomeForActive(u, loads))
           /\ HomeForActive(u, loads).screen = "Findings" =>
                 u.screen = "Findings" /\ HomeForActive(u, loads).rows = u.rows
  <1>1. CASE u.active = NoSession
    <2>1. PICK v : v = [u EXCEPT !.screen = "Home"]
      OBVIOUS
    <2>2. v = HomeForActive(u, loads)
      BY <1>1, <2>1 DEF HomeForActive
    <2>3. PanesAgree(v) /\ v.screen = "Home"
      BY <2>1 DEF PanesAgree, Panes, Screens, OneInput, ShowsActive
    <2> QED BY <2>2, <2>3 DEF DetailFits
  <1>2. CASE u.active # NoSession /\ loads
    <2>1. PICK v : v = [[u EXCEPT !.rows = NoRows, !.cursor = 1, !.items = NoItems,
                                  !.open = NoSession, !.reviews = {}]
                          EXCEPT !.screen = "SessionHome"]
      OBVIOUS
    <2>2. v = HomeForActive(u, loads)
      BY <1>2, <2>1 DEF HomeForActive, Forget
    <2>3. v \in Panes
      <3>1. PICK w : w = [u EXCEPT !.rows = NoRows, !.cursor = 1,
                            !.items = NoItems, !.open = NoSession, !.reviews = {}]
        OBVIOUS
      <3>2. w \in Panes
        BY <3>1, NothingOpen, TableFacts DEF PanesAgree, Panes
      <3>3. v = [w EXCEPT !.screen = "SessionHome"]
        BY <2>1, <3>1
      <3> QED BY <3>2, <3>3 DEF Panes, Screens
    <2>4. /\ v.screen = "SessionHome" /\ v.active = u.active
          /\ v.overlay = u.overlay /\ v.effect = u.effect /\ v.mode = u.mode
          /\ v.composer = u.composer
      BY <2>1 DEF PanesAgree, Panes
    <2>5. OneInput(v) /\ ShowsActive(v)
      BY <1>2, <2>4 DEF PanesAgree, OneInput, ShowsActive
    <2> QED BY <2>2, <2>3, <2>4, <2>5 DEF DetailFits, PanesAgree
  <1>3. CASE u.active # NoSession /\ ~loads
    BY <1>3 DEF HomeForActive
  <1> QED BY <1>1, <1>2, <1>3

\* A change that leaves the queue, the screen and what is open where they are.
SameScreen(u, v) ==
    /\ v.screen = u.screen /\ v.active = u.active /\ v.rows = u.rows
    /\ v.cursor = u.cursor /\ v.needle = u.needle /\ v.sort = u.sort
    /\ v.detail = u.detail /\ v.items = u.items /\ v.reviews = u.reviews
    /\ v.batch = u.batch

LEMMA SameScreenFits ==
    ASSUME NEW u, NEW v, PanesAgree(u), DetailFits(u), SameScreen(u, v),
           v \in Panes, OneInput(v),
           v.screen = "Findings" => v.selected \subseteq DOMAIN u.rows,
           v.overlay.kind \in {"approve", "post"} =>
              v.overlay.session = u.active /\ u.active # NoSession,
           v.effect.kind = "edit" => v.effect.session = u.active,
           v.composer # NoFinding => OwnerOf[v.composer] = u.active
    PROVE  PanesAgree(v) /\ DetailFits(v)
  <1>1. CurrentFinding(v) = CurrentFinding(u)
    BY DEF SameScreen, CurrentFinding
  <1> QED BY <1>1 DEF SameScreen, PanesAgree, ShowsActive, DetailFits

\* On another screen than the queue nothing has to fit the focus.
LEMMA OffTheQueue ==
    ASSUME CockpitIInv, NEW u, Shows(u), PanesAgree(u), u.screen # "Findings"
    PROVE  CockpitIInv'
  BY ShowsStep DEF DetailFits

LEMMA QuitStep == CockpitIInv /\ Quit => CockpitIInv'
  <1> SUFFICES ASSUME CockpitIInv, Quit PROVE CockpitIInv'
    OBVIOUS
  <1>1. PanesAgree(ui') /\ ui'.screen # "Findings"
    BY BootstrapAgrees DEF Quit
  <1>2. StoreOK' /\ QueueIsTruthful' /\ WritesAreForActive'
    BY <1>1 DEF CockpitIInv, Quit, StoreOK, savedVars, QueueIsTruthful,
       WritesAreForActive
  <1> QED BY <1>1, <1>2 DEF CockpitIInv, DetailFits

LEMMA OpenSessionStep == CockpitIInv /\ OpenSession => CockpitIInv'
  <1> SUFFICES ASSUME CockpitIInv, OpenSession PROVE CockpitIInv'
    OBVIOUS
  <1>1. ui.overlay = NoOverlay /\ ui.effect = NoEffect /\ PanesAgree(ui)
    BY DEF OpenSession, On, CockpitIInv
  <1>2. ASSUME NEW s \in Sessions, Shows(SessionHome(ui, s))
        PROVE  CockpitIInv'
    <2>1. PICK u : u = SessionHome(ui, s)
      OBVIOUS
    <2> QED BY <1>1, <1>2, <2>1, SessionHomeAgrees, OffTheQueue
  <1>3. CASE Shows([ui EXCEPT !.screen = "Home"])
    <2>1. PICK u : u = [ui EXCEPT !.screen = "Home"]
      OBVIOUS
    <2>2. PanesAgree(u) /\ u.screen = "Home"
      BY <1>1, <2>1 DEF PanesAgree, Panes, Screens, OneInput, ShowsActive
    <2> QED BY <1>3, <2>1, <2>2, OffTheQueue
  <1>4. CASE Shows(ui)
    <2>1. PICK u : u = ui
      OBVIOUS
    <2>2. u.screen # "Findings"
      BY <2>1 DEF OpenSession, On
    <2> QED BY <1>1, <1>4, <2>1, <2>2, OffTheQueue
  <1> QED BY <1>2, <1>3, <1>4 DEF OpenSession

\* The queue is entered, with the rows of the session's latest run.
LEMMA OpenFindingsStep ==
    ASSUME CockpitIInv, On("SessionHome"), NEW loads \in BOOLEAN,
           ui' = OpenFindings(ui, loads), stale' = FALSE, deeds' = {},
           UNCHANGED <<savedVars, changes>>
    PROVE  CockpitIInv'
  <1>1. /\ PanesAgree(ui) /\ ui \in Panes /\ StoreOK
        /\ ui.screen = "SessionHome" /\ ui.active \in Sessions
        /\ ui.overlay = NoOverlay /\ ui.effect = NoEffect /\ ui.mode = "none"
    BY DEF On, CockpitIInv, PanesAgree, Panes, OneInput, AnySession
  <1>2. /\ listing[ui.active] \subseteq Findings
        /\ OwnedBy(ui.active, listing[ui.active])
        /\ triage \in [Findings -> TriageStates]
    BY <1>1 DEF StoreOK
  <1>3. PICK rows : rows = LoadedRows(ui.active)
    OBVIOUS
  <1>4. /\ rows \in RowTables /\ DOMAIN rows = listing[ui.active]
        /\ \A f \in DOMAIN rows : rows[f] = triage[f]
    BY <1>2, <1>3, TableFacts DEF LoadedRows
  <1>5. PICK v : v = [ui EXCEPT !.rows = rows, !.cursor = 1, !.screen = "Findings",
                        !.selected = @ \cap listing[ui.active]]
    OBVIOUS
  <1>6. ui' = RefreshDetail(v, loads)
    BY <1>3, <1>5 DEF OpenFindings
  <1>7. v \in Panes
    BY <1>1, <1>2, <1>4, <1>5 DEF Panes, Screens
  <1>8. /\ v.screen = "Findings" /\ v.rows = rows /\ v.active = ui.active
        /\ v.selected \subseteq listing[ui.active]
        /\ v.overlay = ui.overlay /\ v.effect = ui.effect /\ v.mode = ui.mode
        /\ v.composer = ui.composer
    BY <1>1, <1>5 DEF Panes
  <1>9. OneInput(v) /\ ShowsActive(v)
    BY <1>1, <1>2, <1>4, <1>8, CockpitAssumption, NothingOpen
       DEF PanesAgree, OneInput, ShowsActive
  <1>10. PanesAgree(ui') /\ DetailFits(ui') /\ ui'.rows = rows
    BY <1>6, <1>7, <1>8, <1>9, RefreshFits DEF PanesAgree
  <1>11. QueueIsTruthful'
    BY <1>4, <1>10 DEF QueueIsTruthful, savedVars
  <1>12. StoreOK' /\ WritesAreForActive'
    BY <1>1 DEF StoreOK, savedVars, WritesAreForActive
  <1> QED BY <1>10, <1>11, <1>12 DEF CockpitIInv

LEMMA ListedBatchFits ==
    ASSUME StoreOK, NEW s \in Sessions
    PROVE  /\ ListedBatch(s) \in BatchRecords
           /\ ListedBatch(s).session \in {NoSession, s}
  BY NothingOpen DEF StoreOK, ListedBatch, AnySession, BatchRecords

\* Another screen of the session is entered from its home.
LEMMA ScreenOfSession ==
    ASSUME CockpitIInv, On("SessionHome"),
           \/ \E loads \in BOOLEAN : Shows(OpenDrafts(ui, loads))
           \/ Shows([ui EXCEPT !.screen = "Timeline"])
           \/ \E listed \in {{}, PendingReviews(ui.active)} :
                 Shows([ui EXCEPT !.reviews = listed, !.screen = "Search", !.mode = "search"])
           \/ Shows([ui EXCEPT !.mode = "composer", !.composer = NoFinding])
           \/ Shows([ui EXCEPT !.screen = "Home"])
           \/ Shows(ui)
    PROVE  CockpitIInv'
  <1>1. /\ PanesAgree(ui) /\ ui \in Panes /\ StoreOK /\ DetailFits(ui)
        /\ ui.screen = "SessionHome" /\ ui.active \in Sessions
        /\ ui.overlay = NoOverlay /\ ui.effect = NoEffect /\ ui.mode = "none"
    BY DEF On, CockpitIInv, PanesAgree, Panes, OneInput, AnySession
  <1>2. ASSUME NEW loads \in BOOLEAN, Shows(OpenDrafts(ui, loads))
        PROVE  CockpitIInv'
    <2>1. CASE ~loads
      BY <1>1, <1>2, <2>1, OffTheQueue DEF OpenDrafts
    <2>2. CASE loads
      <3>1. PICK b : b = ListedBatch(ui.active)
        OBVIOUS
      <3>2. PICK v : v = [ui EXCEPT !.batch = b, !.screen = "Drafts"]
        OBVIOUS
      <3>3. v = OpenDrafts(ui, loads)
        BY <2>2, <3>1, <3>2 DEF OpenDrafts
      <3>4. /\ b \in BatchRecords
            /\ b.session \in {NoSession, ui.active}
        BY <1>1, <3>1, ListedBatchFits
      <3>5. v \in Panes /\ v.screen = "Drafts"
        BY <1>1, <3>2, <3>4 DEF Panes, Screens
      <3>6. OneInput(v) /\ ShowsActive(v)
        BY <1>1, <3>2, <3>4, NothingOpen
           DEF PanesAgree, Panes, OneInput, ShowsActive
      <3> QED BY <1>2, <3>3, <3>5, <3>6, OffTheQueue DEF PanesAgree
    <2> QED BY <2>1, <2>2
  <1>3. CASE Shows([ui EXCEPT !.screen = "Timeline"])
    <2>1. PICK v : v = [ui EXCEPT !.screen = "Timeline"]
      OBVIOUS
    <2>2. v \in Panes /\ v.screen = "Timeline"
      BY <1>1, <2>1 DEF Panes, Screens
    <2>3. OneInput(v) /\ ShowsActive(v)
      BY <1>1, <2>1, NothingOpen DEF PanesAgree, Panes, OneInput, ShowsActive
    <2> QED BY <1>3, <2>1, <2>2, <2>3, OffTheQueue DEF PanesAgree
  <1>4. ASSUME NEW listed \in {{}, PendingReviews(ui.active)},
               Shows([ui EXCEPT !.reviews = listed, !.screen = "Search", !.mode = "search"])
        PROVE  CockpitIInv'
    <2>1. PICK v : v = [ui EXCEPT !.reviews = listed, !.screen = "Search",
                                  !.mode = "search"]
      OBVIOUS
    <2>2. listed \subseteq {ui.active} /\ listed \subseteq AnySession
      BY <1>1 DEF PendingReviews, AnySession
    <2>3. v \in Panes /\ v.screen = "Search"
      BY <1>1, <2>1, <2>2 DEF Panes, Screens
    <2>4. OneInput(v) /\ ShowsActive(v)
      BY <1>1, <2>1, <2>2, NothingOpen
         DEF PanesAgree, Panes, OneInput, ShowsActive
    <2> QED BY <1>4, <2>1, <2>3, <2>4, OffTheQueue DEF PanesAgree
  <1>5. CASE Shows([ui EXCEPT !.mode = "composer", !.composer = NoFinding])
    <2>1. PICK v : v = [ui EXCEPT !.mode = "composer", !.composer = NoFinding]
      OBVIOUS
    <2>2. v \in Panes /\ v.screen = "SessionHome"
      BY <1>1, <2>1, NothingOpen DEF Panes
    <2>3. OneInput(v) /\ ShowsActive(v)
      BY <1>1, <2>1, NothingOpen DEF PanesAgree, Panes, OneInput, ShowsActive
    <2> QED BY <1>5, <2>1, <2>2, <2>3, OffTheQueue DEF PanesAgree
  <1>6. CASE Shows([ui EXCEPT !.screen = "Home"])
    <2>1. PICK v : v = [ui EXCEPT !.screen = "Home"]
      OBVIOUS
    <2>2. PanesAgree(v) /\ v.screen = "Home"
      BY <1>1, <2>1 DEF PanesAgree, Panes, Screens, OneInput, ShowsActive
    <2> QED BY <1>6, <2>1, <2>2, OffTheQueue
  <1>7. CASE Shows(ui)
    <2>1. PICK v : v = ui
      OBVIOUS
    <2> QED BY <1>1, <1>7, <2>1, OffTheQueue
  <1> QED BY <1>2, <1>3, <1>4, <1>5, <1>6, <1>7

LEMMA SessionKeysStep == CockpitIInv /\ SessionKeys => CockpitIInv'
  BY OpenFindingsStep, ScreenOfSession DEF SessionKeys

LEMMA LaunchStep == CockpitIInv /\ Launch => CockpitIInv'
  <1> SUFFICES ASSUME CockpitIInv, Launch PROVE CockpitIInv'
    OBVIOUS
  <1>1. /\ PanesAgree(ui) /\ ui \in Panes
        /\ ui.screen \in {"Home", "SessionHome"}
        /\ ui.overlay = NoOverlay /\ ui.effect = NoEffect /\ ui.mode = "none"
    BY DEF On, Launch, CockpitIInv, PanesAgree
  <1>2. PICK s \in AnySession :
          Shows([ui EXCEPT !.effect.kind = "launch", !.effect.session = s])
    BY <1>1 DEF Launch, Panes, AnySession
  <1>3. PICK e : e = [NoEffect EXCEPT !.kind = "launch", !.session = s]
    OBVIOUS
  <1>4. PICK v : v = [ui EXCEPT !.effect = e]
    OBVIOUS
  <1>5. v = [ui EXCEPT !.effect.kind = "launch", !.effect.session = s]
    BY <1>1, <1>3, <1>4
  <1>6. /\ e \in CockpitEffects
        /\ e.kind = "launch"
    BY <1>3 DEF NoEffect, Bodies, CockpitEffects
  <1>7. v \in Panes /\ v.screen \in {"Home", "SessionHome"}
    BY <1>1, <1>4, <1>6 DEF Panes
  <1>8. OneInput(v) /\ ShowsActive(v)
    BY <1>1, <1>4, <1>6, NothingOpen DEF PanesAgree, Panes, OneInput, ShowsActive
  <1> QED BY <1>2, <1>5, <1>7, <1>8, OffTheQueue DEF PanesAgree

LEMMA LaunchReturnsStep == CockpitIInv /\ LaunchReturns => CockpitIInv'
  <1> SUFFICES ASSUME CockpitIInv, LaunchReturns PROVE CockpitIInv'
    OBVIOUS
  <1>1. PanesAgree(ui) /\ ui \in Panes /\ DetailFits(ui)
    BY DEF CockpitIInv, PanesAgree
  <1>2. PICK v : v = [ui EXCEPT !.effect = NoEffect]
    OBVIOUS
  <1>3. v \in Panes /\ SameScreen(ui, v) /\ v.selected = ui.selected
        /\ v.overlay = ui.overlay /\ v.mode = ui.mode
        /\ v.composer = ui.composer /\ v.effect = NoEffect
    BY <1>1, <1>2, NothingOpen DEF Panes, SameScreen
  <1>4. OneInput(v)
    BY <1>1, <1>3 DEF PanesAgree, OneInput, SameScreen
  <1>5. PanesAgree(v) /\ DetailFits(v)
    <2>1. /\ v.screen = "Findings" => v.selected \subseteq DOMAIN ui.rows
          /\ v.overlay.kind \in {"approve", "post"} =>
                v.overlay.session = ui.active /\ ui.active # NoSession
          /\ v.effect.kind # "edit"
          /\ v.composer # NoFinding => OwnerOf[v.composer] = ui.active
      BY <1>1, <1>3, NothingOpen DEF PanesAgree, ShowsActive, SameScreen
    <2> QED BY <1>1, <1>3, <1>4, <2>1, SameScreenFits
  <1>6. PICK loads \in BOOLEAN :
          Shows(IF ui.active = NoSession THEN v ELSE HomeForActive(v, loads))
    BY <1>2 DEF LaunchReturns
  <1>7. CASE ui.active = NoSession
    BY <1>3, <1>5, <1>6, <1>7, ShowsStep DEF SameScreen
  <1>8. CASE ui.active # NoSession
    BY <1>3, <1>5, <1>6, <1>8, ShowsStep, HomeAgrees DEF SameScreen
  <1> QED BY <1>7, <1>8

LEMMA BackStep == CockpitIInv /\ Back => CockpitIInv'
  <1> SUFFICES ASSUME CockpitIInv, Back PROVE CockpitIInv'
    OBVIOUS
  <1>1. PanesAgree(ui) /\ DetailFits(ui)
    BY DEF CockpitIInv
  <1>2. PICK loads \in BOOLEAN : Shows(HomeForActive(ui, loads))
    BY DEF Back
  <1> QED BY <1>1, <1>2, HomeAgrees, ShowsStep
-----------------------------------------------------------------------------
(* The findings queue                                                      *)

\* The facts a key on a screen starts from.
LEMMA KeyFacts ==
    ASSUME CockpitIInv
    PROVE  /\ StoreOK /\ PanesAgree(ui) /\ DetailFits(ui) /\ ui \in Panes
           /\ OneInput(ui) /\ ShowsActive(ui)
           /\ ui.active \in AnySession
           /\ ui.screen \notin {"Picker", "Home"} => ui.active \in Sessions
  <1>1. /\ StoreOK /\ PanesAgree(ui) /\ DetailFits(ui) /\ ui \in Panes
        /\ OneInput(ui) /\ ShowsActive(ui)
    BY DEF CockpitIInv, PanesAgree
  <1>2. ui.active \in AnySession
    BY <1>1 DEF Panes
  <1> QED BY <1>1, <1>2 DEF OneInput, AnySession

\* A key of the queue that moves the focus or the filter loads the inspector.
LEMMA QueueStep ==
    ASSUME CockpitIInv, NEW cursor \in Nat, NEW needle \in Needles,
           NEW sort \in {"stored", "triage"}, NEW loads \in BOOLEAN,
           Shows(RefreshDetail([ui EXCEPT !.cursor = cursor, !.needle = needle,
                                          !.sort = sort], loads))
    PROVE  CockpitIInv'
  <1>1. PanesAgree(ui) /\ ui \in Panes
    BY KeyFacts
  <1>2. PICK v : v = [ui EXCEPT !.cursor = cursor, !.needle = needle, !.sort = sort]
    OBVIOUS
  <1>3. /\ v \in Panes
        /\ v.screen = ui.screen /\ v.active = ui.active /\ v.rows = ui.rows
        /\ v.selected = ui.selected /\ v.overlay = ui.overlay /\ v.mode = ui.mode
        /\ v.effect = ui.effect /\ v.batch = ui.batch /\ v.items = ui.items
        /\ v.reviews = ui.reviews /\ v.composer = ui.composer
    BY <1>1, <1>2 DEF Panes
  <1>4. PanesAgree(v)
    BY <1>1, <1>3 DEF PanesAgree, OneInput, ShowsActive
  <1>5. PICK u : u = RefreshDetail(v, loads)
    OBVIOUS
  <1>6. PanesAgree(u) /\ DetailFits(u) /\ u.screen = ui.screen /\ u.rows = ui.rows
    BY <1>3, <1>4, <1>5, RefreshFits
  <1> QED BY <1>2, <1>5, <1>6, ShowsStep

\* The fields a key leaves alone may be written to what they are.
LEMMA SameFields ==
    ASSUME NEW u \in Panes
    PROVE  /\ \A c : [u EXCEPT !.cursor = c] =
                     [u EXCEPT !.cursor = c, !.needle = u.needle, !.sort = u.sort]
           /\ \A c, n : [u EXCEPT !.needle = n, !.cursor = c] =
                        [u EXCEPT !.cursor = c, !.needle = n, !.sort = u.sort]
           /\ \A c, s : [u EXCEPT !.sort = s, !.cursor = c] =
                        [u EXCEPT !.cursor = c, !.needle = u.needle, !.sort = s]
  BY DEF Panes

LEMMA MoveStep == CockpitIInv /\ Move => CockpitIInv'
  <1> SUFFICES ASSUME CockpitIInv, Move PROVE CockpitIInv'
    OBVIOUS
  <1>1. ui \in Panes /\ ui.cursor \in Nat /\ ui.needle \in Needles
        /\ ui.sort \in {"stored", "triage"}
    BY KeyFacts DEF Panes
  <1>2. PICK next \in Nat, loads \in BOOLEAN :
          Shows(RefreshDetail([ui EXCEPT !.cursor = next], loads))
    BY <1>1 DEF Move
  <1>3. [ui EXCEPT !.cursor = next] =
        [ui EXCEPT !.cursor = next, !.needle = ui.needle, !.sort = ui.sort]
    BY <1>1, SameFields
  <1> QED BY <1>1, <1>2, <1>3, QueueStep

LEMMA ResortStep == CockpitIInv /\ Resort => CockpitIInv'
  <1> SUFFICES ASSUME CockpitIInv, Resort PROVE CockpitIInv'
    OBVIOUS
  <1>1. ui \in Panes /\ ui.needle \in Needles /\ 1 \in Nat
    BY KeyFacts DEF Panes
  <1>2. PICK sort : sort = IF ui.sort = "stored" THEN "triage" ELSE "stored"
    OBVIOUS
  <1>3. PICK loads \in BOOLEAN :
          Shows(RefreshDetail([ui EXCEPT !.sort = sort, !.cursor = 1], loads))
    BY <1>2 DEF Resort
  <1>4. [ui EXCEPT !.sort = sort, !.cursor = 1] =
        [ui EXCEPT !.cursor = 1, !.needle = ui.needle, !.sort = sort]
    BY <1>1, SameFields
  <1> QED BY <1>1, <1>2, <1>3, <1>4, QueueStep

\* Another mode, selection and composer; and another overlay, effect and batch.
WithInput(u, mode, selected, composer) ==
    [u EXCEPT !.mode = mode, !.selected = selected, !.composer = composer]

WithOpen(u, overlay, effect, b) ==
    [u EXCEPT !.overlay = overlay, !.effect = effect, !.batch = b]

\* A change of the mode, the selection or the composer on the queue.
LEMMA OverlayFreeStep ==
    ASSUME CockpitIInv, NEW mode \in {"none", "search", "composer", "finding_filter"},
           NEW selected \in SUBSET Findings, NEW composer \in AnyFinding,
           ui.overlay = NoOverlay, ui.effect = NoEffect,
           ui.screen = "Findings" => selected \subseteq DOMAIN ui.rows,
           composer # NoFinding => OwnerOf[composer] = ui.active
    PROVE  /\ PanesAgree(WithInput(ui, mode, selected, composer))
           /\ DetailFits(WithInput(ui, mode, selected, composer))
           /\ WithInput(ui, mode, selected, composer).screen = ui.screen
           /\ WithInput(ui, mode, selected, composer).rows = ui.rows
           /\ Shows(WithInput(ui, mode, selected, composer)) => CockpitIInv'
  <1> PICK v : v = WithInput(ui, mode, selected, composer)
    OBVIOUS
  <1>1. PanesAgree(ui) /\ ui \in Panes /\ DetailFits(ui)
    BY KeyFacts
  <1>2. v \in Panes
    BY <1>1 DEF Panes, WithInput
  <1>3. SameScreen(ui, v) /\ v.selected = selected /\ v.composer = composer
        /\ v.overlay = ui.overlay /\ v.effect = ui.effect
    BY <1>1 DEF Panes, SameScreen, WithInput
  <1>4. OneInput(v)
    BY <1>1, <1>3 DEF PanesAgree, OneInput, SameScreen
  <1>5. v.overlay.kind = "none" /\ v.effect.kind = "none"
    BY <1>3, NothingOpen
  <1>6. /\ v.screen = "Findings" => v.selected \subseteq DOMAIN ui.rows
        /\ v.overlay.kind \notin {"approve", "post"} /\ v.effect.kind # "edit"
        /\ v.composer # NoFinding => OwnerOf[v.composer] = ui.active
    BY <1>3, <1>5 DEF SameScreen
  <1>7. PanesAgree(v) /\ DetailFits(v)
    BY <1>1, <1>2, <1>3, <1>4, <1>6, SameScreenFits
  <1> QED BY <1>3, <1>7, ShowsStep DEF SameScreen

LEMMA SameInputs ==
    ASSUME NEW u \in Panes
    PROVE  /\ \A m : [u EXCEPT !.mode = m] =
                 WithInput(u, m, u.selected, u.composer)
           /\ \A s : [u EXCEPT !.selected = s] =
                 WithInput(u, u.mode, s, u.composer)
           /\ \A m, c : [u EXCEPT !.mode = m, !.composer = c] =
                 WithInput(u, m, u.selected, c)
  BY DEF Panes, WithInput

LEMMA SelectionStep ==
    ASSUME CockpitIInv, On("Findings"), NEW f \in DOMAIN ui.rows \cup {NoFinding},
           NEW selected \in SUBSET DOMAIN ui.rows,
           Shows([ui EXCEPT !.selected = selected])
    PROVE  CockpitIInv'
  <1>1. /\ ui \in Panes /\ ui.overlay = NoOverlay /\ ui.effect = NoEffect
        /\ ShowsActive(ui)
    BY KeyFacts DEF On
  <1>2. /\ selected \subseteq Findings
        /\ ui.mode \in {"none", "search", "composer", "finding_filter"}
        /\ ui.composer \in AnyFinding
        /\ ui.composer # NoFinding => OwnerOf[ui.composer] = ui.active
    BY <1>1, FocusIsRow DEF Panes, ShowsActive
  <1>3. PICK v : v = WithInput(ui, ui.mode, selected, ui.composer)
    OBVIOUS
  <1>4. Shows(v)
    BY <1>1, <1>3, SameInputs
  <1>5. selected \in SUBSET Findings
        /\ (ui.screen = "Findings" => selected \subseteq DOMAIN ui.rows)
    BY <1>2
  <1> QED BY <1>1, <1>2, <1>3, <1>4, <1>5, OverlayFreeStep

LEMMA ToggleSelectionStep == CockpitIInv /\ ToggleSelection => CockpitIInv'
  <1> SUFFICES ASSUME CockpitIInv, ToggleSelection PROVE CockpitIInv'
    OBVIOUS
  <1>1. ui \in Panes /\ ui.screen = "Findings" /\ On("Findings")
        /\ ui.selected \subseteq DOMAIN ui.rows
    BY KeyFacts DEF ToggleSelection, On, ShowsActive
  <1>2. PICK f : f = CurrentFinding(ui)
    OBVIOUS
  <1>3. f \in DOMAIN ui.rows
    BY <1>1, <1>2, FocusIsRow DEF ToggleSelection
  <1>4. PICK selected : selected = IF f \in ui.selected THEN ui.selected \ {f}
                                   ELSE ui.selected \cup {f}
    OBVIOUS
  <1>5. Shows([ui EXCEPT !.selected = selected])
    BY <1>2, <1>4 DEF ToggleSelection
  <1> QED BY <1>1, <1>3, <1>4, <1>5, SelectionStep

\* A change of mode where no overlay is open.
LEMMA ModeStep ==
    ASSUME CockpitIInv, NEW mode \in {"none", "search", "composer", "finding_filter"},
           ui.overlay = NoOverlay, ui.effect = NoEffect,
           NEW v, v = [ui EXCEPT !.mode = mode]
    PROVE  /\ PanesAgree(v) /\ DetailFits(v)
           /\ v.screen = ui.screen /\ v.rows = ui.rows
           /\ Shows(v) => CockpitIInv'
  <1>1. ui \in Panes /\ ShowsActive(ui)
    BY KeyFacts
  <1>2. /\ ui.selected \in SUBSET Findings /\ ui.composer \in AnyFinding
        /\ ui.screen = "Findings" => ui.selected \subseteq DOMAIN ui.rows
        /\ ui.composer # NoFinding => OwnerOf[ui.composer] = ui.active
    BY <1>1 DEF Panes, ShowsActive
  <1>3. v = WithInput(ui, mode, ui.selected, ui.composer)
    BY <1>1, SameInputs
  <1>4. PICK selected \in SUBSET Findings, composer \in AnyFinding :
          selected = ui.selected /\ composer = ui.composer
    BY <1>2
  <1>5. /\ ui.screen = "Findings" => selected \subseteq DOMAIN ui.rows
        /\ composer # NoFinding => OwnerOf[composer] = ui.active
    BY <1>2, <1>4
  <1>6. v = WithInput(ui, mode, selected, composer)
    BY <1>3, <1>4
  <1>7. PanesAgree(v) /\ DetailFits(v) /\ v.screen = ui.screen /\ v.rows = ui.rows
    BY <1>5, <1>6, OverlayFreeStep
  <1> QED BY <1>7, ShowsStep

LEMMA FilterStep == CockpitIInv /\ Filter => CockpitIInv'
  <1> SUFFICES ASSUME CockpitIInv, Filter PROVE CockpitIInv'
    OBVIOUS
  <1>1. ui \in Panes /\ ui.overlay = NoOverlay /\ ui.effect = NoEffect
    BY KeyFacts DEF Filter, On, Typing
  <1>2. CASE \E mode \in {"none", "finding_filter"} :
                Shows([ui EXCEPT !.mode = mode])
    BY <1>1, <1>2, ModeStep
  <1>3. CASE On("Findings") /\ Shows([ui EXCEPT !.selected = {}])
    <2>1. NoFinding \in DOMAIN ui.rows \cup {NoFinding}
          /\ {} \in SUBSET DOMAIN ui.rows
      OBVIOUS
    <2> QED BY <1>3, <2>1, SelectionStep
  <1>4. ASSUME NEW needle \in Needles, NEW loads \in BOOLEAN,
               Shows(RefreshDetail([ui EXCEPT !.needle = needle, !.cursor = 1], loads))
        PROVE  CockpitIInv'
    <2>1. ui.sort \in {"stored", "triage"} /\ 1 \in Nat
      BY <1>1 DEF Panes
    <2>2. [ui EXCEPT !.needle = needle, !.cursor = 1] =
          [ui EXCEPT !.cursor = 1, !.needle = needle, !.sort = ui.sort]
      BY <1>1, SameFields
    <2> QED BY <1>4, <2>1, <2>2, QueueStep
  <1>5. "" \in Needles
    BY DEF Needles
  <1> QED BY <1>2, <1>3, <1>4, <1>5 DEF Filter

LEMMA OpenComposerStep == CockpitIInv /\ OpenComposer => CockpitIInv'
  <1> SUFFICES ASSUME CockpitIInv, OpenComposer PROVE CockpitIInv'
    OBVIOUS
  <1>1. /\ ui \in Panes /\ ShowsActive(ui) /\ ui.screen = "Findings"
        /\ ui.overlay = NoOverlay /\ ui.effect = NoEffect
    BY KeyFacts DEF OpenComposer, On
  <1>2. PICK f : f = CurrentFinding(ui)
    OBVIOUS
  <1>3. f \in AnyFinding /\ f \in DOMAIN ui.rows \cup {NoFinding}
    BY <1>1, <1>2, FocusIsRow
  <1>4. f # NoFinding => OwnerOf[f] = ui.active
    BY <1>1, <1>3 DEF ShowsActive, OwnedBy
  <1>5. Shows([ui EXCEPT !.mode = "composer", !.composer = f])
    BY <1>2 DEF OpenComposer
  <1>6. [ui EXCEPT !.mode = "composer", !.composer = f] =
        WithInput(ui, "composer", ui.selected, f)
    BY <1>1 DEF WithInput, Panes
  <1>7. ui.selected \in SUBSET Findings /\ ui.selected \subseteq DOMAIN ui.rows
    BY <1>1 DEF Panes, ShowsActive
  <1> QED BY <1>1, <1>3, <1>4, <1>5, <1>6, <1>7, OverlayFreeStep

\* A key that writes: the rows of the store it changed are those it accounts
\* for, and the queue is shown as before or another screen is.
LEMMA KeyWrites ==
    ASSUME CockpitIInv, StoreOK', PanesAgree(ui'), DetailFits(ui'),
           WritesAreForActive', UNCHANGED <<triage, stale>>,
           ui'.screen = "Findings" => ui.screen = "Findings" /\ ui'.rows = ui.rows
    PROVE  CockpitIInv'
  <1>1. QueueIsTruthful'
    BY DEF CockpitIInv, QueueIsTruthful
  <1> QED BY <1>1 DEF CockpitIInv

LEMMA DeedsFit ==
    ASSUME NEW op
    PROVE  /\ \A D : (\A f \in D : OwnerOf[f] = ui.active)
                  /\ deeds' = {Deed(op, OwnerOf[f]) : f \in D} => WritesAreForActive'
           /\ deeds' = {Deed(op, ui.active)} => WritesAreForActive'
           /\ deeds' = {} => WritesAreForActive'
  BY DEF WritesAreForActive, Deed

\* What a triage or a draft is about is in the queue.
LEMMA TargetsAreRows ==
    ASSUME CockpitIInv, On("Findings")
    PROVE  /\ TriageTargets \subseteq DOMAIN ui.rows
           /\ DraftTargets \subseteq DOMAIN ui.rows
           /\ DOMAIN ui.rows \subseteq Findings
           /\ \A f \in DOMAIN ui.rows : OwnerOf[f] = ui.active
  <1>1. ui \in Panes /\ ShowsActive(ui) /\ ui.screen = "Findings"
    BY KeyFacts DEF On
  <1>2. ui.selected \subseteq DOMAIN ui.rows /\ OwnedBy(ui.active, DOMAIN ui.rows)
    BY <1>1 DEF ShowsActive
  <1>3. CurrentFinding(ui) \in DOMAIN ui.rows \cup {NoFinding}
        /\ DOMAIN ui.rows \subseteq Findings
    BY <1>1, FocusIsRow
  <1> QED BY <1>2, <1>3 DEF TriageTargets, DraftTargets, OwnedBy

\* The queue that is loaded again: the rows of the session, the inspector on
\* the row under the cursor.
LEMMA ReloadedFits ==
    ASSUME NEW u, PanesAgree(u), NEW rows \in RowTables, OwnedBy(u.active, DOMAIN rows),
           NEW loads \in BOOLEAN
    PROVE  /\ PanesAgree(Reloaded(u, rows, loads)) /\ DetailFits(Reloaded(u, rows, loads))
           /\ Reloaded(u, rows, loads).rows = rows
  <1>1. u \in Panes
    BY DEF PanesAgree
  <1>2. PICK anchor : anchor = CurrentFinding(u)
    OBVIOUS
  <1>3. PICK last \in Nat : last = Cardinality(VisibleFindings(rows, u.needle))
    BY ShownIsFinite
  <1>4. PICK place \in Nat : place = PlaceOf(anchor, rows, u.needle, u.sort)
    BY PlaceIsNumber
  <1>5. PICK cursor : cursor = IF anchor \in VisibleFindings(rows, u.needle) THEN place
                               ELSE IF last = 0 THEN 1
                               ELSE IF u.cursor > last THEN last ELSE u.cursor
    OBVIOUS
  <1>6. cursor \in Nat
    BY <1>1, <1>5 DEF Panes
  <1>7. PICK v : v = [u EXCEPT !.rows = rows, !.selected = @ \cap DOMAIN rows,
                              !.cursor = cursor]
    OBVIOUS
  <1>8. Reloaded(u, rows, loads) = RefreshDetail(v, loads)
    BY <1>2, <1>3, <1>4, <1>5, <1>7 DEF Reloaded
  <1>9. /\ v \in Panes
        /\ v.screen = u.screen /\ v.active = u.active /\ v.rows = rows
        /\ v.selected = u.selected \cap DOMAIN rows
        /\ v.overlay = u.overlay /\ v.mode = u.mode /\ v.effect = u.effect
        /\ v.batch = u.batch /\ v.items = u.items /\ v.reviews = u.reviews
        /\ v.composer = u.composer
    BY <1>1, <1>6, <1>7 DEF Panes
  <1>10. PanesAgree(v)
    BY <1>9 DEF PanesAgree, OneInput, ShowsActive
  <1> QED BY <1>8, <1>9, <1>10, RefreshFits

LEMMA TriageStep == CockpitIInv /\ Triage => CockpitIInv'
  <1> SUFFICES ASSUME CockpitIInv, Triage PROVE CockpitIInv'
    OBVIOUS
  <1>1. /\ StoreOK /\ PanesAgree(ui) /\ DetailFits(ui) /\ On("Findings")
        /\ ui.active \in Sessions
    BY KeyFacts DEF Triage, On
  <1>2. PICK state \in TriageActions, done \in SUBSET TriageTargets, loads \in BOOLEAN :
          /\ triage' = [f \in Findings |-> IF f \in done THEN state ELSE triage[f]]
          /\ Writes({Deed("triage", OwnerOf[f]) : f \in done})
          /\ \/ /\ done = TriageTargets
                /\ ui' = Reloaded(ui, [f \in listing[ui.active] |-> triage'[f]], loads)
                /\ stale' = FALSE
             \/ ui' = ui /\ stale' = TRUE
    BY DEF Triage
  <1>3. UNCHANGED <<listing, batch, body, review>>
    BY DEF Triage
  <1>4. triage' \in [Findings -> TriageStates]
    BY <1>1, <1>2 DEF StoreOK, TriageStates
  <1>5. StoreOK'
    BY <1>1, <1>3, <1>4 DEF StoreOK
  <1>6. WritesAreForActive'
    BY <1>2, TargetsAreRows, <1>1, DeedsFit DEF Writes
  <1>7. CASE ui' = ui /\ stale' = TRUE
    BY <1>1, <1>2, <1>5, <1>6, <1>7 DEF CockpitIInv, QueueIsTruthful
  <1>8. CASE /\ done = TriageTargets
             /\ ui' = Reloaded(ui, [f \in listing[ui.active] |-> triage'[f]], loads)
             /\ stale' = FALSE
    <2>1. PICK rows : rows = [f \in listing[ui.active] |-> triage'[f]]
      OBVIOUS
    <2>2. listing[ui.active] \subseteq Findings /\ OwnedBy(ui.active, listing[ui.active])
      BY <1>1 DEF StoreOK
    <2>3. /\ rows \in RowTables /\ DOMAIN rows = listing[ui.active]
          /\ \A f \in DOMAIN rows : rows[f] = triage'[f]
      BY <1>4, <2>1, <2>2, TableFacts
    <2>4. ui' = Reloaded(ui, rows, loads)
      BY <1>8, <2>1
    <2>5. PanesAgree(ui') /\ DetailFits(ui') /\ ui'.rows = rows
      BY <1>1, <2>2, <2>3, <2>4, ReloadedFits
    <2>6. QueueIsTruthful'
      BY <2>3, <2>5 DEF QueueIsTruthful
    <2> QED BY <1>5, <1>6, <2>5, <2>6 DEF CockpitIInv
  <1> QED BY <1>2, <1>7, <1>8

LEMMA CreateDraftStep == CockpitIInv /\ CreateDraft => CockpitIInv'
  <1> SUFFICES ASSUME CockpitIInv, CreateDraft PROVE CockpitIInv'
    OBVIOUS
  <1>1. /\ StoreOK /\ PanesAgree(ui) /\ DetailFits(ui) /\ On("Findings")
        /\ ui.active \in Sessions /\ ui \in Panes /\ ui.screen = "Findings"
        /\ ui.mode = "none" /\ ui.overlay = NoOverlay /\ ui.effect = NoEffect
    BY KeyFacts DEF CreateDraft, On
  <1>2. UNCHANGED <<listing, triage, body, review, stale>>
    BY DEF CreateDraft
  <1>3. CASE Writes({}) /\ UNCHANGED <<batch, ui>>
    <2>1. StoreOK' /\ PanesAgree(ui') /\ DetailFits(ui')
      BY <1>1, <1>2, <1>3 DEF StoreOK
    <2>2. WritesAreForActive'
      BY <1>3, DeedsFit DEF Writes
    <2> QED BY <1>2, <1>3, <2>1, <2>2, KeyWrites
  <1>4. CASE /\ batch' = [batch EXCEPT ![ui.active] = "awaiting_approval"]
             /\ Writes({Deed("draft", OwnerOf[f]) : f \in DraftTargets})
             /\ ui' \in {ui, [Forget(ui) EXCEPT !.screen = "Drafts",
                      !.batch = [session |-> ui.active, state |-> "awaiting_approval"]]}
    <2>1. StoreOK'
      BY <1>1, <1>2, <1>4 DEF StoreOK, BatchStates
    <2>2. WritesAreForActive'
      BY <1>1, <1>4, TargetsAreRows, DeedsFit DEF Writes
    <2>3. CASE ui' = ui
      BY <1>1, <1>2, <2>1, <2>2, <2>3, KeyWrites
    <2>4. CASE ui' = [Forget(ui) EXCEPT !.screen = "Drafts",
                       !.batch = [session |-> ui.active, state |-> "awaiting_approval"]]
      <3>1. PICK w : w = [ui EXCEPT !.rows = NoRows, !.cursor = 1, !.items = NoItems,
                                    !.open = NoSession, !.reviews = {}]
        OBVIOUS
      <3>2. w \in Panes
        BY <1>1, <3>1, NothingOpen, TableFacts DEF Panes
      <3>3. PICK b : b = [session |-> ui.active, state |-> "awaiting_approval"]
        OBVIOUS
      <3>4. b \in BatchRecords /\ b.session = ui.active
        BY <1>1, <3>3 DEF AnySession, BatchStates, BatchRecords
      <3>5. PICK v : v = [w EXCEPT !.screen = "Drafts", !.batch = b]
        OBVIOUS
      <3>6. ui' = v
        BY <2>4, <3>1, <3>3, <3>5 DEF Forget
      <3>7. v \in Panes /\ v.screen = "Drafts" /\ v.batch = b
        BY <3>2, <3>4, <3>5 DEF Panes, Screens
      <3>8. /\ v.active = ui.active /\ v.mode = ui.mode /\ v.overlay = ui.overlay
            /\ v.effect = ui.effect /\ v.composer = ui.composer
        <4>1. /\ w.active = ui.active /\ w.mode = ui.mode /\ w.overlay = ui.overlay
              /\ w.effect = ui.effect /\ w.composer = ui.composer
          BY <1>1, <3>1 DEF Panes
        <4> QED BY <3>2, <3>5, <4>1 DEF Panes
      <3>9. OneInput(v) /\ ShowsActive(v)
        BY <1>1, <3>4, <3>7, <3>8, NothingOpen DEF PanesAgree, OneInput, ShowsActive
      <3>10. PanesAgree(ui') /\ DetailFits(ui') /\ ui'.screen # "Findings"
        BY <3>6, <3>7, <3>9 DEF PanesAgree, DetailFits
      <3> QED BY <1>2, <2>1, <2>2, <3>10, KeyWrites
    <2> QED BY <1>4, <2>3, <2>4
  <1> QED BY <1>3, <1>4 DEF CreateDraft

LEMMA SubmitClarificationStep == CockpitIInv /\ SubmitClarification => CockpitIInv'
  <1> SUFFICES ASSUME CockpitIInv, SubmitClarification PROVE CockpitIInv'
    OBVIOUS
  <1>1. /\ StoreOK /\ PanesAgree(ui) /\ ui \in Panes /\ ShowsActive(ui)
        /\ ui.overlay = NoOverlay /\ ui.effect = NoEffect /\ ui.selected \in SUBSET Findings
    BY KeyFacts DEF SubmitClarification, Typing, Panes
  <1>2. UNCHANGED <<savedVars, stale>>
        /\ ui' = [ui EXCEPT !.mode = "none", !.composer = NoFinding]
    BY DEF SubmitClarification
  <1>3. PICK v : v = WithInput(ui, "none", ui.selected, NoFinding)
    OBVIOUS
  <1>4. ui' = v
    BY <1>1, <1>2, <1>3 DEF WithInput, Panes
  <1>5. NoFinding \in AnyFinding
        /\ (ui.screen = "Findings" => ui.selected \subseteq DOMAIN ui.rows)
    BY <1>1, NothingOpen DEF ShowsActive
  <1>6. PanesAgree(v) /\ DetailFits(v) /\ v.screen = ui.screen /\ v.rows = ui.rows
    BY <1>1, <1>3, <1>5, OverlayFreeStep
  <1>7. StoreOK' /\ UNCHANGED <<triage, stale>>
    BY <1>1, <1>2 DEF StoreOK, savedVars
  <1>8. ui.composer # NoFinding => OwnerOf[ui.composer] = ui.active
    BY <1>1 DEF ShowsActive
  <1>9. deeds' = {} \/ deeds' = {Deed("clarify", ui.active)}
    <2>1. PICK s : s = IF ui.composer = NoFinding THEN ui.active ELSE OwnerOf[ui.composer]
      OBVIOUS
    <2>2. s = ui.active
      BY <1>8, <2>1
    <2>3. Writes({}) \/ Writes({Deed("clarify", s)})
      BY <2>1 DEF SubmitClarification
    <2> QED BY <2>2, <2>3 DEF Writes
  <1>10. WritesAreForActive'
    BY <1>9, DeedsFit
  <1> QED BY <1>4, <1>6, <1>7, <1>10, KeyWrites

-----------------------------------------------------------------------------
(* Drafts: the gates and the editor                                        *)

\* An overlay, an effect or another batch on the screen that is shown.
LEMMA SameListFits ==
    ASSUME NEW u, PanesAgree(u), DetailFits(u),
           NEW overlay \in Overlays,
           NEW effect \in CockpitEffects,
           NEW b \in BatchRecords,
           u.mode # "none" => overlay = NoOverlay /\ effect = NoEffect,
           overlay # NoOverlay => effect = NoEffect,
           overlay.kind \in {"approve", "post"} =>
              overlay.session = u.active /\ u.active # NoSession,
           effect.kind = "edit" => effect.session = u.active,
           u.screen \in {"Drafts", "DraftItems"} => b.session \in {NoSession, u.active}
    PROVE  /\ PanesAgree(WithOpen(u, overlay, effect, b))
           /\ DetailFits(WithOpen(u, overlay, effect, b))
           /\ WithOpen(u, overlay, effect, b).screen = u.screen
           /\ WithOpen(u, overlay, effect, b).rows = u.rows
  <1> PICK v : v = WithOpen(u, overlay, effect, b)
    OBVIOUS
  <1>1. u \in Panes /\ OneInput(u) /\ ShowsActive(u)
    BY DEF PanesAgree
  <1>2. v \in Panes
    BY <1>1 DEF Panes, WithOpen
  <1>3. /\ v.screen = u.screen /\ v.active = u.active /\ v.rows = u.rows
        /\ v.cursor = u.cursor /\ v.needle = u.needle /\ v.sort = u.sort
        /\ v.detail = u.detail /\ v.items = u.items /\ v.reviews = u.reviews
        /\ v.selected = u.selected /\ v.mode = u.mode /\ v.composer = u.composer
        /\ v.overlay = overlay /\ v.effect = effect /\ v.batch = b
    BY <1>1 DEF Panes, WithOpen
  <1>4. OneInput(v)
    BY <1>1, <1>3 DEF OneInput
  <1>5. ShowsActive(v)
    BY <1>1, <1>3 DEF ShowsActive
  <1>6. CurrentFinding(v) = CurrentFinding(u)
    BY <1>3 DEF CurrentFinding
  <1> QED BY <1>2, <1>3, <1>4, <1>5, <1>6 DEF PanesAgree, DetailFits

\* The fields a gate or the editor leaves alone may be written to what they are.
LEMMA SameOverlays ==
    ASSUME NEW u \in Panes
    PROVE  /\ \A o : [u EXCEPT !.overlay = o] =
                 WithOpen(u, o, u.effect, u.batch)
           /\ \A e : [u EXCEPT !.effect = e] =
                 WithOpen(u, u.overlay, e, u.batch)
           /\ \A o, b : [[u EXCEPT !.overlay = o] EXCEPT !.batch = b] =
                 WithOpen(u, o, u.effect, b)
  BY DEF Panes, WithOpen

\* What is open on a screen, as the lemmas above need it.
LEMMA OpenFacts ==
    ASSUME CockpitIInv
    PROVE  /\ ui.overlay \in Overlays
           /\ ui.effect \in CockpitEffects
           /\ ui.batch \in BatchRecords
           /\ ui.mode # "none" => ui.overlay = NoOverlay /\ ui.effect = NoEffect
           /\ ui.overlay # NoOverlay => ui.effect = NoEffect
           /\ ui.overlay.kind \in {"approve", "post"} =>
                 ui.overlay.session = ui.active /\ ui.active \in Sessions /\ ui.effect = NoEffect /\ ui.mode = "none"
           /\ ui.effect.kind = "edit" =>
                 ui.effect.session = ui.active /\ ui.overlay = NoOverlay /\ ui.mode = "none"
           /\ ui.screen \in {"Drafts", "DraftItems"} =>
                 ui.batch.session \in {NoSession, ui.active}
  BY KeyFacts, NothingOpen DEF Panes, OneInput, ShowsActive, AnySession

LEMMA OpenGateStep ==
    ASSUME CockpitIInv, NEW kind \in {"approve", "post"}, NEW state, OpenGate(kind, state)
    PROVE  CockpitIInv'
  <1>1. /\ ui \in Panes /\ PanesAgree(ui) /\ DetailFits(ui) /\ ui.screen = "Drafts"
        /\ ui.mode = "none" /\ ui.effect = NoEffect
        /\ ui.batch.session # NoSession
    BY KeyFacts DEF OpenGate, On
  <1>2. PICK o : o = [kind |-> kind, session |-> ui.batch.session, typed |-> ""]
    OBVIOUS
  <1>3. /\ o \in Overlays
        /\ o.session = ui.active /\ ui.active # NoSession
    BY <1>1, <1>2, OpenFacts DEF Overlays, BatchRecords
  <1>4. PICK v : v = WithOpen(ui, o, ui.effect, ui.batch)
    OBVIOUS
  <1>5. Shows(v)
    BY <1>1, <1>2, <1>4, SameOverlays DEF OpenGate
  <1>6. PICK e \in CockpitEffects,
             b \in BatchRecords :
          e = ui.effect /\ b = ui.batch
    BY OpenFacts
  <1>7. /\ ui.mode = "none" /\ e = NoEffect /\ e.kind # "edit"
        /\ b.session \in {NoSession, ui.active}
        /\ v = WithOpen(ui, o, e, b)
    BY <1>1, <1>4, <1>6, OpenFacts, NothingOpen
  <1>8. PanesAgree(v) /\ DetailFits(v) /\ v.screen = ui.screen /\ v.rows = ui.rows
    BY <1>1, <1>3, <1>7, SameListFits
  <1> QED BY <1>5, <1>8, ShowsStep

\* The gate with another word in it, or closed.
LEMMA GateFits ==
    ASSUME CockpitIInv, ui.overlay.kind \in {"approve", "post"},
           NEW o \in Overlays,
           o.kind \in {"approve", "post"} => o.session = ui.active /\ ui.active # NoSession,
           NEW b \in BatchRecords,
           ui.screen \in {"Drafts", "DraftItems"} => b.session \in {NoSession, ui.active}
    PROVE  /\ PanesAgree(WithOpen(ui, o, NoEffect, b))
           /\ DetailFits(WithOpen(ui, o, NoEffect, b))
           /\ WithOpen(ui, o, NoEffect, b).screen = ui.screen
           /\ WithOpen(ui, o, NoEffect, b).rows = ui.rows
           /\ WithOpen(ui, o, NoEffect, b) = [[ui EXCEPT !.overlay = o] EXCEPT !.batch = b]
  <1>1. ui \in Panes /\ PanesAgree(ui) /\ DetailFits(ui) /\ ui.mode = "none"
        /\ ui.effect = NoEffect
    BY KeyFacts, OpenFacts
  <1>2. /\ NoEffect \in CockpitEffects
        /\ NoEffect.kind = "none"
    BY NothingOpen
  <1>3. WithOpen(ui, o, NoEffect, b) = [[ui EXCEPT !.overlay = o] EXCEPT !.batch = b]
    BY <1>1 DEF WithOpen, Panes
  <1> QED BY <1>1, <1>2, <1>3, SameListFits

LEMMA TypeInGateStep == CockpitIInv /\ TypeInGate => CockpitIInv'
  <1> SUFFICES ASSUME CockpitIInv, TypeInGate PROVE CockpitIInv'
    OBVIOUS
  <1>1. ui \in Panes /\ ui.overlay.kind \in {"approve", "post"} /\ ui.active # NoSession
    BY KeyFacts, OpenFacts, CockpitAssumption DEF TypeInGate
  <1>2. \A o : [ui EXCEPT !.overlay = o] =
               [[ui EXCEPT !.overlay = o] EXCEPT !.batch = ui.batch]
    BY <1>1 DEF Panes
  <1>3. ASSUME NEW o \in Overlays,
               o.kind \in {"approve", "post"} => o.session = ui.active /\ ui.active # NoSession,
               Shows([ui EXCEPT !.overlay = o])
        PROVE  CockpitIInv'
    <2>1. PICK b \in BatchRecords : b = ui.batch
      BY OpenFacts
    <2>2. PICK v : v = WithOpen(ui, o, NoEffect, b)
      OBVIOUS
    <2>3. ui.screen \in {"Drafts", "DraftItems"} => b.session \in {NoSession, ui.active}
      BY <2>1, OpenFacts
    <2>4. /\ PanesAgree(v) /\ DetailFits(v) /\ v.screen = ui.screen /\ v.rows = ui.rows
          /\ v = [[ui EXCEPT !.overlay = o] EXCEPT !.batch = b]
      BY <1>1, <1>3, <2>2, <2>3, GateFits
    <2>5. Shows(v)
      BY <1>2, <1>3, <2>1, <2>4
    <2> QED BY <2>4, <2>5, ShowsStep
  <1>4. ASSUME NEW word \in {"", "approve", "post"}, Shows([ui EXCEPT !.overlay.typed = word])
        PROVE  CockpitIInv'
    <2>1. PICK o : o = [ui.overlay EXCEPT !.typed = word]
      OBVIOUS
    <2>2. /\ o \in Overlays
          /\ o.session = ui.active /\ ui.active # NoSession
      BY <1>1, <2>1, OpenFacts DEF Overlays
    <2>3. [ui EXCEPT !.overlay.typed = word] = [ui EXCEPT !.overlay = o]
      BY <1>1, <2>1 DEF Panes
    <2> QED BY <1>3, <1>4, <2>2, <2>3
  <1>5. CASE Shows([ui EXCEPT !.overlay = NoOverlay])
    <2>1. PICK o : o = NoOverlay
      OBVIOUS
    <2>2. /\ o \in Overlays
          /\ o.kind \notin {"approve", "post"}
      BY <2>1, NothingOpen
    <2> QED BY <1>3, <1>5, <2>1, <2>2
  <1> QED BY <1>4, <1>5 DEF TypeInGate

\* A batch moves only as the gate says: it keeps its type.
LEMMA BatchWritten ==
    ASSUME StoreOK, NEW s \in Sessions, NEW state \in BatchStates,
           batch' = [batch EXCEPT ![s] = state], body' \in [Sessions -> Bodies],
           UNCHANGED <<listing, triage>>
    PROVE  StoreOK'
  BY DEF StoreOK

LEMMA ConfirmGateStep == CockpitIInv /\ ConfirmGate => CockpitIInv'
  <1> SUFFICES ASSUME CockpitIInv, ConfirmGate PROVE CockpitIInv'
    OBVIOUS
  <1>1. /\ ui \in Panes /\ ui.overlay.kind \in {"approve", "post"} /\ StoreOK
        /\ ui.active \in Sessions /\ ui.overlay.session = ui.active
        /\ UNCHANGED <<listing, triage, body, review, stale>>
    BY KeyFacts, OpenFacts DEF ConfirmGate
  <1>2. PICK closed : closed = [ui EXCEPT !.overlay = NoOverlay]
    OBVIOUS
  <1>3. ASSUME NEW b \in BatchRecords, ui' = [closed EXCEPT !.batch = b],
               ui.screen \in {"Drafts", "DraftItems"} => b.session \in {NoSession, ui.active}
        PROVE  /\ PanesAgree(ui') /\ DetailFits(ui')
               /\ ui'.screen = ui.screen /\ ui'.rows = ui.rows
    <2>1. PICK o : o = NoOverlay
      OBVIOUS
    <2>2. o \in Overlays /\ o.kind \notin {"approve", "post"}
      BY <2>1, NothingOpen
    <2>3. PICK v : v = WithOpen(ui, o, NoEffect, b)
      OBVIOUS
    <2>4. /\ PanesAgree(v) /\ DetailFits(v) /\ v.screen = ui.screen /\ v.rows = ui.rows
          /\ v = [[ui EXCEPT !.overlay = o] EXCEPT !.batch = b]
      BY <1>1, <1>3, <2>2, <2>3, GateFits
    <2> QED BY <1>2, <1>3, <2>1, <2>4
  <1>7. ASSUME ui' = closed
        PROVE  /\ PanesAgree(ui') /\ DetailFits(ui')
               /\ ui'.screen = ui.screen /\ ui'.rows = ui.rows
    <2>1. PICK b \in BatchRecords : b = ui.batch
      BY OpenFacts
    <2>2. ui' = [closed EXCEPT !.batch = b]
      BY <1>1, <1>2, <1>7, <2>1 DEF Panes
    <2>3. ui.screen \in {"Drafts", "DraftItems"} => b.session \in {NoSession, ui.active}
      BY <2>1, OpenFacts
    <2> QED BY <1>3, <2>2, <2>3
  <1>4. PICK to : to = IF ui.overlay.kind = "approve" THEN "approved" ELSE "posted"
    OBVIOUS
  <1>5. CASE /\ batch[ui.active] # "absent" /\ ui.active \in Sessions
             /\ batch' = [batch EXCEPT ![ui.active] = to]
             /\ Writes({Deed(ui.overlay.kind, ui.active)})
             /\ ui' \in {closed, [closed EXCEPT !.batch = [session |-> ui.active, state |-> to]]}
    <2>1. to \in BatchStates
      BY <1>4 DEF BatchStates
    <2>2. StoreOK'
      <3>1. body' \in [Sessions -> Bodies]
        BY <1>1 DEF StoreOK
      <3> QED BY <1>1, <1>5, <2>1, <3>1, BatchWritten
    <2>3. PICK b : b = [session |-> ui.active, state |-> to]
      OBVIOUS
    <2>4. b \in BatchRecords /\ b.session = ui.active
      BY <1>1, <2>1, <2>3 DEF BatchRecords, AnySession
    <2>5. /\ PanesAgree(ui') /\ DetailFits(ui')
          /\ ui'.screen = ui.screen /\ ui'.rows = ui.rows
      <3>1. CASE ui' = [closed EXCEPT !.batch = b]
        BY <1>3, <2>4, <3>1
      <3>2. CASE ui' = closed
        BY <1>7, <3>2
      <3> QED BY <1>5, <2>3, <3>1, <3>2
    <2>6. WritesAreForActive'
      BY <1>5, DeedsFit DEF Writes
    <2> QED BY <1>1, <2>2, <2>5, <2>6, KeyWrites
  <1>6. CASE /\ Writes({}) /\ UNCHANGED batch
             /\ ui' \in {closed, [closed EXCEPT !.batch = ListedBatch(ui.active)]}
    <2>1. StoreOK' /\ WritesAreForActive'
      BY <1>1, <1>6, DeedsFit DEF StoreOK, Writes
    <2>2. CASE ui' = closed
      BY <1>1, <1>7, <2>1, <2>2, KeyWrites
    <2>3. CASE ui' = [closed EXCEPT !.batch = ListedBatch(ui.active)]
      <3>1. PICK b : b = ListedBatch(ui.active)
        OBVIOUS
      <3>2. b \in BatchRecords /\ b.session \in {NoSession, ui.active}
        BY <1>1, <3>1, ListedBatchFits
      <3>3. /\ PanesAgree(ui') /\ DetailFits(ui')
            /\ ui'.screen = ui.screen /\ ui'.rows = ui.rows
        BY <1>3, <2>3, <3>1, <3>2
      <3> QED BY <1>1, <2>1, <3>3, KeyWrites
    <2> QED BY <1>6, <2>2, <2>3
  <1> QED BY <1>1, <1>2, <1>4, <1>5, <1>6 DEF ConfirmGate

LEMMA OpenItemsStep == CockpitIInv /\ OpenItems => CockpitIInv'
  <1> SUFFICES ASSUME CockpitIInv, OpenItems PROVE CockpitIInv'
    OBVIOUS
  <1>1. /\ ui \in Panes /\ PanesAgree(ui) /\ StoreOK /\ ui.screen = "Drafts"
        /\ ui.active \in Sessions /\ ui.batch.session = ui.active
        /\ ui.overlay = NoOverlay /\ ui.effect = NoEffect /\ ui.mode = "none"
    BY KeyFacts, OpenFacts DEF OpenItems, On
  <1>2. PICK items : items = [session |-> ui.active, body |-> body[ui.active]]
    OBVIOUS
  <1>3. items \in DraftItems /\ items.session = ui.active
    BY <1>1, <1>2 DEF DraftItems, AnySession, StoreOK
  <1>4. PICK v : v = [ui EXCEPT !.items = items, !.open = ui.active, !.screen = "DraftItems"]
    OBVIOUS
  <1>5. Shows(v)
    BY <1>1, <1>2, <1>4 DEF OpenItems
  <1>6. v \in Panes /\ v.screen = "DraftItems"
    BY <1>1, <1>3, <1>4 DEF Panes, Screens
  <1>7. OneInput(v) /\ ShowsActive(v)
    BY <1>1, <1>3, <1>4, NothingOpen DEF PanesAgree, Panes, OneInput, ShowsActive
  <1> QED BY <1>5, <1>6, <1>7, OffTheQueue DEF PanesAgree

LEMMA LeaveItemsStep == CockpitIInv /\ LeaveItems => CockpitIInv'
  <1> SUFFICES ASSUME CockpitIInv, LeaveItems PROVE CockpitIInv'
    OBVIOUS
  <1>1. /\ ui \in Panes /\ PanesAgree(ui) /\ ui.screen = "DraftItems"
        /\ ui.overlay = NoOverlay /\ ui.effect = NoEffect
    BY KeyFacts DEF LeaveItems, On
  <1>2. PICK v : v = [ui EXCEPT !.screen = "Drafts", !.open = NoSession, !.items = NoItems]
    OBVIOUS
  <1>3. v \in Panes /\ v.screen = "Drafts"
    BY <1>1, <1>2, NothingOpen DEF Panes, Screens
  <1>4. OneInput(v) /\ ShowsActive(v)
    BY <1>1, <1>2, NothingOpen DEF PanesAgree, Panes, OneInput, ShowsActive
  <1>5. Shows(v)
    BY <1>2 DEF LeaveItems
  <1> QED BY <1>3, <1>4, <1>5, OffTheQueue DEF PanesAgree

LEMMA RequestEditStep == CockpitIInv /\ RequestEdit => CockpitIInv'
  <1> SUFFICES ASSUME CockpitIInv, RequestEdit PROVE CockpitIInv'
    OBVIOUS
  <1>1. /\ ui \in Panes /\ PanesAgree(ui) /\ DetailFits(ui) /\ ShowsActive(ui)
        /\ ui.screen = "DraftItems" /\ ui.overlay = NoOverlay /\ ui.mode = "none"
    BY KeyFacts DEF RequestEdit, On
  <1>2. ui.items \in DraftItems /\ ui.items.session = ui.active
    BY <1>1 DEF Panes, ShowsActive
  <1>3. PICK e : e = [kind |-> "edit", session |-> ui.items.session, body |-> ui.items.body]
    OBVIOUS
  <1>4. e \in CockpitEffects /\ e.session = ui.active
    BY <1>2, <1>3 DEF CockpitEffects, DraftItems
  <1>5. PICK o \in Overlays, b \in BatchRecords : o = ui.overlay /\ b = ui.batch
    BY OpenFacts
  <1>6. PICK v : v = WithOpen(ui, o, e, b)
    OBVIOUS
  <1>7. Shows(v)
    BY <1>1, <1>3, <1>5, <1>6 DEF RequestEdit, WithOpen, Panes
  <1>8. /\ o = NoOverlay /\ o.kind \notin {"approve", "post"}
        /\ ui.screen \in {"Drafts", "DraftItems"} => b.session \in {NoSession, ui.active}
    BY <1>1, <1>5, OpenFacts, NothingOpen
  <1>9. PanesAgree(v) /\ DetailFits(v) /\ v.screen = ui.screen /\ v.rows = ui.rows
    BY <1>1, <1>4, <1>6, <1>8, SameListFits
  <1> QED BY <1>7, <1>9, ShowsStep

\* The terminal is the cockpit's again.
LEMMA EditorClosed ==
    ASSUME CockpitIInv, ui.effect.kind = "edit", NEW back, back = [ui EXCEPT !.effect = NoEffect]
    PROVE  /\ PanesAgree(back) /\ DetailFits(back) /\ back \in Panes
           /\ back.screen = ui.screen /\ back.rows = ui.rows /\ back.active = ui.active
  <1>1. ui \in Panes /\ PanesAgree(ui) /\ DetailFits(ui) /\ ui.mode = "none"
    BY KeyFacts, OpenFacts
  <1>2. PICK o \in Overlays, b \in BatchRecords : o = ui.overlay /\ b = ui.batch
    BY OpenFacts
  <1>3. PICK e \in CockpitEffects : e = NoEffect
    BY NothingOpen
  <1>4. /\ o = NoOverlay /\ o.kind \notin {"approve", "post"} /\ e.kind # "edit"
        /\ ui.screen \in {"Drafts", "DraftItems"} => b.session \in {NoSession, ui.active}
    BY <1>2, <1>3, OpenFacts, NothingOpen
  <1>5. back = WithOpen(ui, o, e, b)
    BY <1>1, <1>2, <1>3 DEF WithOpen, Panes
  <1>6. PanesAgree(back) /\ DetailFits(back) /\ back.screen = ui.screen /\ back.rows = ui.rows
    BY <1>1, <1>4, <1>5, SameListFits
  <1>7. back.active = ui.active
    BY <1>1 DEF Panes
  <1> QED BY <1>6, <1>7 DEF PanesAgree

\* The loaded text changes, and nothing that is shown with it.
LEMMA TextShown ==
    ASSUME NEW u, PanesAgree(u), DetailFits(u), NEW text \in Bodies
    PROVE  /\ PanesAgree([u EXCEPT !.items.body = text])
           /\ DetailFits([u EXCEPT !.items.body = text])
           /\ [u EXCEPT !.items.body = text].screen = u.screen
           /\ [u EXCEPT !.items.body = text].rows = u.rows
  <1>1. u \in Panes
    BY DEF PanesAgree
  <1>2. PICK items : items = [u.items EXCEPT !.body = text]
    OBVIOUS
  <1>3. items \in DraftItems /\ items.session = u.items.session
    BY <1>1, <1>2 DEF Panes, DraftItems
  <1>4. PICK v : v = [u EXCEPT !.items = items]
    OBVIOUS
  <1>5. v = [u EXCEPT !.items.body = text]
    BY <1>1, <1>2, <1>4
  <1>6. /\ v \in Panes
        /\ v.screen = u.screen /\ v.active = u.active /\ v.rows = u.rows
        /\ v.cursor = u.cursor /\ v.needle = u.needle /\ v.sort = u.sort
        /\ v.detail = u.detail /\ v.items = items /\ v.reviews = u.reviews
        /\ v.selected = u.selected /\ v.mode = u.mode /\ v.composer = u.composer
        /\ v.overlay = u.overlay /\ v.effect = u.effect /\ v.batch = u.batch
    BY <1>1, <1>3, <1>4 DEF Panes
  <1>7. CurrentFinding(v) = CurrentFinding(u)
    BY <1>6 DEF CurrentFinding
  <1>8. PanesAgree(v) /\ DetailFits(v)
    BY <1>3, <1>6, <1>7 DEF PanesAgree, OneInput, ShowsActive, DetailFits
  <1> QED BY <1>5, <1>6, <1>8

LEMMA EditorReturnsStep == CockpitIInv /\ EditorReturns => CockpitIInv'
  <1> SUFFICES ASSUME CockpitIInv, EditorReturns PROVE CockpitIInv'
    OBVIOUS
  <1>1. /\ StoreOK /\ ui.effect.kind = "edit" /\ ui.effect.session = ui.active
        /\ UNCHANGED <<listing, triage, review, stale>>
    BY KeyFacts, OpenFacts DEF EditorReturns
  <1>2. PICK back : back = [ui EXCEPT !.effect = NoEffect]
    OBVIOUS
  <1>3. /\ PanesAgree(back) /\ DetailFits(back)
        /\ back.screen = ui.screen /\ back.rows = ui.rows /\ back.active = ui.active
    BY <1>1, <1>2, EditorClosed
  <1>4. CASE ui' = back /\ Writes({}) /\ UNCHANGED <<batch, body>>
    <2>1. StoreOK' /\ WritesAreForActive'
      BY <1>1, <1>4, DeedsFit DEF StoreOK, Writes
    <2> QED BY <1>1, <1>3, <1>4, <2>1, KeyWrites
  <1>5. ASSUME NEW text \in Bodies,
               body' = [body EXCEPT ![ui.active] = text],
               batch' = [batch EXCEPT ![ui.active] = "awaiting_approval"],
               Writes({Deed("revise", ui.active)}),
               ui' \in {back, [back EXCEPT !.items.body = text]}
        PROVE  CockpitIInv'
    <2>1. StoreOK' /\ WritesAreForActive'
      BY <1>1, <1>5, DeedsFit DEF StoreOK, Writes, BatchStates
    <2>2. /\ PanesAgree(ui') /\ DetailFits(ui')
          /\ ui'.screen = ui.screen /\ ui'.rows = ui.rows
      BY <1>3, <1>5, TextShown, ZenonT(60)
    <2> QED BY <1>1, <2>1, <2>2, KeyWrites
  <1> QED BY <1>1, <1>2, <1>4, <1>5 DEF EditorReturns

-----------------------------------------------------------------------------
(* Search and the memory lane, and everybody else                          *)

LEMMA SearchKeysStep == CockpitIInv /\ SearchKeys => CockpitIInv'
  <1> SUFFICES ASSUME CockpitIInv, SearchKeys PROVE CockpitIInv'
    OBVIOUS
  <1>1. /\ ui \in Panes /\ PanesAgree(ui) /\ ShowsActive(ui) /\ ui.active \in AnySession
        /\ ui.overlay = NoOverlay /\ ui.effect = NoEffect
    BY KeyFacts DEF SearchKeys, On, Typing
  <1>2. ASSUME NEW mode \in {"none", "search"}, Shows([ui EXCEPT !.mode = mode])
        PROVE  CockpitIInv'
    BY <1>1, <1>2, ModeStep
  <1>3. ASSUME NEW loads \in BOOLEAN, Shows(HomeForActive([ui EXCEPT !.mode = "none"], loads))
        PROVE  CockpitIInv'
    <2>1. PICK w : w = [ui EXCEPT !.mode = "none"]
      OBVIOUS
    <2>2. PanesAgree(w) /\ DetailFits(w) /\ w.screen = ui.screen /\ w.rows = ui.rows
      BY <1>1, <2>1, ModeStep
    <2> QED BY <1>3, <2>1, <2>2, HomeAgrees, ShowsStep
  <1>4. CASE On("Search") /\ Shows([ui EXCEPT !.reviews = PendingReviews(ui.active)])
    <2>1. PICK listed : listed = PendingReviews(ui.active)
      OBVIOUS
    <2>2. listed \subseteq {ui.active} /\ listed \subseteq AnySession
      BY <1>1, <2>1 DEF PendingReviews
    <2>3. PICK v : v = [ui EXCEPT !.reviews = listed]
      OBVIOUS
    <2>4. ui.screen = "Search"
      BY <1>4 DEF On
    <2>5. v \in Panes /\ v.screen = "Search"
      BY <1>1, <2>2, <2>3, <2>4 DEF Panes
    <2>6. OneInput(v) /\ ShowsActive(v)
      BY <1>1, <2>2, <2>3, <2>4 DEF PanesAgree, Panes, OneInput, ShowsActive
    <2>7. Shows(v)
      BY <1>4, <2>1, <2>3
    <2> QED BY <2>5, <2>6, <2>7, OffTheQueue DEF PanesAgree
  <1> QED BY <1>2, <1>3, <1>4 DEF SearchKeys

LEMMA ResolveReviewStep == CockpitIInv /\ ResolveReview => CockpitIInv'
  <1> SUFFICES ASSUME CockpitIInv, ResolveReview PROVE CockpitIInv'
    OBVIOUS
  <1>1. /\ ui \in Panes /\ PanesAgree(ui) /\ StoreOK /\ ShowsActive(ui)
        /\ ui.screen = "Search" /\ ui.reviews \subseteq {ui.active}
        /\ ui.overlay = NoOverlay /\ ui.effect = NoEffect
        /\ UNCHANGED <<listing, triage, batch, body, stale>>
    BY KeyFacts DEF ResolveReview, On, ShowsActive
  <1>2. PICK s \in ui.reviews :
          \/ /\ Writes({Deed("review", s)})
             /\ ui' \in {ui, [ui EXCEPT !.reviews = {}]}
          \/ Writes({}) /\ UNCHANGED ui
    BY DEF ResolveReview
  <1>3. StoreOK' /\ WritesAreForActive'
    BY <1>1, <1>2, DeedsFit DEF StoreOK, Writes
  <1>4. PICK v : v = [ui EXCEPT !.reviews = {}]
    OBVIOUS
  <1>5. v \in Panes /\ v.screen = "Search"
    BY <1>1, <1>4 DEF Panes
  <1>6. OneInput(v) /\ ShowsActive(v)
    BY <1>1, <1>4 DEF PanesAgree, Panes, OneInput, ShowsActive
  <1>7. PanesAgree(ui') /\ ui'.screen = "Search"
    BY <1>1, <1>2, <1>4, <1>5, <1>6 DEF PanesAgree
  <1> QED BY <1>1, <1>3, <1>7, KeyWrites DEF DetailFits

LEMMA OtherProcessesStep == CockpitIInv /\ OtherProcesses => CockpitIInv'
  <1> SUFFICES ASSUME CockpitIInv, OtherProcesses PROVE CockpitIInv'
    OBVIOUS
  <1>1. StoreOK /\ PanesAgree(ui) /\ DetailFits(ui)
    BY KeyFacts
  <1>2. ui' = ui /\ deeds' = {} /\ stale' = TRUE
    BY DEF OtherProcesses
  <1>3. StoreOK'
    <2>1. CASE \E s \in Sessions, run \in SUBSET Findings :
                  /\ \A f \in run : OwnerOf[f] = s
                  /\ listing' = [listing EXCEPT ![s] = run]
                  /\ UNCHANGED <<triage, batch, body, review>>
      BY <1>1, <2>1 DEF StoreOK, OwnedBy
    <2>2. CASE \E f \in Findings, state \in TriageActions :
                  /\ triage' = [triage EXCEPT ![f] = state]
                  /\ UNCHANGED <<listing, batch, body, review>>
      BY <1>1, <2>2 DEF StoreOK, TriageStates
    <2>3. ASSUME NEW s \in Sessions, batch[s] # "posted",
                 batch' = [batch EXCEPT ![s] = CASE @ = "absent" -> "awaiting_approval"
                                                 [] @ = "awaiting_approval" -> "approved"
                                                 [] @ = "approved" -> "posted"],
                 UNCHANGED <<listing, triage, body, review>>
          PROVE  StoreOK'
      <3>1. batch[s] \in {"absent", "awaiting_approval", "approved"}
        BY <1>1, <2>3 DEF StoreOK, BatchStates
      <3>2. PICK state \in BatchStates : batch' = [batch EXCEPT ![s] = state]
        BY <2>3, <3>1 DEF BatchStates
      <3> QED BY <1>1, <2>3, <3>2 DEF StoreOK
    <2>4. CASE \E s \in Sessions, new \in Bodies :
                  /\ batch[s] \notin {"absent", "posted"}
                  /\ body' = [body EXCEPT ![s] = new]
                  /\ batch' = [batch EXCEPT ![s] = "awaiting_approval"]
                  /\ UNCHANGED <<listing, triage, review>>
      BY <1>1, <2>4 DEF StoreOK, BatchStates
    <2>5. CASE UNCHANGED <<listing, triage, batch, body>>
      BY <1>1, <2>5 DEF StoreOK
    <2> QED BY <2>1, <2>2, <2>3, <2>4, <2>5 DEF OtherProcesses
  <1>4. QueueIsTruthful' /\ WritesAreForActive'
    BY <1>2 DEF QueueIsTruthful, WritesAreForActive
  <1> QED BY <1>1, <1>2, <1>3, <1>4 DEF CockpitIInv

-----------------------------------------------------------------------------
(* The theorems                                                            *)

LEMMA CockpitInitEstablishes == CockpitInit => CockpitIInv
  <1> SUFFICES ASSUME CockpitInit PROVE CockpitIInv
    OBVIOUS
  <1>1. PanesAgree(ui) /\ ui.screen # "Findings"
    BY BootstrapAgrees DEF CockpitInit
  <1>2. StoreOK
    BY CockpitAssumption
       DEF CockpitInit, StoreOK, OwnedBy, TriageStates, TriageActions, BatchStates, Bodies
  <1>3. WritesAreForActive
    BY DEF CockpitInit, WritesAreForActive
  <1> QED BY <1>1, <1>2, <1>3 DEF CockpitIInv, DetailFits, QueueIsTruthful

LEMMA CockpitStepPreserves ==
    CockpitIInv /\ [CockpitNext]_cockpitVars => CockpitIInv'
  <1> SUFFICES ASSUME CockpitIInv, [CockpitNext]_cockpitVars PROVE CockpitIInv'
    OBVIOUS
  <1>1. CASE UNCHANGED cockpitVars
    BY <1>1 DEF cockpitVars, savedVars, CockpitIInv, StoreOK, QueueIsTruthful,
                WritesAreForActive
  <1>2. CASE Quit \/ OpenSession \/ SessionKeys \/ Launch \/ LaunchReturns \/ Back
    BY <1>2, QuitStep, OpenSessionStep, SessionKeysStep, LaunchStep, LaunchReturnsStep,
       BackStep
  <1>3. CASE Move \/ ToggleSelection \/ Resort \/ Filter \/ Triage \/ CreateDraft
             \/ OpenComposer \/ SubmitClarification
    BY <1>3, MoveStep, ToggleSelectionStep, ResortStep, FilterStep, TriageStep,
       CreateDraftStep, OpenComposerStep, SubmitClarificationStep
  <1>4. CASE OpenGate("approve", "awaiting_approval") \/ OpenGate("post", "approved")
             \/ TypeInGate \/ ConfirmGate \/ OpenItems \/ LeaveItems \/ RequestEdit
             \/ EditorReturns
    BY <1>4, OpenGateStep, TypeInGateStep, ConfirmGateStep, OpenItemsStep, LeaveItemsStep,
       RequestEditStep, EditorReturnsStep
  <1>5. CASE SearchKeys \/ ResolveReview \/ OtherProcesses
    BY <1>5, SearchKeysStep, ResolveReviewStep, OtherProcessesStep
  <1> QED BY <1>1, <1>2, <1>3, <1>4, <1>5 DEF CockpitNext

\* The inductive invariant of the cockpit: every pane is about the session
\* that is open, whatever the keys, the failed loads and the other processes.
THEOREM CockpitIInvHolds == CockpitSpec => []CockpitIInv
  BY CockpitInitEstablishes, CockpitStepPreserves, PTL DEF CockpitSpec

\* A text input and an overlay are never open at once, the inspector is on the
\* focused finding, the selection is listed, the queue shows what the store has.
THEOREM CockpitPanesAgree == CockpitSpec => []CockpitInv
  <1>1. CockpitIInv => CockpitInv
    <2> SUFFICES ASSUME CockpitIInv PROVE CockpitInv
      OBVIOUS
    <2>1. /\ StoreOK /\ ui \in Panes /\ OneInput(ui) /\ ShowsActive(ui) /\ DetailFits(ui)
          /\ QueueIsTruthful
      BY KeyFacts DEF CockpitIInv
    <2>2. ui.screen \in Screens /\ ui.active \in AnySession
      BY <2>1 DEF Panes
    <2>3. CockpitTypeOK
      BY <2>1, <2>2 DEF CockpitTypeOK, StoreOK, OneInput, Screens, AnySession
    <2>4. DetailIsFocused /\ SelectionIsListed
      BY <2>1 DEF DetailIsFocused, SelectionIsListed, DetailFits, ShowsActive
    <2> QED BY <2>1, <2>3, <2>4 DEF CockpitInv
  <1> QED BY <1>1, CockpitIInvHolds, PTL

\* No key writes about another session than the one that is open.
THEOREM KeysWriteForTheOpenSession == CockpitSpec => []WritesAreForActive
  <1>1. CockpitIInv => WritesAreForActive
    BY DEF CockpitIInv
  <1> QED BY <1>1, CockpitIInvHolds, PTL

-------------------------------------------------------------------------------
(* HostInstall: for any releases, browsers and commands, of which one at most *)
(* updates: there is a binary, and what is installed agrees with it.         *)

-----------------------------------------------------------------------------
(* The inductive invariant                                                 *)

Ids == OtherIds \cup {KeyId, NoId}
Images == Paths \cup {Gone}
BeforeBackup == {"update", "metadata", "core_manifest", "checksums", "preflight",
                 "prompt", "stage", "backup", "blocked"}
Packaging == {"fetch", "fetch_archive", "clear_package", "move_package", "script"}
UpdatePcs == BeforeBackup \cup Packaging \cup
             {"replace", "rollback", "stranded", "remove", "rehost", "manifest",
              "updated", "done"}
OtherPcs == Packaging \cup {"idle", "done", "open", "setup", "identify", "setup_dev",
                            "packing", "bridge", "manifest", "doctor", "uninstall"}
HostOutcomes == {"none", "blocked", "stranded", "empty", "complete", "error", "killed"}
Commands == [pc : UpdatePcs \cup OtherPcs,
             cmd : {"none", "open", "fetch", "setup", "setup_dev", "doctor", "uninstall",
                    "bridge", "update"},
             image : Images, release : Releases \cup {0}, goal : Releases \cup {0},
             id : Ids, exe : Images, at : Nat, outcome : HostOutcomes]

\* The store that was there is not too old for release v.
OpensStore(v) == found > 0 => Envelope[v].schema - schema <= 2

\* Where the binary of an update is, at each of its steps.
UpdateFits(c) ==
    /\ c.pc \in BeforeBackup => files[Install] = c.release
    /\ c.pc \in {"prompt", "stage", "backup", "replace"} => OpensStore(c.goal)
    /\ c.pc \in {"replace", "rollback", "stranded"} => files[c.goal] = c.release
    /\ c.pc = "remove" => files[Install] = c.goal
    /\ c.pc = "done" /\ c.outcome = "blocked" => files[Install] = c.release
    /\ c.pc = "done" /\ c.outcome = "stranded" => files[c.goal] = c.release

CommandFits(p, c) ==
    /\ c.pc \notin {"idle", "done"} => c.release \in Releases
    /\ c.pc = "manifest" /\ c.at \in DOMAIN Browsers => launcher[c.at] # NoScript
    /\ c.cmd # "update" => c.pc \in OtherPcs
    /\ c.cmd = "update" => /\ p \in Updaters /\ c.pc \in UpdatePcs
                           /\ c.goal \in Releases /\ c.release \in Releases
                           /\ UpdateFits(c)

HostIInv ==
    /\ HostTypeOK /\ idFile \in Ids
    /\ found \in Nat /\ schema \in Nat /\ found <= schema
    /\ proc \in [Processes -> Commands]
    /\ \A path \in Paths : files[path] # NoFile => OpensStore(files[path])
    /\ ManifestHasScript
    /\ BinaryKept
    /\ \A p \in Processes : CommandFits(p, proc[p])

-----------------------------------------------------------------------------
(* What the steps have in common                                           *)

LEMMA PathFacts ==
    /\ Releases \subseteq Nat /\ 0 \notin Releases /\ 1 \in Releases
    /\ Paths = Releases \cup {0} /\ Install \in Paths /\ Install \notin Releases
    /\ Releases \subseteq Paths
    /\ Gone \notin Paths /\ NoScript \notin Images /\ NoFile \notin Releases
    /\ Install \in Images /\ NoId \in Ids /\ KeyId \in Ids
    /\ DOMAIN Browsers \subseteq Nat /\ 1 \in Nat
  BY HostConstants DEF Releases, Paths, Install, Gone, NoScript, NoFile, Images, Ids

LEMMA DeltaFacts ==
    ASSUME NEW from \in Nat, NEW to \in Nat
    PROVE  /\ Delta(from, to) # "class_d" <=> to - from <= 2
           /\ Delta(from, to) \in {"class_a", "class_b", "class_d"}
  BY DEF Delta

\* One process moves, no file of a binary does.
LEMMA OneCommandMoves ==
    ASSUME HostIInv, NEW p \in Processes, NEW c \in Commands,
           proc' = [proc EXCEPT ![p] = c], UNCHANGED <<files, found, schema>>,
           pkg' \in [Packages -> PackageStates],
           idFile' \in Ids, manifest' \in [DOMAIN Browsers -> Ids],
           launcher' \in [DOMAIN Browsers -> Images \cup {NoScript}],
           \A b \in DOMAIN Browsers : launcher[b] # NoScript => launcher'[b] # NoScript,
           ManifestHasScript', CommandFits(p, c)'
    PROVE  HostIInv'
  <1>1. HostTypeOK'
    BY DEF HostIInv, HostTypeOK, Ids, Images
  <1>2. \A q \in Processes : CommandFits(q, proc[q])'
    <2> SUFFICES ASSUME NEW q \in Processes PROVE CommandFits(q, proc[q])'
      OBVIOUS
    <2>1. CASE q = p
      <3>1. proc'[q] = c
        BY <2>1 DEF HostIInv
      <3> QED BY <2>1, <3>1 DEF CommandFits, UpdateFits, OpensStore
    <2>2. CASE q # p
      <3>1. proc'[q] = proc[q] /\ CommandFits(q, proc[q])
        BY <2>2 DEF HostIInv
      <3> QED BY <3>1 DEF CommandFits, UpdateFits, OpensStore
    <2> QED BY <2>1, <2>2
  <1>3. \A path \in Paths : files'[path] # NoFile => OpensStore(files[path])'
    BY DEF HostIInv, OpensStore
  <1>4. BinaryKept'
    BY DEF HostIInv, BinaryKept
  <1>5. proc' \in [Processes -> Commands] /\ found' \in Nat /\ schema' \in Nat
        /\ found' <= schema'
    BY DEF HostIInv
  <1> QED BY <1>1, <1>2, <1>3, <1>4, <1>5 DEF HostIInv

\* The launchers and the manifests stay too.
LEMMA QuietCommand ==
    ASSUME HostIInv, NEW p \in Processes, NEW c \in Commands,
           proc' = [proc EXCEPT ![p] = c],
           UNCHANGED <<files, found, schema, manifest, launcher>>,
           pkg' \in [Packages -> PackageStates],
           idFile' \in Ids, CommandFits(p, c)
    PROVE  HostIInv'
  <1>1. CommandFits(p, c)'
    BY DEF CommandFits, UpdateFits, OpensStore
  <1>2. /\ manifest' \in [DOMAIN Browsers -> Ids]
        /\ launcher' \in [DOMAIN Browsers -> Images \cup {NoScript}]
    BY DEF HostIInv, HostTypeOK, Ids, Images
  <1>3. ManifestHasScript'
    BY DEF HostIInv, ManifestHasScript
  <1> QED BY <1>1, <1>2, <1>3, OneCommandMoves

LEMMA CommandFacts ==
    ASSUME HostIInv, NEW p \in Processes
    PROVE  /\ proc[p] \in Commands /\ CommandFits(p, proc[p])
           /\ pkg \in [Packages -> PackageStates]
           /\ idFile \in Ids
  BY DEF HostIInv, HostTypeOK

\* An ended command.
LEMMA DoneFits ==
    ASSUME HostIInv, NEW p \in Processes, NEW outcome \in HostOutcomes, Done(p, outcome),
           outcome = "blocked" => proc[p].cmd # "update" \/ proc[p].pc \in BeforeBackup,
           outcome = "stranded" => proc[p].cmd # "update" \/ proc[p].pc = "stranded"
    PROVE  \E c \in Commands : proc' = [proc EXCEPT ![p] = c] /\ CommandFits(p, c)
  <1>1. proc[p] \in Commands /\ CommandFits(p, proc[p])
    BY CommandFacts
  <1>2. NoCommand \in Commands
    BY PathFacts DEF NoCommand, Commands, OtherPcs, HostOutcomes
  <1>3. CASE proc[p].cmd = "update"
    <2>1. PICK c : c = [NoCommand EXCEPT !.pc = "done", !.cmd = "update",
                          !.outcome = outcome, !.release = proc[p].release,
                          !.goal = proc[p].goal]
      OBVIOUS
    <2>2. c \in Commands
      BY <1>1, <1>2, <2>1 DEF Commands, UpdatePcs
    <2>3. c.pc = "done" /\ c.cmd = "update" /\ c.outcome = outcome
          /\ c.release = proc[p].release /\ c.goal = proc[p].goal
      BY <1>2, <2>1 DEF Commands
    <2>4. CommandFits(p, c)
      BY <1>1, <1>3, <2>3 DEF CommandFits, UpdateFits, BeforeBackup, UpdatePcs
    <2>5. proc' = [proc EXCEPT ![p] = c]
      BY <1>3, <2>1 DEF Done
    <2> QED BY <2>2, <2>4, <2>5
  <1>4. CASE proc[p].cmd # "update"
    <2>1. PICK c : c = [NoCommand EXCEPT !.pc = "done", !.outcome = outcome]
      OBVIOUS
    <2>2. c \in Commands
      BY <1>2, <2>1 DEF Commands, OtherPcs
    <2>3. c.pc = "done" /\ c.cmd = "none"
      BY <2>1 DEF NoCommand
    <2>4. CommandFits(p, c)
      BY <2>3 DEF CommandFits, OtherPcs
    <2>5. proc' = [proc EXCEPT ![p] = c]
      BY <1>4, <2>1 DEF Done
    <2> QED BY <2>2, <2>4, <2>5
  <1> QED BY <1>3, <1>4

\* A command that goes on.
LEMMA ToFits ==
    ASSUME HostIInv, NEW p \in Processes, NEW pc \in UpdatePcs \cup OtherPcs, To(p, pc),
           proc[p].pc \notin {"idle", "done"}, pc \notin {"manifest", "done"},
           proc[p].cmd # "update" => pc \in OtherPcs,
           proc[p].cmd = "update" => /\ pc \in UpdatePcs
                                     /\ UpdateFits([proc[p] EXCEPT !.pc = pc])
    PROVE  \E c \in Commands : proc' = [proc EXCEPT ![p] = c] /\ CommandFits(p, c)
  <1>1. proc[p] \in Commands /\ CommandFits(p, proc[p])
    BY CommandFacts
  <1>2. PICK c : c = [proc[p] EXCEPT !.pc = pc]
    OBVIOUS
  <1>3. c \in Commands
    BY <1>1, <1>2 DEF Commands
  <1>4. c.pc = pc /\ c.cmd = proc[p].cmd /\ c.release = proc[p].release
        /\ c.goal = proc[p].goal
    BY <1>1, <1>2 DEF Commands
  <1>5. UpdateFits(c) \/ proc[p].cmd # "update"
    BY <1>2
  <1>6. CommandFits(p, c)
    BY <1>1, <1>4, <1>5 DEF CommandFits
  <1>7. proc' = [proc EXCEPT ![p] = c]
    BY <1>2 DEF To
  <1> QED BY <1>3, <1>6, <1>7

\* Most steps of an update say nothing new about the binary.
LEMMA ToLater ==
    ASSUME HostIInv, NEW p \in Processes,
           NEW pc \in Packaging \cup {"rehost", "updated", "setup", "identify", "packing",
                                      "doctor", "uninstall"},
           To(p, pc), proc[p].pc \notin {"idle", "done"},
           proc[p].cmd # "update" => pc \in OtherPcs,
           proc[p].cmd = "update" => pc \in UpdatePcs
    PROVE  \E c \in Commands : proc' = [proc EXCEPT ![p] = c] /\ CommandFits(p, c)
  <1>1. proc[p] \in Commands
    BY CommandFacts
  <1>2. PICK c : c = [proc[p] EXCEPT !.pc = pc]
    OBVIOUS
  <1>3. c.pc = pc
    BY <1>1, <1>2 DEF Commands
  <1>4. UpdateFits(c)
    BY <1>3 DEF UpdateFits, BeforeBackup, Packaging
  <1>5. pc \in UpdatePcs \cup OtherPcs /\ pc \notin {"manifest", "done"}
    BY DEF UpdatePcs, OtherPcs, Packaging
  <1> QED BY <1>2, <1>4, <1>5, ToFits

-----------------------------------------------------------------------------
(* rr update                                                               *)

\* Before the backup, the binary at the install path is the one that updates.
LEMMA EarlyPcs ==
    ASSUME HostIInv, NEW p \in Processes,
           proc[p].pc \in BeforeBackup \cup {"replace", "rollback", "stranded", "remove",
                                             "rehost", "updated"}
    PROVE  /\ proc[p].cmd = "update" /\ proc[p].pc \notin {"idle", "done"}
           /\ p \in Updaters /\ UpdateFits(proc[p])
           /\ proc[p].goal \in Releases /\ proc[p].release \in Releases
  BY CommandFacts DEF CommandFits, BeforeBackup, OtherPcs, Packaging

LEMMA BlockStep ==
    ASSUME HostIInv, NEW p \in Processes, NEW here \in BeforeBackup, Block(p, here)
    PROVE  HostIInv'
  <1>1. proc[p].pc \in BeforeBackup /\ Done(p, "blocked") /\ "blocked" \in HostOutcomes
    BY DEF Block, HostOutcomes
  <1>2. PICK c \in Commands : proc' = [proc EXCEPT ![p] = c] /\ CommandFits(p, c)
    BY <1>1, DoneFits
  <1> QED BY <1>2, CommandFacts, QuietCommand DEF Block

LEMMA CheckStep ==
    ASSUME HostIInv, NEW p \in Processes, NEW here \in BeforeBackup,
           NEW next \in BeforeBackup \ {"prompt"}, Check(p, here, next),
           next \in {"stage", "backup"} => here \in {"prompt", "stage"}
    PROVE  HostIInv'
  <1>1. proc[p].pc = here
    BY DEF Check
  <1>2. CASE Done(p, "blocked")
    BY <1>1, <1>2, BlockStep DEF Check, Block
  <1>3. CASE To(p, next)
    <2>1. PICK c : c = [proc[p] EXCEPT !.pc = next]
      OBVIOUS
    <2>2. c.pc = next /\ c.release = proc[p].release /\ c.goal = proc[p].goal
      BY <2>1, CommandFacts DEF Commands
    <2>3. UpdateFits(c)
      BY <1>1, <2>2, EarlyPcs DEF UpdateFits, BeforeBackup
    <2>4. next \in UpdatePcs \cup OtherPcs /\ next \in UpdatePcs
          /\ next \notin {"manifest", "done"}
      BY DEF UpdatePcs, BeforeBackup
    <2>5. PICK d \in Commands : proc' = [proc EXCEPT ![p] = d] /\ CommandFits(p, d)
      BY <1>1, <1>3, <2>1, <2>3, <2>4, EarlyPcs, ToFits
    <2> QED BY <2>5, CommandFacts, QuietCommand DEF Check
  <1> QED BY <1>2, <1>3 DEF Check

LEMMA ReadingStep ==
    ASSUME HostIInv, NEW p \in Processes,
           ResolveTarget(p) \/ ReadInstallMetadata(p) \/ ReadCoreManifest(p)
             \/ ReadChecksums(p) \/ Confirm(p) \/ Stage(p)
    PROVE  HostIInv'
  <1>1. /\ {"update", "metadata", "core_manifest", "checksums", "preflight", "prompt",
            "stage", "backup"} \subseteq BeforeBackup
    BY DEF BeforeBackup
  <1>2. CASE ResolveTarget(p)
    BY <1>1, <1>2, CheckStep DEF ResolveTarget
  <1>3. CASE ReadInstallMetadata(p)
    BY <1>1, <1>3, CheckStep DEF ReadInstallMetadata
  <1>4. CASE ReadCoreManifest(p)
    BY <1>1, <1>4, CheckStep DEF ReadCoreManifest
  <1>5. CASE ReadChecksums(p)
    BY <1>1, <1>5, CheckStep DEF ReadChecksums
  <1>6. CASE Confirm(p)
    BY <1>1, <1>6, CheckStep, BlockStep DEF Confirm
  <1>7. CASE Stage(p)
    BY <1>1, <1>7, CheckStep, BlockStep DEF Stage
  <1> QED BY <1>2, <1>3, <1>4, <1>5, <1>6, <1>7

\* What the preflight lets through opens the store that was there.
LEMMA PreflightStep ==
    ASSUME HostIInv, NEW p \in Processes, Preflight(p) PROVE HostIInv'
  <1>1. proc[p].pc = "preflight" /\ "preflight" \in BeforeBackup
        /\ UNCHANGED <<files, found, schema, manifest, launcher, pkg, idFile>>
    BY DEF Preflight, BeforeBackup
  <1>2. /\ proc[p].cmd = "update" /\ proc[p].goal \in Releases
        /\ UpdateFits(proc[p]) /\ proc[p].pc \notin {"idle", "done"}
    BY <1>1, EarlyPcs
  <1>3. CASE \E outcome \in {"blocked", "empty", "complete"} : Done(p, outcome)
    <2>1. PICK outcome \in HostOutcomes : Done(p, outcome) /\ outcome # "stranded"
      BY <1>3 DEF HostOutcomes
    <2>2. PICK c \in Commands : proc' = [proc EXCEPT ![p] = c] /\ CommandFits(p, c)
      BY <1>1, <2>1, DoneFits
    <2> QED BY <1>1, <2>2, CommandFacts, QuietCommand
  <1>4. CASE /\ Assess(IF schema = 0 THEN Envelope[proc[p].goal].schema ELSE schema,
                       Envelope[proc[p].goal], Envelope[proc[p].release])
             /\ To(p, "prompt")
    <2>1. OpensStore(proc[p].goal)
      <3> SUFFICES ASSUME found > 0
                   PROVE  Envelope[proc[p].goal].schema - schema <= 2
        BY DEF OpensStore
      <3>1. /\ schema \in Nat /\ schema # 0 /\ Envelope[proc[p].goal].schema \in Nat
        BY <1>2, HostConstants DEF HostIInv
      <3>2. Assess(schema, Envelope[proc[p].goal], Envelope[proc[p].release])
        BY <1>4, <3>1
      <3>3. \/ schema = Envelope[proc[p].goal].schema
            \/ Delta(schema, Envelope[proc[p].goal].schema) # "class_d"
        BY <3>2 DEF Assess
      <3> QED BY <3>1, <3>3, DeltaFacts
    <2>2. PICK c : c = [proc[p] EXCEPT !.pc = "prompt"]
      OBVIOUS
    <2>3. c.pc = "prompt" /\ c.release = proc[p].release /\ c.goal = proc[p].goal
      BY <2>2, CommandFacts DEF Commands
    <2>4. UpdateFits(c)
      BY <1>1, <1>2, <2>1, <2>3 DEF UpdateFits, BeforeBackup
    <2>5. "prompt" \in UpdatePcs \cup OtherPcs /\ "prompt" \in UpdatePcs
      BY DEF UpdatePcs, BeforeBackup
    <2>6. PICK d \in Commands : proc' = [proc EXCEPT ![p] = d] /\ CommandFits(p, d)
      BY <1>1, <1>2, <1>4, <2>2, <2>4, <2>5, ToFits
    <2> QED BY <1>1, <2>6, CommandFacts, QuietCommand
  <1> QED BY <1>3, <1>4 DEF Preflight

\* A step that moves a binary: no other process is about to.
LEMMA BinaryMoves ==
    ASSUME HostIInv, \A u, v \in Updaters : u = v,
           NEW p \in Processes, proc[p].cmd = "update",
           UNCHANGED <<found, schema, pkg, idFile, manifest, launcher>>,
           files' \in [Paths -> Releases \cup {NoFile}],
           \A path \in Paths : files'[path] # NoFile => OpensStore(files'[path]),
           BinaryKept', proc' \in [Processes -> Commands], CommandFits(p, proc[p])',
           \A q \in Processes \ {p} :
              /\ proc'[q].pc = proc[q].pc /\ proc'[q].cmd = proc[q].cmd
              /\ proc'[q].release = proc[q].release /\ proc'[q].at = proc[q].at
    PROVE  HostIInv'
  <1>1. HostTypeOK' /\ idFile' \in Ids /\ ManifestHasScript'
    BY DEF HostIInv, HostTypeOK, ManifestHasScript
  <1>2. found' \in Nat /\ schema' \in Nat /\ found' <= schema'
    BY DEF HostIInv
  <1>3. ASSUME NEW q \in Processes \ {p} PROVE CommandFits(q, proc[q])'
    <2>1. CommandFits(q, proc[q]) /\ CommandFits(p, proc[p])
      BY CommandFacts
    <2>2. proc[q].cmd # "update"
      BY <2>1 DEF CommandFits
    <2> QED BY <2>1, <2>2 DEF CommandFits
  <1>4. \A path \in Paths : (files[path] # NoFile => OpensStore(files[path]))'
    BY DEF OpensStore
  <1> QED BY <1>1, <1>2, <1>3, <1>4 DEF HostIInv

LEMMA RenameFits ==
    ASSUME HostIInv, NEW p \in Processes, NEW from \in Paths, NEW to \in Paths, from # to,
           NEW pc \in UpdatePcs, RenameAnd(p, from, to, pc)
    PROVE  /\ files' \in [Paths -> Releases \cup {NoFile}]
           /\ files'[to] = files[from] /\ files[from] # NoFile
           /\ \A path \in Paths : files'[path] # NoFile => OpensStore(files'[path])
           /\ BinaryKept'
           /\ proc' \in [Processes -> Commands]
           /\ \A q \in Processes :
                 /\ proc'[q].pc = IF q = p THEN pc ELSE proc[q].pc
                 /\ proc'[q].cmd = proc[q].cmd /\ proc'[q].goal = proc[q].goal
                 /\ proc'[q].release = proc[q].release /\ proc'[q].at = proc[q].at
  <1>1. files \in [Paths -> Releases \cup {NoFile}]
        /\ \A path \in Paths : files[path] # NoFile => OpensStore(files[path])
    BY DEF HostIInv, HostTypeOK
  <1>2. files' = [files EXCEPT ![to] = files[from], ![from] = NoFile]
        /\ files[from] # NoFile
    BY DEF RenameAnd, Rename
  <1>3. /\ files' \in [Paths -> Releases \cup {NoFile}] /\ files'[to] = files[from]
        /\ \A path \in Paths : files'[path] # NoFile => OpensStore(files'[path])
        /\ BinaryKept'
    BY <1>1, <1>2 DEF BinaryKept
  <1>4. ASSUME NEW q \in Processes
        PROVE  /\ proc'[q] \in Commands
               /\ proc'[q].pc = IF q = p THEN pc ELSE proc[q].pc
               /\ proc'[q].cmd = proc[q].cmd /\ proc'[q].goal = proc[q].goal
               /\ proc'[q].release = proc[q].release /\ proc'[q].at = proc[q].at
    <2>1. PICK image : image = Moved(q, from, to)
      OBVIOUS
    <2>2. PICK new : new = IF q = p THEN pc ELSE proc[q].pc
      OBVIOUS
    <2>3. proc[q] \in Commands
      BY CommandFacts
    <2>4. image \in Images
      BY <2>1, <2>3, PathFacts DEF Moved, Images, Commands
    <2>5. new \in UpdatePcs \cup OtherPcs
      BY <2>2, <2>3 DEF Commands
    <2>6. proc'[q] = [proc[q] EXCEPT !.image = image, !.pc = new]
      BY <2>1, <2>2, <2>3 DEF RenameAnd
    <2>7. proc'[q] \in Commands
      BY <2>3, <2>4, <2>5, <2>6 DEF Commands
    <2> QED BY <2>2, <2>3, <2>6, <2>7 DEF Commands
  <1>5. proc' \in [Processes -> Commands]
    <2>1. proc' = [q \in Processes |-> proc'[q]]
      BY DEF RenameAnd
    <2> QED BY <1>4, <2>1
  <1> QED BY <1>2, <1>3, <1>4, <1>5

LEMMA BackupStep ==
    ASSUME HostIInv, \A u, v \in Updaters : u = v, NEW p \in Processes, Backup(p)
    PROVE  HostIInv'
  <1>1. proc[p].pc = "backup" /\ "backup" \in BeforeBackup
        /\ UNCHANGED <<found, schema, pkg, idFile, manifest, launcher>>
    BY DEF Backup, BeforeBackup
  <1>2. /\ proc[p].cmd = "update" /\ p \in Updaters /\ UpdateFits(proc[p])
        /\ proc[p].goal \in Releases /\ proc[p].release \in Releases
    BY <1>1, EarlyPcs
  <1>3. CASE RenameAnd(p, Install, proc[p].goal, "replace")
    <2>1. PICK to \in Paths : to = proc[p].goal
      BY <1>2, PathFacts
    <2>2. Install \in Paths /\ Install # to /\ "replace" \in UpdatePcs
      BY <1>2, <2>1, PathFacts DEF UpdatePcs
    <2>3. RenameAnd(p, Install, to, "replace")
      BY <1>3, <2>1
    <2>4. /\ files' \in [Paths -> Releases \cup {NoFile}]
          /\ files'[to] = files[Install]
          /\ \A path \in Paths : files'[path] # NoFile => OpensStore(files'[path])
          /\ BinaryKept'
          /\ proc' \in [Processes -> Commands]
          /\ \A q \in Processes :
                 /\ proc'[q].pc = IF q = p THEN "replace" ELSE proc[q].pc
                 /\ proc'[q].cmd = proc[q].cmd /\ proc'[q].goal = proc[q].goal
                 /\ proc'[q].release = proc[q].release /\ proc'[q].at = proc[q].at
      BY <2>2, <2>3, RenameFits
    <2>5. files[Install] = proc[p].release /\ OpensStore(proc[p].goal)
      BY <1>1, <1>2 DEF UpdateFits
    <2>6. CommandFits(p, proc[p])'
      BY <1>1, <1>2, <2>1, <2>4, <2>5
         DEF CommandFits, UpdateFits, UpdatePcs, BeforeBackup, OpensStore
    <2> QED BY <1>1, <1>2, <2>4, <2>6, BinaryMoves
  <1>4. CASE Done(p, "blocked") /\ UNCHANGED files
    <2>1. "blocked" \in HostOutcomes
      BY DEF HostOutcomes
    <2>2. PICK c \in Commands : proc' = [proc EXCEPT ![p] = c] /\ CommandFits(p, c)
      BY <1>1, <1>4, <2>1, DoneFits
    <2> QED BY <1>1, <1>4, <2>2, CommandFacts, QuietCommand
  <1> QED BY <1>3, <1>4 DEF Backup

LEMMA RollbackStep ==
    ASSUME HostIInv, \A u, v \in Updaters : u = v, NEW p \in Processes, Rollback(p)
    PROVE  HostIInv'
  <1>1. proc[p].pc = "rollback"
        /\ UNCHANGED <<found, schema, pkg, idFile, manifest, launcher>>
    BY DEF Rollback
  <1>2. /\ proc[p].cmd = "update" /\ p \in Updaters /\ UpdateFits(proc[p])
        /\ proc[p].goal \in Releases /\ proc[p].release \in Releases
        /\ proc[p].pc \notin {"idle", "done"}
    BY <1>1, EarlyPcs
  <1>3. files[proc[p].goal] = proc[p].release
    BY <1>1, <1>2 DEF UpdateFits
  <1>4. CASE RenameAnd(p, proc[p].goal, Install, "blocked")
    <2>1. PICK from \in Paths : from = proc[p].goal
      BY <1>2, PathFacts
    <2>2. Install \in Paths /\ Install # from /\ "blocked" \in UpdatePcs
      BY <1>2, <2>1, PathFacts DEF UpdatePcs, BeforeBackup
    <2>3. RenameAnd(p, from, Install, "blocked")
      BY <1>4, <2>1
    <2>4. /\ files' \in [Paths -> Releases \cup {NoFile}]
          /\ files'[Install] = files[from]
          /\ \A path \in Paths : files'[path] # NoFile => OpensStore(files'[path])
          /\ BinaryKept'
          /\ proc' \in [Processes -> Commands]
          /\ \A q \in Processes :
                 /\ proc'[q].pc = IF q = p THEN "blocked" ELSE proc[q].pc
                 /\ proc'[q].cmd = proc[q].cmd /\ proc'[q].goal = proc[q].goal
                 /\ proc'[q].release = proc[q].release /\ proc'[q].at = proc[q].at
      BY <2>2, <2>3, RenameFits
    <2>5. CommandFits(p, proc[p])'
      BY <1>1, <1>2, <1>3, <2>1, <2>4
         DEF CommandFits, UpdateFits, UpdatePcs, BeforeBackup
    <2> QED BY <1>1, <1>2, <2>4, <2>5, BinaryMoves
  <1>5. CASE To(p, "stranded") /\ UNCHANGED files
    <2>1. PICK c : c = [proc[p] EXCEPT !.pc = "stranded"]
      OBVIOUS
    <2>2. c.pc = "stranded" /\ c.release = proc[p].release /\ c.goal = proc[p].goal
      BY <2>1, CommandFacts DEF Commands
    <2>3. UpdateFits(c)
      BY <1>3, <2>2 DEF UpdateFits, BeforeBackup
    <2>4. "stranded" \in UpdatePcs \cup OtherPcs /\ "stranded" \in UpdatePcs
      BY DEF UpdatePcs
    <2>5. PICK d \in Commands : proc' = [proc EXCEPT ![p] = d] /\ CommandFits(p, d)
      BY <1>2, <1>5, <2>1, <2>3, <2>4, ToFits
    <2> QED BY <1>1, <1>5, <2>5, CommandFacts, QuietCommand
  <1> QED BY <1>4, <1>5 DEF Rollback

LEMMA ReplaceStep ==
    ASSUME HostIInv, \A u, v \in Updaters : u = v, NEW p \in Processes, Replace(p)
    PROVE  HostIInv'
  <1>1. proc[p].pc = "replace"
        /\ UNCHANGED <<found, schema, pkg, idFile, manifest, launcher>>
    BY DEF Replace
  <1>2. /\ proc[p].cmd = "update" /\ p \in Updaters /\ UpdateFits(proc[p])
        /\ proc[p].goal \in Releases /\ proc[p].release \in Releases
        /\ proc[p].pc \notin {"idle", "done"} /\ proc[p] \in Commands
    BY <1>1, EarlyPcs, CommandFacts
  <1>3. files[proc[p].goal] = proc[p].release /\ OpensStore(proc[p].goal)
    BY <1>1, <1>2 DEF UpdateFits
  <1>4. CASE files' = [files EXCEPT ![Install] = proc[p].goal] /\ To(p, "remove")
    <2>1. /\ files \in [Paths -> Releases \cup {NoFile}]
          /\ \A path \in Paths : files[path] # NoFile => OpensStore(files[path])
      BY DEF HostIInv, HostTypeOK
    <2>2. /\ files' \in [Paths -> Releases \cup {NoFile}]
          /\ files'[Install] = proc[p].goal
          /\ \A path \in Paths : files'[path] # NoFile => OpensStore(files'[path])
      BY <1>2, <1>3, <1>4, <2>1, PathFacts
    <2>3. BinaryKept'
      BY <1>2, <2>2, PathFacts DEF BinaryKept
    <2>4. PICK c : c = [proc[p] EXCEPT !.pc = "remove"]
      OBVIOUS
    <2>5. c \in Commands /\ c.pc = "remove" /\ c.cmd = "update" /\ c.goal = proc[p].goal
          /\ c.release = proc[p].release
      BY <1>2, <2>4 DEF Commands, UpdatePcs
    <2>6. proc' = [proc EXCEPT ![p] = c] /\ proc \in [Processes -> Commands]
      BY <1>4, <2>4 DEF To, HostIInv
    <2>7. proc' \in [Processes -> Commands] /\ proc'[p] = c
          /\ \A q \in Processes \ {p} : proc'[q] = proc[q]
      BY <2>5, <2>6
    <2>8. CommandFits(p, proc[p])'
      BY <1>2, <2>2, <2>5, <2>7 DEF CommandFits, UpdateFits, UpdatePcs, BeforeBackup
    <2> QED BY <1>1, <1>2, <2>2, <2>3, <2>7, <2>8, BinaryMoves
  <1>5. CASE To(p, "rollback") /\ UNCHANGED files
    <2>1. PICK c : c = [proc[p] EXCEPT !.pc = "rollback"]
      OBVIOUS
    <2>2. c.pc = "rollback" /\ c.release = proc[p].release /\ c.goal = proc[p].goal
      BY <1>2, <2>1 DEF Commands
    <2>3. UpdateFits(c)
      BY <1>3, <2>2 DEF UpdateFits, BeforeBackup
    <2>4. "rollback" \in UpdatePcs \cup OtherPcs /\ "rollback" \in UpdatePcs
      BY DEF UpdatePcs
    <2>5. PICK d \in Commands : proc' = [proc EXCEPT ![p] = d] /\ CommandFits(p, d)
      BY <1>2, <1>5, <2>1, <2>3, <2>4, ToFits
    <2> QED BY <1>1, <1>5, <2>5, CommandFacts, QuietCommand
  <1> QED BY <1>4, <1>5 DEF Replace

\* An update that is blocked before the backup or rolled back has left the
\* binary it was started from; a stranded one has it as the backup.
LEMMA ReportStep ==
    ASSUME HostIInv, NEW p \in Processes, Report(p) PROVE HostIInv'
  <1>1. /\ proc[p].pc \in {"blocked", "stranded"} /\ Done(p, proc[p].pc)
        /\ UNCHANGED <<files, found, schema, pkg, idFile, manifest, launcher>>
    BY DEF Report
  <1>2. PICK outcome \in HostOutcomes : outcome = proc[p].pc
    BY <1>1 DEF HostOutcomes
  <1>3. PICK c \in Commands : proc' = [proc EXCEPT ![p] = c] /\ CommandFits(p, c)
    BY <1>1, <1>2, DoneFits DEF BeforeBackup
  <1> QED BY <1>1, <1>3, CommandFacts, QuietCommand

LEMMA RemoveBackupStep ==
    ASSUME HostIInv, \A u, v \in Updaters : u = v, NEW p \in Processes, RemoveBackup(p)
    PROVE  HostIInv'
  <1>1. proc[p].pc = "remove"
        /\ UNCHANGED <<found, schema, pkg, idFile, manifest, launcher>>
    BY DEF RemoveBackup
  <1>2. /\ proc[p].cmd = "update" /\ p \in Updaters /\ UpdateFits(proc[p])
        /\ proc[p].goal \in Releases /\ proc[p].release \in Releases
    BY <1>1, EarlyPcs
  <1>3. files[Install] = proc[p].goal
    BY <1>1, <1>2 DEF UpdateFits
  <1>4. /\ files \in [Paths -> Releases \cup {NoFile}]
        /\ \A path \in Paths : files[path] # NoFile => OpensStore(files[path])
    BY DEF HostIInv, HostTypeOK
  <1>5. /\ files' = [files EXCEPT ![proc[p].goal] = NoFile] \/ files' = files
        /\ proc' = [q \in Processes |->
             [proc[q] EXCEPT
                !.image = IF @ = proc[p].goal /\ files[proc[p].goal] # NoFile
                             /\ files' # files THEN Gone ELSE @,
                !.exe = IF q = p THEN Install ELSE @,
                !.pc = IF q # p THEN @ ELSE IF Configured THEN "fetch" ELSE "updated"]]
    BY DEF RemoveBackup
  <1>6. /\ files' \in [Paths -> Releases \cup {NoFile}]
        /\ files'[Install] = proc[p].goal
        /\ \A path \in Paths : files'[path] # NoFile => OpensStore(files'[path])
    BY <1>2, <1>3, <1>4, <1>5, PathFacts, ZenonT(60)
  <1>7. BinaryKept'
    BY <1>2, <1>6, PathFacts DEF BinaryKept
  <1>8. ASSUME NEW q \in Processes
        PROVE  /\ proc'[q] \in Commands
               /\ proc'[q].pc = IF q # p THEN proc[q].pc
                                ELSE IF Configured THEN "fetch" ELSE "updated"
               /\ proc'[q].cmd = proc[q].cmd /\ proc'[q].goal = proc[q].goal
               /\ proc'[q].release = proc[q].release /\ proc'[q].at = proc[q].at
    <2>1. proc[q] \in Commands
      BY CommandFacts
    <2>2. PICK new : new = IF q # p THEN proc[q].pc
                           ELSE IF Configured THEN "fetch" ELSE "updated"
      OBVIOUS
    <2>3. PICK exe : exe = IF q = p THEN Install ELSE proc[q].exe
      OBVIOUS
    <2>4. PICK image : image = IF proc[q].image = proc[p].goal /\ files[proc[p].goal] # NoFile
                                  /\ files' # files THEN Gone ELSE proc[q].image
      OBVIOUS
    <2>5. new \in UpdatePcs \cup OtherPcs /\ exe \in Images /\ image \in Images
      <3>1. new \in UpdatePcs \cup OtherPcs
        BY <2>1, <2>2 DEF Commands, UpdatePcs, Packaging
      <3>2. exe \in Images /\ image \in Images
        BY <2>1, <2>3, <2>4, PathFacts DEF Commands, Images
      <3> QED BY <3>1, <3>2
    <2>6. proc'[q] = [proc[q] EXCEPT !.image = image, !.exe = exe, !.pc = new]
      BY <1>5, <2>1, <2>2, <2>3, <2>4
    <2>7. proc'[q] \in Commands
      BY <2>1, <2>5, <2>6 DEF Commands
    <2> QED BY <2>1, <2>2, <2>6, <2>7 DEF Commands
  <1>9. proc' \in [Processes -> Commands]
    <2>1. proc' = [q \in Processes |-> proc'[q]]
      BY <1>5
    <2> QED BY <1>8, <2>1
  <1>10. proc'[p].pc \in {"fetch", "updated"}
    BY <1>8
  <1>11. CommandFits(p, proc[p])'
    <2>1. UpdateFits(proc[p])'
      BY <1>10 DEF UpdateFits, BeforeBackup
    <2>2. proc'[p].pc \in UpdatePcs /\ proc'[p].pc # "manifest"
      BY <1>10 DEF UpdatePcs, Packaging
    <2> QED BY <1>2, <1>8, <2>1, <2>2 DEF CommandFits
  <1> QED BY <1>1, <1>2, <1>6, <1>7, <1>8, <1>9, <1>11, BinaryMoves

\* A process that ends, where that says nothing about the binary.
LEMMA EndStep ==
    ASSUME HostIInv, NEW p \in Processes,
           NEW outcome \in HostOutcomes, Done(p, outcome),
           outcome \notin {"blocked", "stranded"} \/ proc[p].cmd # "update",
           UNCHANGED <<files, found, schema, manifest, launcher>>,
           pkg' \in [Packages -> PackageStates], idFile' \in Ids
    PROVE  HostIInv'
  <1>1. PICK c \in Commands : proc' = [proc EXCEPT ![p] = c] /\ CommandFits(p, c)
    BY DoneFits
  <1> QED BY <1>1, QuietCommand

LEMMA LaterStep ==
    ASSUME HostIInv, NEW p \in Processes,
           NEW pc \in Packaging \cup {"rehost", "updated", "setup", "identify", "packing",
                                      "doctor", "uninstall"},
           To(p, pc), proc[p].pc \notin {"idle", "done"},
           proc[p].cmd # "update" => pc \in OtherPcs,
           proc[p].cmd = "update" => pc \in UpdatePcs,
           UNCHANGED <<files, found, schema, manifest, launcher>>,
           pkg' \in [Packages -> PackageStates], idFile' \in Ids
    PROVE  HostIInv'
  <1>1. PICK c \in Commands : proc' = [proc EXCEPT ![p] = c] /\ CommandFits(p, c)
    BY ToLater
  <1> QED BY <1>1, QuietCommand

LEMMA KillStep ==
    ASSUME HostIInv, NEW p \in Processes, KillProcess(p) PROVE HostIInv'
  <1>1. "killed" \in HostOutcomes /\ Done(p, "killed")
        /\ UNCHANGED <<files, found, schema, pkg, idFile, manifest, launcher>>
    BY DEF KillProcess, HostOutcomes
  <1> QED BY <1>1, CommandFacts, EndStep

LEMMA UpdatedStep ==
    ASSUME HostIInv, NEW p \in Processes, Updated(p) PROVE HostIInv'
  <1>1. "complete" \in HostOutcomes /\ Done(p, "complete")
        /\ UNCHANGED <<files, found, schema, pkg, idFile, manifest, launcher>>
    BY DEF Updated, HostOutcomes
  <1> QED BY <1>1, CommandFacts, EndStep

LEMMA StartStep ==
    ASSUME HostIInv, NEW p \in Processes, Start(p) PROVE HostIInv'
  <1> PICK cmd \in {"open", "fetch", "setup", "setup_dev", "doctor", "uninstall", "bridge"}
                  \cup (IF p \in Updaters THEN {"update"} ELSE {}),
           goal \in Releases, at \in DOMAIN Browsers, id \in OtherIds \cup {NoId} :
          /\ cmd \notin {"fetch", "update"} => goal = files[Install]
          /\ cmd \notin {"setup", "setup_dev", "doctor"} => at = 1
          /\ cmd \notin {"setup", "setup_dev", "bridge"} => id = NoId
          /\ proc' = [proc EXCEPT ![p] =
               [NoCommand EXCEPT !.pc = cmd, !.cmd = cmd, !.release = files[Install],
                                 !.goal = goal, !.id = id, !.at = at]]
    BY Zenon DEF Start
  <1>1. /\ cmd \in {"open", "fetch", "setup", "setup_dev", "doctor", "uninstall", "bridge",
                    "update"}
        /\ cmd = "update" => p \in Updaters
    OBVIOUS
  <1>2. /\ files[Install] # NoFile
        /\ UNCHANGED <<files, found, schema, pkg, idFile, manifest, launcher>>
    BY DEF Start
  <1>3. files[Install] \in Releases
    BY <1>2, PathFacts DEF HostIInv, HostTypeOK
  <1>4. PICK c : c = [NoCommand EXCEPT !.pc = cmd, !.cmd = cmd, !.release = files[Install],
                                      !.goal = goal, !.id = id, !.at = at]
    OBVIOUS
  <1>5. /\ cmd \in UpdatePcs \cup OtherPcs /\ (cmd # "update" => cmd \in OtherPcs)
        /\ cmd = "update" => cmd \in UpdatePcs
    BY DEF UpdatePcs, OtherPcs, BeforeBackup, Packaging
  <1>6. /\ c.pc = cmd /\ c.cmd = cmd /\ c.release = files[Install] /\ c.goal = goal
        /\ c.image = Install /\ c.exe = Install /\ c.outcome = "none" /\ c.id = id
        /\ c.at = at
    BY <1>4 DEF NoCommand
  <1>7. c \in Commands
    <2>1. id \in Ids /\ at \in Nat /\ Install \in Images /\ "none" \in HostOutcomes
      BY PathFacts DEF Ids, HostOutcomes
    <2> QED BY <1>3, <1>4, <1>5, <2>1 DEF Commands, NoCommand
  <1>8. CommandFits(p, c)
    BY <1>1, <1>3, <1>5, <1>6 DEF CommandFits, UpdateFits, BeforeBackup
  <1>9. proc' = [proc EXCEPT ![p] = c]
    BY <1>4
  <1> QED BY <1>2, <1>7, <1>8, <1>9, CommandFacts, QuietCommand

\* The store moves up to the schema of the binary that opens it: no binary gets
\* further away from it.
LEMMA OpenLocalStoreStep ==
    ASSUME HostIInv, NEW p \in Processes, OpenLocalStore(p) PROVE HostIInv'
  <1>1. /\ proc[p].pc = "open" /\ UNCHANGED <<files, found, pkg, idFile, manifest, launcher>>
    BY DEF OpenLocalStore
  <1>2. proc[p].cmd # "update" /\ proc[p].release \in Releases
    BY <1>1, CommandFacts DEF CommandFits, UpdatePcs, BeforeBackup, Packaging
  <1>3. PICK own \in Nat : own = Envelope[proc[p].release].schema
    BY <1>2, HostConstants
  <1>4. schema \in Nat /\ found \in Nat /\ found <= schema
    BY DEF HostIInv
  <1>5. PICK outcome \in HostOutcomes : Done(p, outcome)
    BY DEF OpenLocalStore, HostOutcomes
  <1>6. schema' \in Nat /\ schema' >= schema
    BY <1>3, <1>4 DEF OpenLocalStore
  <1>7. PICK c \in Commands : proc' = [proc EXCEPT ![p] = c] /\ CommandFits(p, c)
    BY <1>2, <1>5, DoneFits
  <1>8. \A v \in Releases : OpensStore(v) => OpensStore(v)'
    <2> SUFFICES ASSUME NEW v \in Releases, OpensStore(v) PROVE OpensStore(v)'
      OBVIOUS
    <2>1. Envelope[v].schema \in Nat
      BY HostConstants
    <2> QED BY <1>1, <1>4, <1>6, <2>1 DEF OpensStore
  <1>9. \A q \in Processes : CommandFits(q, proc[q])'
    <2> SUFFICES ASSUME NEW q \in Processes PROVE CommandFits(q, proc[q])'
      OBVIOUS
    <2>1. CommandFits(q, proc'[q])
      BY <1>7, CommandFacts DEF HostIInv
    <2> QED BY <1>1, <1>8, <2>1 DEF CommandFits, UpdateFits
  <1>10. \A path \in Paths : (files[path] # NoFile => OpensStore(files[path]))'
    BY <1>1, <1>8, PathFacts DEF HostIInv, HostTypeOK
  <1>11. HostTypeOK' /\ idFile' \in Ids /\ ManifestHasScript' /\ BinaryKept'
    BY <1>1 DEF HostIInv, HostTypeOK, ManifestHasScript, BinaryKept
  <1>12. proc' \in [Processes -> Commands]
    BY <1>7 DEF HostIInv
  <1> QED BY <1>1, <1>4, <1>6, <1>9, <1>10, <1>11, <1>12 DEF HostIInv

-----------------------------------------------------------------------------
(* rr extension, rr bridge                                                 *)

LEMMA PackageWritten ==
    ASSUME HostIInv, NEW k \in Nat, NEW state \in PackageStates,
           pkg' = [pkg EXCEPT ![k] = state]
    PROVE  pkg' \in [Packages -> PackageStates]
  <1>1. pkg \in [Packages -> PackageStates]
    BY DEF HostIInv, HostTypeOK
  <1>2. Releases \subseteq Packages /\ Dev \notin Releases
    BY PathFacts DEF Packages, Dev
  <1> QED BY <1>1, <1>2

LEMMA AfterFetchStep ==
    ASSUME HostIInv, NEW p \in Processes, proc[p].pc \in Packaging,
           NEW outcome \in {"blocked", "complete", "error"}, AfterFetch(p, outcome),
           UNCHANGED <<files, found, schema, idFile, manifest, launcher>>,
           pkg' \in [Packages -> PackageStates]
    PROVE  HostIInv'
  <1>1. outcome \in HostOutcomes /\ idFile' \in Ids /\ proc[p].pc \notin {"idle", "done"}
    BY CommandFacts DEF HostOutcomes, Packaging
  <1>2. CASE proc[p].cmd = "update"
    <2>1. To(p, "rehost") /\ "rehost" \in UpdatePcs
      BY <1>2 DEF AfterFetch, UpdatePcs
    <2> QED BY <1>1, <1>2, <2>1, LaterStep
  <1>3. CASE proc[p].cmd # "update"
    BY <1>1, <1>3, EndStep DEF AfterFetch
  <1> QED BY <1>2, <1>3

\* The next step of a fetch, whoever fetches.
LEMMA FetchGoesOn ==
    ASSUME HostIInv, NEW p \in Processes, proc[p].pc \in Packaging,
           NEW pc \in Packaging, To(p, pc),
           UNCHANGED <<files, found, schema, idFile, manifest, launcher>>,
           pkg' \in [Packages -> PackageStates]
    PROVE  HostIInv'
  <1>1. idFile' \in Ids /\ proc[p].pc \notin {"idle", "done"}
        /\ pc \in UpdatePcs /\ pc \in OtherPcs
    BY CommandFacts DEF Packaging, UpdatePcs, OtherPcs
  <1> QED BY <1>1, LaterStep

LEMMA FetchStep ==
    ASSUME HostIInv, NEW p \in Processes,
           FetchDocuments(p) \/ FetchArchive(p) \/ ClearPackage(p) \/ MovePackage(p)
    PROVE  HostIInv'
  <1>1. /\ {"fetch", "fetch_archive", "clear_package", "move_package"} \subseteq Packaging
        /\ UNCHANGED <<files, found, schema, idFile, manifest, launcher>>
    BY DEF Packaging, FetchDocuments, FetchArchive, ClearPackage, MovePackage
  <1>2. /\ pkg \in [Packages -> PackageStates]
        /\ proc[p].goal \in Nat
    <2>1. proc[p].goal \in Releases \cup {0}
      BY CommandFacts DEF Commands
    <2>2. \A goal \in Releases \cup {0} : goal \in Nat
      BY PathFacts
    <2>3. proc[p].goal \in Nat
      BY <2>1, <2>2, Zenon
    <2> QED BY <2>3, CommandFacts
  <1>3. CASE FetchDocuments(p)
    <2>1. CASE AfterFetch(p, "blocked") /\ UNCHANGED pkg
      BY <1>1, <1>2, <1>3, <2>1, AfterFetchStep DEF FetchDocuments
    <2>2. CASE /\ pkg' = [pkg EXCEPT ![proc[p].goal] = IF @ = "none" THEN "dir" ELSE @]
               /\ To(p, "fetch_archive")
      <3>1. /\ pkg' \in [Packages -> PackageStates]
        <4>1. PICK state : state = IF pkg[proc[p].goal] = "none" THEN "dir"
                                   ELSE pkg[proc[p].goal]
          OBVIOUS
        <4>2. pkg' = [pkg EXCEPT ![proc[p].goal] = state]
          BY <2>2, <4>1
        <4>3. proc[p].goal \in Packages => state \in PackageStates
          BY <1>2, <4>1 DEF PackageStates
        <4>4. Releases \subseteq Packages
          BY DEF Packages
        <4> QED BY <1>2, <4>2, <4>3, <4>4
      <3> QED BY <1>1, <1>3, <2>2, <3>1, FetchGoesOn DEF FetchDocuments
    <2> QED BY <1>3, <2>1, <2>2 DEF FetchDocuments
  <1>4. CASE FetchArchive(p)
    <2>1. UNCHANGED pkg /\ proc[p].pc \in Packaging
      BY <1>1, <1>4 DEF FetchArchive
    <2>2. AfterFetch(p, "blocked") \/ To(p, "clear_package")
      BY <1>4 DEF FetchArchive
    <2> QED BY <1>1, <1>2, <2>1, <2>2, AfterFetchStep, FetchGoesOn
  <1>5. CASE ClearPackage(p)
    <2>1. proc[p].pc \in Packaging
      BY <1>1, <1>5 DEF ClearPackage
    <2>2. ASSUME NEW left \in LeftOf(pkg[proc[p].goal]),
                 pkg' = [pkg EXCEPT ![proc[p].goal] = left],
                 To(p, IF left = "dir" THEN "move_package" ELSE "clear_package")
          PROVE  HostIInv'
      <3>1. left \in PackageStates
        BY <2>2 DEF LeftOf, PackageStates
      <3>2. pkg' \in [Packages -> PackageStates]
        BY <1>2, <2>2, <3>1, PackageWritten
      <3>3. PICK pc \in Packaging : To(p, pc)
        BY <2>2 DEF Packaging
      <3> QED BY <1>1, <2>1, <3>2, <3>3, FetchGoesOn
    <2>3. CASE To(p, "move_package") /\ UNCHANGED pkg
      BY <1>1, <1>2, <2>1, <2>3, FetchGoesOn
    <2>4. CASE AfterFetch(p, "error") /\ UNCHANGED pkg
      BY <1>1, <1>2, <2>1, <2>4, AfterFetchStep
    <2> QED BY <1>5, <2>2, <2>3, <2>4 DEF ClearPackage
  <1>6. CASE MovePackage(p)
    <2>1. proc[p].pc \in Packaging
      BY <1>1, <1>6 DEF MovePackage
    <2>2. CASE pkg' = [pkg EXCEPT ![proc[p].goal] = "whole"]
      <3>1. pkg' \in [Packages -> PackageStates]
        <4>1. "whole" \in PackageStates
          BY DEF PackageStates
        <4> QED BY <1>2, <2>2, <4>1, PackageWritten
      <3>2. AfterFetch(p, "complete") \/ AfterFetch(p, "error")
        BY <1>6 DEF MovePackage
      <3> QED BY <1>1, <2>1, <3>1, <3>2, AfterFetchStep
    <2>3. CASE AfterFetch(p, "error") /\ UNCHANGED pkg
      BY <1>1, <1>2, <2>1, <2>3, AfterFetchStep
    <2> QED BY <1>6, <2>2, <2>3 DEF MovePackage
  <1> QED BY <1>3, <1>4, <1>5, <1>6

\* Commands no update goes through.
LEMMA NotAnUpdate ==
    ASSUME HostIInv, NEW p \in Processes,
           proc[p].pc \in {"setup", "identify", "setup_dev", "packing", "bridge", "doctor",
                           "uninstall"}
    PROVE  proc[p].cmd # "update"
  BY CommandFacts DEF CommandFits, UpdatePcs, BeforeBackup, Packaging

LEMMA PackStep ==
    ASSUME HostIInv, NEW p \in Processes, PackClear(p) \/ PackCopy(p)
    PROVE  HostIInv'
  <1>1. /\ proc[p].cmd # "update" /\ proc[p].pc \notin {"idle", "done"}
        /\ UNCHANGED <<files, found, schema, idFile, manifest, launcher>>
        /\ idFile' \in Ids
    BY NotAnUpdate, CommandFacts DEF PackClear, PackCopy
  <1>2. Dev \in Nat /\ {"packing", "identify"} \subseteq OtherPcs
    BY DEF Dev, OtherPcs
  <1>3. CASE PackClear(p)
    <2>1. pkg' = [pkg EXCEPT ![Dev] = "part"] /\ To(p, "packing")
      BY <1>3 DEF PackClear
    <2>2. pkg' \in [Packages -> PackageStates]
      BY <1>2, <2>1, PackageWritten DEF PackageStates
    <2> QED BY <1>1, <1>2, <2>1, <2>2, LaterStep
  <1>4. CASE pkg' = [pkg EXCEPT ![Dev] = "whole"] /\ To(p, "identify")
    <2>1. pkg' \in [Packages -> PackageStates]
      BY <1>2, <1>4, PackageWritten DEF PackageStates
    <2> QED BY <1>1, <1>2, <1>4, <2>1, LaterStep
  <1>5. CASE Done(p, "error") /\ UNCHANGED pkg
    <2>1. "error" \in HostOutcomes
      BY DEF HostOutcomes
    <2> QED BY <1>1, <1>5, <2>1, CommandFacts, EndStep
  <1> QED BY <1>3, <1>4, <1>5 DEF PackCopy

LEMMA SetupStep ==
    ASSUME HostIInv, NEW p \in Processes, Setup(p) PROVE HostIInv'
  <1>1. /\ proc[p].cmd # "update" /\ proc[p].pc \notin {"idle", "done"}
        /\ UNCHANGED <<files, found, schema, pkg, idFile, manifest, launcher>>
    BY NotAnUpdate DEF Setup
  <1>2. "identify" \in OtherPcs /\ "blocked" \in HostOutcomes
    BY DEF OtherPcs, HostOutcomes
  <1>3. Done(p, "blocked") \/ To(p, "identify")
    BY DEF Setup
  <1> QED BY <1>1, <1>2, <1>3, CommandFacts, EndStep, LaterStep

\* The hosts are written next, for this id and through this path.
LEMMA ScriptNext ==
    ASSUME HostIInv, NEW p \in Processes, proc[p].pc \notin {"idle", "done"},
           NEW id \in Ids, NEW exe \in Images, NEW at \in Nat,
           proc' = [proc EXCEPT ![p] = [proc[p] EXCEPT !.pc = "script", !.id = id,
                                                       !.exe = exe, !.at = at]],
           UNCHANGED <<files, found, schema, pkg, manifest, launcher>>, idFile' \in Ids
    PROVE  HostIInv'
  <1>1. proc[p] \in Commands /\ CommandFits(p, proc[p])
    BY CommandFacts
  <1>2. PICK c : c = [proc[p] EXCEPT !.pc = "script", !.id = id, !.exe = exe, !.at = at]
    OBVIOUS
  <1>3. c \in Commands
    BY <1>1, <1>2 DEF Commands, UpdatePcs, Packaging
  <1>4. c.pc = "script" /\ c.cmd = proc[p].cmd /\ c.release = proc[p].release
        /\ c.goal = proc[p].goal
    BY <1>1, <1>2 DEF Commands
  <1>5. UpdateFits(c)
    BY <1>4 DEF UpdateFits, BeforeBackup
  <1>6. CommandFits(p, c)
    BY <1>1, <1>4, <1>5 DEF CommandFits, UpdatePcs, OtherPcs, Packaging
  <1> QED BY <1>2, <1>3, <1>6, CommandFacts, QuietCommand

LEMMA IdentifyStep ==
    ASSUME HostIInv, NEW p \in Processes, Identify(p) PROVE HostIInv'
  <1>1. /\ proc[p].cmd # "update" /\ proc[p].pc \notin {"idle", "done"}
        /\ UNCHANGED <<files, found, schema, pkg, manifest, launcher>>
        /\ proc[p] \in Commands
    BY NotAnUpdate, CommandFacts DEF Identify
  <1>2. PICK id \in Ids : id = IF proc[p].id # NoId THEN proc[p].id ELSE KeyId
    BY <1>1, PathFacts DEF Commands
  <1>3. CASE /\ idFile' = id
             /\ proc' = [proc EXCEPT ![p].pc = "script", ![p].id = id, ![p].exe = proc[p].image]
    <2>1. PICK exe \in Images, at \in Nat : exe = proc[p].image /\ at = proc[p].at
      BY <1>1 DEF Commands
    <2>2. [proc[p] EXCEPT !.pc = "script", !.id = id, !.exe = exe] =
          [proc[p] EXCEPT !.pc = "script", !.id = id, !.exe = exe, !.at = at]
      BY <1>1, <2>1 DEF Commands
    <2>3. proc' = [proc EXCEPT ![p] = [proc[p] EXCEPT !.pc = "script", !.id = id,
                                                      !.exe = exe]]
      BY <1>3, <2>1
    <2>4. proc' = [proc EXCEPT ![p] = [proc[p] EXCEPT !.pc = "script", !.id = id,
                                                      !.exe = exe, !.at = at]]
      BY <2>2, <2>3
    <2>5. idFile' \in Ids
      BY <1>3
    <2> QED BY <1>1, <2>1, <2>4, <2>5, ScriptNext
  <1>4. CASE Done(p, "blocked") /\ UNCHANGED idFile
    <2>1. "blocked" \in HostOutcomes
      BY DEF HostOutcomes
    <2> QED BY <1>1, <1>4, <2>1, CommandFacts, EndStep
  <1> QED BY <1>2, <1>3, <1>4 DEF Identify

LEMMA BridgeInstallStep ==
    ASSUME HostIInv, NEW p \in Processes, BridgeInstall(p) PROVE HostIInv'
  <1>1. /\ proc[p].cmd # "update" /\ proc[p].pc \notin {"idle", "done"}
        /\ UNCHANGED <<files, found, schema, pkg, idFile, manifest, launcher>>
        /\ proc[p] \in Commands /\ idFile \in Ids
    BY NotAnUpdate, CommandFacts DEF BridgeInstall
  <1>2. PICK id \in Ids : id = IF proc[p].id # NoId THEN proc[p].id ELSE idFile
    BY <1>1 DEF Commands
  <1>3. CASE proc' = [proc EXCEPT ![p].pc = "script", ![p].id = id, ![p].exe = proc[p].image]
    <2>1. PICK exe \in Images, at \in Nat : exe = proc[p].image /\ at = proc[p].at
      BY <1>1 DEF Commands
    <2>2. [proc[p] EXCEPT !.pc = "script", !.id = id, !.exe = exe] =
          [proc[p] EXCEPT !.pc = "script", !.id = id, !.exe = exe, !.at = at]
      BY <1>1, <2>1 DEF Commands
    <2>3. proc' = [proc EXCEPT ![p] = [proc[p] EXCEPT !.pc = "script", !.id = id,
                                                      !.exe = exe]]
      BY <1>3, <2>1
    <2>4. proc' = [proc EXCEPT ![p] = [proc[p] EXCEPT !.pc = "script", !.id = id,
                                                      !.exe = exe, !.at = at]]
      BY <2>2, <2>3
    <2> QED BY <1>1, <2>4, ScriptNext
  <1>4. CASE Done(p, "blocked")
    <2>1. "blocked" \in HostOutcomes
      BY DEF HostOutcomes
    <2> QED BY <1>1, <1>4, <2>1, CommandFacts, EndStep
  <1> QED BY <1>2, <1>3, <1>4 DEF BridgeInstall

\* The next browser, or the end.
LEMMA NextFits ==
    ASSUME HostIInv, NEW p \in Processes, proc[p].pc \in {"script", "manifest", "uninstall"},
           NextBrowser(p)
    PROVE  \E c \in Commands : proc' = [proc EXCEPT ![p] = c] /\ CommandFits(p, c)
  <1>1. /\ proc[p] \in Commands /\ CommandFits(p, proc[p])
        /\ proc[p].pc \notin {"idle", "done"} /\ proc[p].at + 1 \in Nat
    BY CommandFacts DEF Commands
  <1>2. CASE proc[p].cmd \in {"setup", "setup_dev"}
    <2>1. To(p, "doctor") /\ "doctor" \in OtherPcs
      BY <1>2 DEF NextBrowser, OtherPcs
    <2> QED BY <1>1, <1>2, <2>1, ToLater
  <1>3. CASE /\ proc[p].cmd \notin {"setup", "setup_dev"}
             /\ proc[p].at < Len(Browsers)
    <2>1. PICK at \in Nat : at = proc[p].at + 1
      BY <1>1
    <2>2. PICK pc : pc = IF proc[p].pc = "uninstall" THEN proc[p].pc ELSE "script"
      OBVIOUS
    <2>3. PICK c : c = [proc[p] EXCEPT !.at = at, !.pc = pc]
      OBVIOUS
    <2>4. proc' = [proc EXCEPT ![p] = c]
      BY <1>1, <1>3, <2>1, <2>2, <2>3 DEF NextBrowser, HostIInv
    <2>5. pc \in {"script", "uninstall"} /\ (proc[p].cmd = "update" => pc = "script")
      BY <2>2, NotAnUpdate
    <2>6. c \in Commands
      BY <1>1, <2>3, <2>5 DEF Commands, UpdatePcs, OtherPcs, Packaging
    <2>7. c.pc = pc /\ c.cmd = proc[p].cmd /\ c.release = proc[p].release
          /\ c.goal = proc[p].goal
      BY <1>1, <2>3 DEF Commands
    <2>8. UpdateFits(c)
      BY <2>5, <2>7 DEF UpdateFits, BeforeBackup
    <2>9. CommandFits(p, c)
      BY <1>1, <2>5, <2>7, <2>8 DEF CommandFits, UpdatePcs, OtherPcs, Packaging
    <2> QED BY <2>4, <2>6, <2>9
  <1>4. CASE proc[p].cmd = "update" /\ To(p, "updated")
    <2>1. "updated" \in UpdatePcs
      BY DEF UpdatePcs
    <2> QED BY <1>1, <1>4, <2>1, ToLater
  <1>5. CASE Done(p, "complete")
    <2>1. "complete" \in HostOutcomes
      BY DEF HostOutcomes
    <2> QED BY <1>5, <2>1, DoneFits
  <1> QED BY <1>2, <1>3, <1>4, <1>5 DEF NextBrowser

\* The script of a browser is there before its manifest names it.
LEMMA WriteScriptStep ==
    ASSUME HostIInv, NEW p \in Processes, WriteScript(p) PROVE HostIInv'
  <1>1. /\ proc[p].pc = "script"
        /\ UNCHANGED <<files, found, schema, pkg, idFile, manifest>>
        /\ proc[p] \in Commands /\ CommandFits(p, proc[p])
    BY CommandFacts DEF WriteScript
  <1>2. CASE NextBrowser(p) /\ UNCHANGED launcher
    <2>1. PICK c \in Commands : proc' = [proc EXCEPT ![p] = c] /\ CommandFits(p, c)
      BY <1>1, <1>2, NextFits
    <2> QED BY <1>1, <1>2, <2>1, CommandFacts, QuietCommand
  <1>3. CASE /\ launcher' = [launcher EXCEPT ![proc[p].at] = proc[p].exe]
             /\ To(p, "manifest")
    <2>1. PICK c : c = [proc[p] EXCEPT !.pc = "manifest"]
      OBVIOUS
    <2>2. c \in Commands /\ proc' = [proc EXCEPT ![p] = c]
      BY <1>1, <1>3, <2>1 DEF Commands, UpdatePcs, To
    <2>3. c.pc = "manifest" /\ c.cmd = proc[p].cmd /\ c.release = proc[p].release
          /\ c.goal = proc[p].goal /\ c.at = proc[p].at
      BY <1>1, <2>1 DEF Commands
    <2>4. proc[p].exe \in Images /\ NoScript \notin Images
      BY <1>1, PathFacts DEF Commands
    <2>5. launcher \in [DOMAIN Browsers -> Images \cup {NoScript}]
          /\ manifest \in [DOMAIN Browsers -> Ids]
      BY DEF HostIInv, HostTypeOK, Ids, Images
    <2>6. /\ launcher' \in [DOMAIN Browsers -> Images \cup {NoScript}]
          /\ \A b \in DOMAIN Browsers : launcher[b] # NoScript => launcher'[b] # NoScript
          /\ c.at \in DOMAIN Browsers => launcher'[c.at] # NoScript
      BY <1>3, <2>3, <2>4, <2>5
    <2>7. ManifestHasScript'
      BY <1>1, <2>6 DEF HostIInv, ManifestHasScript
    <2>8. CommandFits(p, c)'
      BY <1>1, <2>3, <2>6
         DEF CommandFits, UpdateFits, UpdatePcs, OtherPcs, BeforeBackup
    <2>9. manifest' \in [DOMAIN Browsers -> Ids] /\ idFile' \in Ids
          /\ pkg' \in [Packages -> PackageStates]
      BY <1>1, <2>5, CommandFacts
    <2> QED BY <1>1, <2>2, <2>6, <2>7, <2>8, <2>9, OneCommandMoves
  <1> QED BY <1>2, <1>3 DEF WriteScript

LEMMA ManifestStep ==
    ASSUME HostIInv, NEW p \in Processes, WriteManifest(p) \/ Uninstall(p)
    PROVE  HostIInv'
  <1>1. /\ proc[p].pc \in {"manifest", "uninstall"} /\ NextBrowser(p)
        /\ UNCHANGED <<files, found, schema, pkg, idFile, launcher>>
        /\ proc[p] \in Commands /\ CommandFits(p, proc[p])
    BY CommandFacts DEF WriteManifest, Uninstall
  <1>2. PICK id \in Ids : /\ manifest' = [manifest EXCEPT ![proc[p].at] = id]
                          /\ proc[p].pc = "manifest" \/ id = NoId
    BY <1>1, PathFacts DEF WriteManifest, Uninstall, Commands
  <1>3. PICK c \in Commands : proc' = [proc EXCEPT ![p] = c] /\ CommandFits(p, c)
    BY <1>1, NextFits
  <1>4. launcher \in [DOMAIN Browsers -> Images \cup {NoScript}]
        /\ manifest \in [DOMAIN Browsers -> Ids]
    BY DEF HostIInv, HostTypeOK, Ids, Images
  <1>5. manifest' \in [DOMAIN Browsers -> Ids]
    BY <1>2, <1>4
  <1>6. ManifestHasScript'
    <2> SUFFICES ASSUME NEW b \in DOMAIN Browsers, manifest'[b] # NoId
                 PROVE  launcher'[b] # NoScript
      BY DEF ManifestHasScript
    <2>1. CASE b = proc[p].at
      BY <1>1, <1>2, <1>4, <2>1 DEF CommandFits
    <2>2. CASE b # proc[p].at
      BY <1>1, <1>2, <1>4, <2>2 DEF HostIInv, ManifestHasScript
    <2> QED BY <2>1, <2>2
  <1>7. CommandFits(p, c)'
    BY <1>1, <1>3 DEF CommandFits, UpdateFits, OpensStore
  <1>8. /\ idFile' \in Ids
        /\ pkg' \in [Packages -> PackageStates]
        /\ launcher' \in [DOMAIN Browsers -> Images \cup {NoScript}]
        /\ \A b \in DOMAIN Browsers : launcher[b] # NoScript => launcher'[b] # NoScript
    BY <1>1, <1>4, CommandFacts
  <1> QED BY <1>1, <1>3, <1>5, <1>6, <1>7, <1>8, OneCommandMoves

LEMMA DoctorStep ==
    ASSUME HostIInv, NEW p \in Processes, Doctor(p) PROVE HostIInv'
  <1>1. /\ proc[p].cmd # "update"
        /\ UNCHANGED <<files, found, schema, pkg, idFile, manifest, launcher>>
    BY NotAnUpdate DEF Doctor
  <1>2. PICK outcome \in HostOutcomes : Done(p, outcome)
    BY DEF Doctor, HostOutcomes
  <1> QED BY <1>1, <1>2, CommandFacts, EndStep

LEMMA LeastBrowser ==
    ASSUME NEW T \in SUBSET Nat, T # {} PROVE \E x \in T : \A y \in T : x <= y
  <1>1. PICK R : R = OpToRel(<, Nat)
    OBVIOUS
  <1>2. IsWellFoundedOn(R, Nat)
    BY <1>1, NatLessThanWellFounded
  <1>3. \A x, y \in Nat : y < x => <<y, x>> \in R
    BY <1>1 DEF OpToRel
  <1>4. PICK x \in T : \A y \in T : ~ (<<y, x>> \in R)
    BY <1>2, WFMin
  <1>5. ASSUME NEW y \in T PROVE x <= y
    <2>1. x \in Nat /\ y \in Nat
      OBVIOUS
    <2>2. ~(y < x)
      BY <1>3, <1>4, <2>1
    <2> QED BY <2>1, <2>2
  <1> QED BY <1>5

LEMMA RehostStep ==
    ASSUME HostIInv, NEW p \in Processes, Rehost(p) PROVE HostIInv'
  <1>1. /\ proc[p].pc = "rehost" /\ proc[p].cmd = "update"
        /\ UNCHANGED <<files, found, schema, pkg, idFile, manifest, launcher>>
        /\ proc[p] \in Commands
    BY EarlyPcs, CommandFacts DEF Rehost
  <1>3. CASE To(p, "updated")
    <2>1. "updated" \in UpdatePcs
      BY DEF UpdatePcs
    <2> QED BY <1>1, <1>3, <2>1, CommandFacts, LaterStep
  <1>4. CASE /\ ~(idFile = NoId /\ Known = {})
             /\ proc' = [proc EXCEPT ![p].pc = "script", ![p].at = 1,
                  ![p].id = IF idFile # NoId THEN idFile ELSE manifest[FirstKnown]]
    <2>1. PICK id : id = IF idFile # NoId THEN idFile ELSE manifest[FirstKnown]
      OBVIOUS
    <2>2. id \in Ids
      <3>1. CASE idFile # NoId
        BY <2>1, <3>1, CommandFacts
      <3>2. CASE idFile = NoId
        <4>1. Known \in SUBSET Nat /\ Known # {} /\ Known \subseteq DOMAIN Browsers
          BY <1>4, <3>2, PathFacts DEF Known
        <4>2. \E b \in Known : \A c \in Known : b <= c
          BY <4>1, LeastBrowser
        <4>3. FirstKnown \in Known
          BY <4>2 DEF FirstKnown
        <4>4. manifest \in [DOMAIN Browsers -> Ids]
          BY DEF HostIInv, HostTypeOK, Ids
        <4> QED BY <2>1, <3>2, <4>1, <4>3, <4>4
      <3> QED BY <3>1, <3>2
    <2>3. PICK exe \in Images, at \in Nat : exe = proc[p].exe /\ at = 1
      BY <1>1 DEF Commands
    <2>4. [proc[p] EXCEPT !.pc = "script", !.at = at, !.id = id] =
          [proc[p] EXCEPT !.pc = "script", !.id = id, !.exe = exe, !.at = at]
      BY <1>1, <2>3 DEF Commands
    <2>5. proc' = [proc EXCEPT ![p] = [proc[p] EXCEPT !.pc = "script", !.at = at,
                                                      !.id = id]]
      BY <1>4, <2>1, <2>3
    <2>6. proc' = [proc EXCEPT ![p] = [proc[p] EXCEPT !.pc = "script", !.id = id,
                                                      !.exe = exe, !.at = at]]
      BY <2>4, <2>5
    <2>7. idFile' \in Ids /\ proc[p].pc \notin {"idle", "done"}
      BY <1>1, CommandFacts
    <2> QED BY <1>1, <2>2, <2>6, <2>7, ScriptNext
  <1> QED BY <1>3, <1>4 DEF Rehost

-----------------------------------------------------------------------------
(* The theorems                                                            *)

LEMMA HostInitEstablishes == HostInit => HostIInv
  <1> SUFFICES ASSUME HostInit PROVE HostIInv
    OBVIOUS
  <1>1. /\ files = [path \in Paths |-> IF path = Install THEN 1 ELSE NoFile]
        /\ found \in Nat /\ schema = found /\ found \in Schemas
        /\ proc = [p \in Processes |-> NoCommand]
    BY HostConstants DEF HostInit
  <1>2. NoCommand \in Commands
    BY PathFacts DEF NoCommand, Commands, OtherPcs, HostOutcomes
  <1>3. \A p \in Processes : CommandFits(p, proc[p])
    <2>1. NoCommand.pc = "idle" /\ NoCommand.cmd = "none"
      BY DEF NoCommand
    <2> QED BY <1>1, <2>1 DEF CommandFits, OtherPcs
  <1>4. HostTypeOK /\ idFile \in Ids
    <2>1. files \in [Paths -> Releases \cup {NoFile}]
      BY <1>1, PathFacts
    <2>2. /\ pkg \in [Packages -> PackageStates]
          /\ idFile \in Ids
          /\ manifest \in [DOMAIN Browsers -> OtherIds \cup {KeyId, NoId}]
      BY DEF HostInit, Packages, PackageStates, Ids
    <2>3. launcher \in [DOMAIN Browsers -> Paths \cup {Gone, NoScript}]
      BY PathFacts DEF HostInit
    <2> QED BY <2>1, <2>2, <2>3 DEF HostTypeOK
  <1>5. ManifestHasScript
    BY PathFacts DEF HostInit, ManifestHasScript, Images
  <1>6. BinaryKept
    BY <1>1, PathFacts DEF BinaryKept, NoFile
  <1>7. \A path \in Paths : files[path] # NoFile => OpensStore(files[path])
    <2>1. found > 0 => Envelope[1].schema - found <= 2
      BY <1>1, HostConstants
    <2> QED BY <1>1, <2>1 DEF OpensStore
  <1> QED BY <1>1, <1>2, <1>3, <1>4, <1>5, <1>6, <1>7 DEF HostIInv

LEMMA HostStepPreserves ==
    ASSUME \A u, v \in Updaters : u = v, HostIInv, [HostNext]_hostVars
    PROVE  HostIInv'
  <1>1. CASE UNCHANGED hostVars
    BY <1>1 DEF hostVars, HostIInv, HostTypeOK, ManifestHasScript, BinaryKept, CommandFits,
                UpdateFits, OpensStore
  <1>2. CASE HostNext
    <2>1. PICK p \in Processes :
            \/ Start(p) \/ KillProcess(p)
            \/ ResolveTarget(p) \/ ReadInstallMetadata(p) \/ ReadCoreManifest(p)
            \/ ReadChecksums(p) \/ Preflight(p) \/ Confirm(p) \/ Stage(p) \/ Backup(p)
            \/ Replace(p) \/ Rollback(p) \/ Report(p)
            \/ RemoveBackup(p) \/ Rehost(p) \/ Updated(p) \/ OpenLocalStore(p)
            \/ FetchDocuments(p) \/ FetchArchive(p) \/ ClearPackage(p) \/ MovePackage(p)
            \/ PackClear(p) \/ PackCopy(p) \/ Setup(p) \/ Identify(p) \/ BridgeInstall(p)
            \/ WriteScript(p) \/ WriteManifest(p) \/ Doctor(p) \/ Uninstall(p)
      BY <1>2, Zenon DEF HostNext
    <2> QED BY <2>1, StartStep, KillStep, ReadingStep, PreflightStep, BackupStep,
               ReplaceStep, RollbackStep, ReportStep, RemoveBackupStep, RehostStep,
               UpdatedStep, OpenLocalStoreStep, FetchStep, PackStep, SetupStep,
               IdentifyStep, BridgeInstallStep, WriteScriptStep, ManifestStep, DoctorStep
  <1> QED BY <1>1, <1>2

\* The inductive invariant, where the machine has one updater: where the binary
\* of an update is at each of its steps, and that every binary on the disk opens
\* the store that was there.
THEOREM HostIInvHolds ==
    ASSUME \A u, v \in Updaters : u = v PROVE HostSpec => []HostIInv
  <1>1. HostIInv /\ [HostNext]_hostVars => HostIInv'
    BY HostStepPreserves
  <1> QED BY <1>1, HostInitEstablishes, PTL DEF HostSpec

\* What setup, update and uninstall leave on disk: a binary that opens the
\* store, the old one after a blocked update, and a script for each manifest.
THEOREM HostKeepsItsPromises ==
    ASSUME \A u, v \in Updaters : u = v PROVE HostSpec => []HostInv
  <1>1. HostIInv => HostInv
    <2> SUFFICES ASSUME HostIInv PROVE HostInv
      OBVIOUS
    <2>1. InstalledOpensStore
      <3> SUFFICES ASSUME files[Install] # NoFile, found > 0
                   PROVE  Delta(schema, Envelope[files[Install]].schema) # "class_d"
        BY DEF InstalledOpensStore
      <3>1. files[Install] \in Releases /\ OpensStore(files[Install])
        BY PathFacts DEF HostIInv, HostTypeOK
      <3>2. Envelope[files[Install]].schema \in Nat /\ schema \in Nat
        BY <3>1, HostConstants DEF HostIInv
      <3> QED BY <3>1, <3>2, DeltaFacts DEF OpensStore
    <2>2. BlockedUpdateRestores
      BY CommandFacts DEF BlockedUpdateRestores, CommandFits, UpdateFits
    <2> QED BY <2>1, <2>2 DEF HostInv, HostIInv
  <1>2. HostSpec => []HostIInv
    BY HostIInvHolds
  <1> QED BY <1>1, <1>2, PTL

\* Wherever the update is killed and whichever of its renames fails, a binary
\* is left.
THEOREM UpdateKeepsABinary ==
    ASSUME \A u, v \in Updaters : u = v PROVE HostSpec => []BinaryKept
  <1>1. HostIInv => BinaryKept
    BY DEF HostIInv
  <1>2. HostSpec => []HostIInv
    BY HostIInvHolds
  <1> QED BY <1>1, <1>2, PTL

===============================================================================
