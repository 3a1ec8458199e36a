----------------------------- MODULE HostInstall -----------------------------
(* What rr keeps on the machine besides the store: its own binary, which     *)
(* `rr update` replaces in place, the unpacked browser extension, and for    *)
(* each browser the manifest and the launcher script through which it starts *)
(* rr as a native host. All of it is files; the commands that write them are *)
(* processes of their own and take no lock.                                  *)
EXTENDS Integers, Sequences, FiniteSets

CONSTANTS Processes,    \* rr processes
          Updaters,     \* those that may run `rr update`
          Newest,       \* releases are numbered 1..Newest
          Envelope,     \* the store compatibility envelope each release publishes
          Browsers,     \* a sequence: the order in which they are written
          KeyId,        \* the id that follows from the key in the packaged manifest
          OtherIds,     \* ids given with --extension-id
          NoId,
          Schemas,      \* schema versions of the stores found; 0: no store
          MaxCommands, MaxKills   \* bounds

Releases == 1..Newest
Install == 0            \* the path rr is installed at; path v is rr.backup-<v>
Paths == {Install} \cup Releases
Gone == -1              \* a binary that still runs and has no path any more
NoFile == 0
NoScript == -2
Dev == 0                \* the package packed from a workspace; v: the one fetched
Packages == {Dev} \cup Releases

\* Only the directory of the version; a part of the package with its manifest,
\* and one without, which may be an empty directory; the whole.
PackageStates == {"none", "dir", "part", "rest", "whole"}

ASSUME HostConstants ==
    /\ Newest \in Nat \ {0} /\ Updaters \subseteq Processes
    /\ Schemas \subseteq Nat /\ MaxCommands \in Nat /\ MaxKills \in Nat
    /\ KeyId # NoId /\ NoId \notin OtherIds
    /\ Len(Browsers) \in Nat /\ DOMAIN Browsers = 1..Len(Browsers)
    /\ \A v \in Releases : Envelope[v].schema \in Nat
    \* The release that is installed at first opens the store that is found.
    /\ \A s \in Schemas \ {0} : Envelope[1].schema - s <= 2

VARIABLES files,     \* path -> the release of the binary that is there
          found,     \* the schema of the store there was at first; no step changes it
          schema,    \* the schema of the local store
          pkg,       \* package -> one of PackageStates
          idFile,    \* bridge/extension-id
          manifest,  \* browser -> the id its manifest lets in; NoId: no manifest
          launcher,  \* browser -> the path its script runs
          proc,      \* state of each process
          commands, kills

hostVars == <<files, found, schema, pkg, idFile, manifest, launcher, proc, commands, kills>>

NoCommand == [pc |-> "idle", cmd |-> "none", image |-> Install, release |-> 0,
            goal |-> 0, id |-> NoId, exe |-> Install, at |-> 1, outcome |-> "none"]

HostInit ==
    /\ files = [path \in Paths |-> IF path = Install THEN 1 ELSE NoFile]
    /\ found \in Schemas /\ schema = found
    /\ \E setUp \in BOOLEAN :  \* by release 1, before we look
         /\ pkg = [k \in Packages |-> IF setUp /\ k = 1 THEN "whole" ELSE "none"]
         /\ idFile = IF setUp THEN KeyId ELSE NoId
         /\ manifest = [b \in DOMAIN Browsers |-> IF setUp THEN KeyId ELSE NoId]
         /\ launcher = [b \in DOMAIN Browsers |-> IF setUp THEN Install ELSE NoScript]
    /\ proc = [p \in Processes |-> NoCommand]
    /\ commands = 0 /\ kills = 0

To(p, pc) == proc' = [proc EXCEPT ![p].pc = pc]
\* A process that has ended; of an update it is remembered what it was.
Done(p, outcome) ==
    proc' = [proc EXCEPT ![p] =
      IF proc[p].cmd = "update"
      THEN [NoCommand EXCEPT !.pc = "done", !.cmd = "update", !.outcome = outcome,
                           !.release = proc[p].release, !.goal = proc[p].goal]
      ELSE [NoCommand EXCEPT !.pc = "done", !.outcome = outcome]]

\* Any command is run from the install path. `at` is its browser, `id` its
\* --extension-id flag; setup_dev is a setup run in a workspace.
Start(p) ==
    /\ proc[p].pc \in {"idle", "done"} /\ commands < MaxCommands /\ files[Install] # NoFile
    /\ \E cmd \in {"open", "fetch", "setup", "setup_dev", "doctor", "uninstall", "bridge"}
                   \cup (IF p \in Updaters THEN {"update"} ELSE {}),
          goal \in Releases, at \in DOMAIN Browsers, id \in OtherIds \cup {NoId} :
         /\ cmd \notin {"fetch", "update"} => goal = files[Install]
         /\ cmd \notin {"setup", "setup_dev", "doctor"} => at = 1
         /\ cmd \notin {"setup", "setup_dev", "bridge"} => id = NoId
         /\ proc' = [proc EXCEPT ![p] =
              [NoCommand EXCEPT !.pc = cmd, !.cmd = cmd, !.release = files[Install],
                              !.goal = goal, !.id = id, !.at = at]]
    /\ commands' = commands + 1
    /\ UNCHANGED <<files, found, schema, pkg, idFile, manifest, launcher, kills>>

----------------------------------------------------------------------------
(* rr update                                                                 *)

\* store_migration_class_label.
Delta(from, to) ==
    CASE to - from <= 1 -> "class_a" [] to - from = 2 -> "class_b" [] OTHER -> "class_d"

\* Mutant: the ceiling that the release publishes is taken for the class.
AssessCeiling(current, env, own) ==
    /\ env.format = own.format
    /\ \/ current = env.schema
       \/ /\ current \in env.min..(env.schema - 1) /\ current >= env.auto
          /\ env.policy = "auto_safe" /\ env.ceiling \in {"class_a", "class_b"}

\* assess_migration_preflight: may release `env` be installed over this store?
Assess(current, env, own) ==
    /\ env.format = own.format
    /\ \/ current = env.schema
       \/ /\ current \in env.min..(env.schema - 1) /\ current >= env.auto
          /\ env.policy = "auto_safe" /\ env.ceiling \in {"class_a", "class_b"}
          /\ Delta(current, env.schema) \in {"class_a", env.ceiling}

Block(p, here) ==
    /\ proc[p].pc = here /\ Done(p, "blocked")
    /\ UNCHANGED <<files, found, schema, pkg, idFile, manifest, launcher, commands, kills>>

\* A step that only reads, and that blocks the command when what it reads is
\* missing or does not agree with what was read before.
Check(p, here, next) ==
    /\ proc[p].pc = here
    /\ To(p, next) \/ Done(p, "blocked")
    /\ UNCHANGED <<files, found, schema, pkg, idFile, manifest, launcher, commands, kills>>

\* The platform and the version: --version, or the newest tag of the channel.
ResolveTarget(p) == Check(p, "update", "metadata")
\* release-install-metadata: its schema, version, tag, and one entry for the platform.
ReadInstallMetadata(p) == Check(p, "metadata", "core_manifest")
\* The core manifest must name the same archive, digest, directory and binary.
ReadCoreManifest(p) == Check(p, "core_manifest", "checksums")
\* So must SHA256SUMS, under its own or its legacy name.
ReadChecksums(p) == Check(p, "checksums", "preflight")

\* Without a store there is nothing to migrate. A dry run ends here.
Preflight(p) ==
    LET env == Envelope[proc[p].goal]
        current == IF schema = 0 THEN env.schema ELSE schema IN
    /\ proc[p].pc = "preflight"
    /\ \/ Done(p, "blocked")
       \/ proc[p].goal = proc[p].release /\ Done(p, "empty")
       \/ proc[p].goal # proc[p].release /\ Done(p, "complete")
       \/ /\ proc[p].goal # proc[p].release
          /\ Assess(current, env, Envelope[proc[p].release])
          /\ To(p, "prompt")
    /\ UNCHANGED <<files, found, schema, pkg, idFile, manifest, launcher, commands, kills>>

\* --yes, or an answer at a terminal; a binary that was moved meanwhile has not
\* the name of a release binary.
Confirm(p) == IF proc[p].image = Install THEN Check(p, "prompt", "stage") ELSE Block(p, "prompt")

\* The archive is fetched, compared with its digest and unpacked into a
\* temporary directory; a backup of that name must not be there.
Stage(p) == IF files[proc[p].goal] = NoFile THEN Check(p, "stage", "backup") ELSE Block(p, "stage")

\* fs::rename: it replaces what is there, and processes go where their file goes.
Rename(from, to) ==
    files' = [files EXCEPT ![to] = files[from], ![from] = NoFile]
Moved(q, from, to) ==
    IF proc[q].pc \in {"idle", "done"} THEN Install
    ELSE IF proc[q].image = from THEN to
    ELSE IF proc[q].image = to THEN Gone
    ELSE proc[q].image
RenameAnd(p, from, to, pc) ==
    /\ files[from] # NoFile /\ Rename(from, to)
    /\ proc' = [q \in Processes |->
         [proc[q] EXCEPT !.image = Moved(q, from, to), !.pc = IF q = p THEN pc ELSE @]]

Backup(p) ==
    /\ proc[p].pc = "backup"
    /\ \/ RenameAnd(p, Install, proc[p].goal, "replace")
       \/ Done(p, "blocked") /\ UNCHANGED files
    /\ UNCHANGED <<found, schema, pkg, idFile, manifest, launcher, commands, kills>>

\* Mutant: the backup is removed first.
ReplaceUnbacked(p) ==
    /\ proc[p].pc = "replace"
    /\ \/ /\ files' = [files EXCEPT ![proc[p].goal] = NoFile]
          /\ To(p, "remove")
       \/ To(p, "rollback") /\ UNCHANGED files
    /\ UNCHANGED <<found, schema, pkg, idFile, manifest, launcher, commands, kills>>

\* The staged binary is renamed to the install path, which fails if the
\* temporary directory is on another file system.
Replace(p) ==
    /\ proc[p].pc = "replace"
    /\ \/ /\ files' = [files EXCEPT ![Install] = proc[p].goal]
          /\ To(p, "remove")
       \/ To(p, "rollback") /\ UNCHANGED files
    /\ UNCHANGED <<found, schema, pkg, idFile, manifest, launcher, commands, kills>>

Rollback(p) ==
    /\ proc[p].pc = "rollback"
    /\ \/ RenameAnd(p, proc[p].goal, Install, "blocked")
       \/ To(p, "stranded") /\ UNCHANGED files
    /\ UNCHANGED <<found, schema, pkg, idFile, manifest, launcher, commands, kills>>

Report(p) ==
    /\ proc[p].pc \in {"blocked", "stranded"} /\ Done(p, proc[p].pc)
    /\ UNCHANGED <<files, found, schema, pkg, idFile, manifest, launcher, commands, kills>>

\* extension_integration_ever_configured.
Configured == idFile # NoId \/ \E v \in Releases : pkg[v] # "none"

\* The backup goes (a failure is ignored), then the browsers are refreshed if
\* they were ever set up.
RemoveBackup(p) ==
    LET gone == files[proc[p].goal] # NoFile IN
    /\ proc[p].pc = "remove"
    /\ \/ files' = [files EXCEPT ![proc[p].goal] = NoFile]
       \/ UNCHANGED files
    /\ proc' = [q \in Processes |->
         [proc[q] EXCEPT
            !.image = IF @ = proc[p].goal /\ gone /\ files' # files THEN Gone ELSE @,
            !.exe = IF q = p THEN Install ELSE @,
            !.pc = IF q # p THEN @ ELSE IF Configured THEN "fetch" ELSE "updated"]]
    /\ UNCHANGED <<found, schema, pkg, idFile, manifest, launcher, commands, kills>>

\* The browsers that have a manifest, and the first of them.
Known == {b \in DOMAIN Browsers : manifest[b] # NoId}
FirstKnown == CHOOSE b \in Known : \A c \in Known : b <= c

\* refresh_extension_after_update: the id on file, else the one of the first
\* manifest there is; without an id the hosts stay as they are.
Rehost(p) ==
    /\ proc[p].pc = "rehost"
    /\ IF idFile = NoId /\ Known = {} THEN To(p, "updated")
       ELSE proc' = [proc EXCEPT ![p].pc = "script", ![p].at = 1,
              ![p].id = IF idFile # NoId THEN idFile ELSE manifest[FirstKnown]]
    /\ UNCHANGED <<files, found, schema, pkg, idFile, manifest, launcher, commands, kills>>

Updated(p) ==
    /\ proc[p].pc = "updated" /\ Done(p, "complete")
    /\ UNCHANGED <<files, found, schema, pkg, idFile, manifest, launcher, commands, kills>>

\* Any other command opens the store, which brings it to the schema of the
\* binary, and is refused when that is too far away (StoreUpgrade).
OpenLocalStore(p) ==
    LET own == Envelope[proc[p].release].schema IN
    /\ proc[p].pc = "open"
    /\ IF schema > 0 /\ Delta(schema, own) = "class_d"
       THEN Done(p, "blocked") /\ UNCHANGED schema
       ELSE Done(p, "complete") /\ schema' = IF schema < own THEN own ELSE schema
    /\ UNCHANGED <<files, found, pkg, idFile, manifest, launcher, commands, kills>>

----------------------------------------------------------------------------
(* rr extension, rr bridge                                                   *)

AfterFetch(p, outcome) == IF proc[p].cmd = "update" THEN To(p, "rehost") ELSE Done(p, outcome)

\* fetch_and_install_extension_package_core. The documents must agree before
\* anything is on disk; a failure leaves the directory of the version.
FetchDocuments(p) ==
    LET v == proc[p].goal IN
    /\ proc[p].pc = "fetch"
    /\ \/ AfterFetch(p, "blocked") /\ UNCHANGED pkg
       \/ /\ pkg' = [pkg EXCEPT ![v] = IF @ = "none" THEN "dir" ELSE @]
          /\ To(p, "fetch_archive")
    /\ UNCHANGED <<files, found, schema, idFile, manifest, launcher, commands, kills>>

\* The archive is verified, unpacked and inspected in a directory of its own.
FetchArchive(p) ==
    /\ proc[p].pc = "fetch_archive"
    /\ AfterFetch(p, "blocked") \/ To(p, "clear_package")
    /\ UNCHANGED <<files, found, schema, pkg, idFile, manifest, launcher, commands, kills>>

\* What may be left of a package when more of its files are gone.
LeftOf(state) ==
    CASE state = "whole" -> {"part", "rest", "dir"}
      [] state = "part" -> {"rest", "dir"}
      [] state = "rest" -> {"dir"}
      [] OTHER -> {}

\* remove_dir_all, if there is a package: file after file, and it may fail at
\* any of them.
ClearPackage(p) ==
    LET v == proc[p].goal IN
    /\ proc[p].pc = "clear_package"
    /\ \/ \E left \in LeftOf(pkg[v]) :
             /\ pkg' = [pkg EXCEPT ![v] = left]
             /\ To(p, IF left = "dir" THEN "move_package" ELSE "clear_package")
       \/ LeftOf(pkg[v]) = {} /\ To(p, "move_package") /\ UNCHANGED pkg
       \/ AfterFetch(p, "error") /\ UNCHANGED pkg
    /\ UNCHANGED <<files, found, schema, idFile, manifest, launcher, commands, kills>>

\* The rename fails on files that another fetch has put there, or for a reason
\* of its own; a record of the fetch that cannot be written fails the command
\* after the fact.
MovePackage(p) ==
    LET v == proc[p].goal IN
    /\ proc[p].pc = "move_package"
    /\ \/ /\ pkg[v] \in {"dir", "rest"}
          /\ pkg' = [pkg EXCEPT ![v] = "whole"]
          /\ AfterFetch(p, "complete") \/ AfterFetch(p, "error")
       \/ AfterFetch(p, "error") /\ UNCHANGED pkg
    /\ UNCHANGED <<files, found, schema, idFile, manifest, launcher, commands, kills>>

\* rr bridge pack-extension, in place.
PackClear(p) ==
    /\ proc[p].pc = "setup_dev"
    /\ pkg' = [pkg EXCEPT ![Dev] = "part"]
    /\ To(p, "packing")
    /\ UNCHANGED <<files, found, schema, idFile, manifest, launcher, commands, kills>>

PackCopy(p) ==
    /\ proc[p].pc = "packing"
    /\ \/ pkg' = [pkg EXCEPT ![Dev] = "whole"] /\ To(p, "identify")
       \/ Done(p, "error") /\ UNCHANGED pkg
    /\ UNCHANGED <<files, found, schema, idFile, manifest, launcher, commands, kills>>

\* resolve_installed_extension_package_dir: the release of this binary, else the
\* newest that was fetched. Of a package only its manifest is looked for, so
\* what a fetch has half removed is used.
Usable == {v \in Releases : pkg[v] \in {"part", "whole"}}

Setup(p) ==
    /\ proc[p].pc = "setup"
    /\ IF Usable = {} THEN Done(p, "blocked") ELSE To(p, "identify")
    /\ UNCHANGED <<files, found, schema, pkg, idFile, manifest, launcher, commands, kills>>

\* The flag, the profile of the browser, or after the wait the key in the
\* package; with no wait and no profile, setup asks for a browser load first.
Identify(p) ==
    LET id == IF proc[p].id # NoId THEN proc[p].id ELSE KeyId IN
    /\ proc[p].pc = "identify"
    /\ \/ /\ idFile' = id
          /\ proc' = [proc EXCEPT ![p].pc = "script", ![p].id = id, ![p].exe = proc[p].image]
       \/ proc[p].id = NoId /\ Done(p, "blocked") /\ UNCHANGED idFile
    /\ UNCHANGED <<files, found, schema, pkg, manifest, launcher, commands, kills>>

\* rr bridge install: the flag or the id on file, and a binary that is there.
BridgeInstall(p) ==
    LET id == IF proc[p].id # NoId THEN proc[p].id ELSE idFile IN
    /\ proc[p].pc = "bridge"
    /\ IF id = NoId \/ proc[p].image = Gone THEN Done(p, "blocked")
       ELSE proc' = [proc EXCEPT ![p].pc = "script", ![p].id = id, ![p].exe = proc[p].image]
    /\ UNCHANGED <<files, found, schema, pkg, idFile, manifest, launcher, commands, kills>>

\* A command that is done with a browser: setup has one, the others go on.
NextBrowser(p) ==
    IF proc[p].cmd \in {"setup", "setup_dev"} THEN To(p, "doctor")
    ELSE IF proc[p].at < Len(Browsers)
    THEN proc' = [proc EXCEPT ![p].at = @ + 1, ![p].pc = IF @ = "uninstall" THEN @ ELSE "script"]
    ELSE IF proc[p].cmd = "update" THEN To(p, "updated") ELSE Done(p, "complete")

\* The script comes first. An update skips the browsers without a manifest.
WriteScript(p) ==
    LET b == proc[p].at IN
    /\ proc[p].pc = "script"
    /\ IF proc[p].cmd = "update" /\ manifest[b] = NoId
       THEN NextBrowser(p) /\ UNCHANGED launcher
       ELSE launcher' = [launcher EXCEPT ![b] = proc[p].exe] /\ To(p, "manifest")
    /\ UNCHANGED <<files, found, schema, pkg, idFile, manifest, commands, kills>>

WriteManifest(p) ==
    /\ proc[p].pc = "manifest"
    /\ manifest' = [manifest EXCEPT ![proc[p].at] = proc[p].id]
    /\ NextBrowser(p)
    /\ UNCHANGED <<files, found, schema, pkg, idFile, launcher, commands, kills>>

\* rr extension doctor: there is a package, a manifest for the id and the
\* script it names; what the script runs is not looked at.
Doctor(p) ==
    LET b == proc[p].at
        id == IF proc[p].id # NoId THEN proc[p].id ELSE KeyId
        package == IF proc[p].cmd = "setup_dev" THEN pkg[Dev] \in {"part", "whole"} ELSE Usable # {} IN
    /\ proc[p].pc = "doctor"
    /\ Done(p, IF package /\ manifest[b] = id /\ launcher[b] # NoScript THEN "complete" ELSE "blocked")
    /\ UNCHANGED <<files, found, schema, pkg, idFile, manifest, launcher, commands, kills>>

\* Only the manifests are removed.
Uninstall(p) ==
    /\ proc[p].pc = "uninstall"
    /\ manifest' = [manifest EXCEPT ![proc[p].at] = NoId]
    /\ NextBrowser(p)
    /\ UNCHANGED <<files, found, schema, pkg, idFile, launcher, commands, kills>>

KillProcess(p) ==
    /\ kills < MaxKills /\ proc[p].pc \notin {"idle", "done"}
    /\ kills' = kills + 1 /\ Done(p, "killed")
    /\ UNCHANGED <<files, found, schema, pkg, idFile, manifest, launcher, commands>>

HostNext == \E p \in Processes :
    \/ Start(p) \/ KillProcess(p)
    \/ ResolveTarget(p) \/ ReadInstallMetadata(p) \/ ReadCoreManifest(p) \/ ReadChecksums(p)
    \/ Preflight(p) \/ Confirm(p) \/ Stage(p) \/ Backup(p) \/ Replace(p) \/ Rollback(p) \/ Report(p)
    \/ RemoveBackup(p) \/ Rehost(p) \/ Updated(p) \/ OpenLocalStore(p)
    \/ FetchDocuments(p) \/ FetchArchive(p) \/ ClearPackage(p) \/ MovePackage(p) \/ PackClear(p) \/ PackCopy(p)
    \/ Setup(p) \/ Identify(p) \/ BridgeInstall(p)
    \/ WriteScript(p) \/ WriteManifest(p) \/ Doctor(p) \/ Uninstall(p)

HostSpec == HostInit /\ [][HostNext]_hostVars
----------------------------------------------------------------------------
(* Properties                                                                *)

HostTypeOK ==
    /\ files \in [Paths -> Releases \cup {NoFile}]
    /\ pkg \in [Packages -> PackageStates]
    /\ manifest \in [DOMAIN Browsers -> OtherIds \cup {KeyId, NoId}]
    /\ launcher \in [DOMAIN Browsers -> Paths \cup {Gone, NoScript}]

\* Whatever releases follow one another, and however few of them ever open the
\* store, the binary an update leaves behind is never one that refuses a store
\* that was there. (One that is made while the update waits at its prompt it
\* may refuse.)
InstalledOpensStore ==
    files[Install] # NoFile /\ found > 0 => Delta(schema, Envelope[files[Install]].schema) # "class_d"

\* "rename-with-backup replacement": wherever the update is killed and whichever
\* of its renames fails, a binary is left, at the install path or as a backup.
BinaryKept == \E path \in Paths : files[path] # NoFile

\* "immediate rollback restore on replacement failure": an update that reports
\* itself blocked has left the binary that was there; if the rollback fails too,
\* that binary is the backup.
BlockedUpdateRestores ==
    \A p \in Processes : proc[p].cmd = "update" /\ proc[p].pc = "done" =>
      /\ proc[p].outcome = "blocked" => files[Install] = proc[p].release
      /\ proc[p].outcome = "stranded" => files[proc[p].goal] = proc[p].release

\* A browser that finds a manifest finds the script it names, whichever of
\* setup, bridge install, refresh and uninstall run at once or are killed.
ManifestHasScript ==
    \A b \in DOMAIN Browsers : manifest[b] # NoId => launcher[b] # NoScript

\* What setup, update and uninstall leave on disk, whatever runs at once and is
\* killed.
HostInv ==
    /\ HostTypeOK
    /\ InstalledOpensStore
    /\ BlockedUpdateRestores
    /\ ManifestHasScript

=============================================================================
