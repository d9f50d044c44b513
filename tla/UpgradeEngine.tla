--------------------------- MODULE UpgradeEngine ---------------------------
(***************************************************************************)
(* The upgrade and the rollback of one host: the drivers of                 *)
(* bins/o3k/src/upgrade/engine.rs, the durable state of state.rs and        *)
(* backup.rs, and the host operations of runner.rs.                         *)
(*                                                                          *)
(* An invocation runs a list of steps.  The phase is written to the state   *)
(* file before the steps of that phase; an invocation may die between any   *)
(* two steps, alone or with the host, and the operator runs the command     *)
(* again.  Invocations follow one another: the lock file is not modelled.   *)
(* A backup, once complete, stays intact.                                   *)
(***************************************************************************)
EXTENDS Naturals, Sequences, FiniteSets

CONSTANTS
    MaxRelease,   \* releases are 1..MaxRelease, in the order of their versions
    Schema,       \* the schema version each release's o3kd migrates to
    MaxAttempts,  \* bound: how many upgrades are begun
    MaxChain,     \* bound: the length of the rollback chain
    MaxFaults     \* bound: how many steps fail and invocations die

Releases == 1..MaxRelease

ASSUME ReleasesAssumption == MaxRelease \in Nat \ {0}
ASSUME SchemaAssumption ==
    /\ Schema \in [Releases -> Nat \ {0}]
    /\ \A r, s \in Releases : r <= s => Schema[r] <= Schema[s]
ASSUME BoundsAssumption == MaxAttempts \in Nat /\ MaxChain \in Nat /\ MaxFaults \in Nat

\* The names are identifiers: o3k_compute is o3k-compute, and release_manifest
\* is release-manifest.json.
Units == {"o3kd", "o3k_compute"}
BINARIES == Units \cup {"o3k"}
Files == BINARIES \cup {"release_manifest", "SHA256SUMS"}

\* The order in which both switch_binaries and rollback_to_backup replace them.
Install == <<"o3kd", "o3k", "o3k_compute", "release_manifest", "SHA256SUMS">>

VARIABLES
    files,        \* the release each installed file comes from
    unit,         \* the systemd unit of each service, and the release it runs
    schema,       \* the schema version of the control-plane database
    disk,         \* the state file
    backups,      \* the complete backups; the position is the backup's identity
    chain,        \* backup-chain.json
    run,          \* the invocation in progress
    interrupted,  \* history: an automatic rollback of this attempt was cut off
    attempts,     \* how many upgrades were begun
    faults        \* how many faults have happened

host == <<files, unit, schema>>
vars == <<files, unit, schema, disk, backups, chain, run, interrupted, attempts, faults>>

NoState == [phase |-> "None", source |-> 0, target |-> 0, backup |-> 0]
Idle == [cmd |-> "none", phase |-> "None", todo |-> <<>>, undo |-> FALSE, backup |-> 0]

Active(r) == [is |-> "active", of |-> r]
Inactive == [is |-> "inactive", of |-> 0]
Failed == [is |-> "failed", of |-> 0]

\* A host that runs release r and nothing else.
HostIs(r) ==
    /\ files = [f \in Files |-> r]
    /\ unit = [u \in Units |-> Active(r)]
    /\ schema = Schema[r]

Init ==
    /\ files = [f \in Files |-> 1]
    /\ unit = [u \in Units |-> Active(1)]
    /\ schema = Schema[1]
    /\ disk = NoState
    /\ backups = <<>>
    /\ chain = <<>>
    /\ run = Idle
    /\ interrupted = FALSE
    /\ attempts = 0
    /\ faults = 0

-----------------------------------------------------------------------------
(***************************************************************************)
(* The phases, in order, and the steps of each.                             *)
(***************************************************************************)
Phases == <<"Discovered", "ReleaseDownloaded", "ReleaseVerified", "PreflightPassed",
            "BackupCreated", "ServicesStopped", "BinariesInstalled", "MigrationsApplied",
            "ServicesStarted", "HealthVerified", "DoctorPassed", "Committed",
            "FailedUpgrade", "RolledBack">>

Order(p) == CHOOSE i \in DOMAIN Phases : Phases[i] = p
NextPhase(p) == Phases[Order(p) + 1]
Terminal(p) == p \in {"FailedUpgrade", "RolledBack"}

Unmutated == {"ReleaseDownloaded", "ReleaseVerified", "PreflightPassed", "BackupCreated"}

\* Mutant: a state is taken up again only once services were started.
Resumable_Late(p) == p # "None" /\ Order(p) >= Order("ServicesStarted") /\ ~Terminal(p)

Resumable(p) == p # "None" /\ Order(p) >= Order("BackupCreated") /\ ~Terminal(p)

Steps(p, backup) ==
    CASE p = "ReleaseDownloaded" -> <<"download">>
      [] p = "PreflightPassed" -> <<"preflight">>
      [] p = "BackupCreated" -> IF backup = 0 THEN <<"backup">> ELSE <<>>
      [] p = "ServicesStopped" -> <<"stop_compute", "stop_o3kd">>
      [] p = "BinariesInstalled" -> Install
      [] p = "MigrationsApplied" -> <<"start_o3kd", "schema">>
      [] p = "ServicesStarted" -> <<"start_compute">>
      [] p = "HealthVerified" -> <<"api">>
      [] p = "DoctorPassed" -> <<"doctor">>
      [] p = "Committed" -> <<"commit", "clear">>
      [] OTHER -> <<>>

\* rollback_to_backup.
Undo == <<"stop_compute", "stop_o3kd">> \o Install \o
        <<"database", "start_o3kd", "start_compute", "doctor", "api">>

\* The latest record of a backup, one that was rolled back to included.
latest_eligible_backup ==
    LET B == {i \in DOMAIN chain : chain[i].kind = "Backup"}
    IN  IF B = {} THEN 0 ELSE chain[CHOOSE i \in B : \A j \in B : i >= j].id

Selected == IF disk.backup # 0 THEN disk.backup ELSE latest_eligible_backup

\* A record is dropped when the first one of its backup has its kind.
Appended(id, kind) ==
    LET S == {i \in DOMAIN chain : chain[i].id = id}
    IN  IF S # {} /\ chain[CHOOSE i \in S : \A j \in S : i <= j].kind = kind THEN chain
        ELSE Append(chain, [id |-> id, kind |-> kind])

-----------------------------------------------------------------------------
(***************************************************************************)
(* An invocation begins.                                                    *)
(***************************************************************************)
Begin(cmd, phase, todo, undo, backup) ==
    run' = [cmd |-> cmd, phase |-> phase, todo |-> todo, undo |-> undo, backup |-> backup]

\* The fence: the target is newer than what the release manifest says.
discover(target) ==
    /\ run = Idle
    /\ ~Resumable(disk.phase) /\ ~Terminal(disk.phase)
    /\ target > files["release_manifest"]
    /\ attempts < MaxAttempts
    /\ attempts' = attempts + 1
    /\ disk' = [phase |-> "Discovered", source |-> files["release_manifest"],
                target |-> target, backup |-> 0]
    /\ Begin("upgrade", "ReleaseDownloaded", Steps("ReleaseDownloaded", 0), FALSE, 0)
    /\ UNCHANGED <<files, unit, schema, backups, chain, interrupted, faults>>

\* Mutant: a resumed attempt takes the recorded phase for a finished one.
Resume_Next ==
    /\ run = Idle
    /\ Resumable(disk.phase)
    /\ LET p == IF disk.phase = "Committed" \/ disk.backup = 0 THEN disk.phase ELSE NextPhase(disk.phase)
       IN  Begin("upgrade", p,
                 (IF p = "Committed" THEN <<>> ELSE <<"redownload">>) \o Steps(p, disk.backup),
                 FALSE, disk.backup)
    /\ UNCHANGED <<files, unit, schema, disk, backups, chain, interrupted, attempts, faults>>

Resume ==
    /\ run = Idle
    /\ Resumable(disk.phase)
    /\ Begin("upgrade", disk.phase,
             (IF disk.phase = "Committed" THEN <<>> ELSE <<"redownload">>)
                 \o Steps(disk.phase, disk.backup),
             FALSE, disk.backup)
    /\ UNCHANGED <<files, unit, schema, disk, backups, chain, interrupted, attempts, faults>>

run_rollback ==
    /\ run = Idle
    /\ Selected # 0
    /\ disk = NoState => Len(chain) < MaxChain
    /\ disk' = IF disk # NoState THEN [disk EXCEPT !.phase = "RolledBack"]
               ELSE [phase |-> "RolledBack", source |-> backups[Selected].source,
                     target |-> backups[Selected].target, backup |-> Selected]
    /\ Begin("rollback", "RolledBack", Undo \o <<"record", "clear">>, TRUE, Selected)
    /\ UNCHANGED <<files, unit, schema, backups, chain, interrupted, attempts, faults>>

-----------------------------------------------------------------------------
(***************************************************************************)
(* The steps: when one succeeds, and what it does to the host.              *)
(***************************************************************************)
Consistent == \A b \in BINARIES : files[b] = files["SHA256SUMS"]
Healthy == Consistent /\ \A u \in Units : unit[u].is = "active"

\* validate_bundle_upgrade_fence with resume_source: the target may already be
\* installed only by the attempt that is being resumed.
\* Mutant: only an attempt that has started services may find it installed.
FenceAllows_Late ==
    \/ files["release_manifest"] < disk.target
    \/ /\ files["release_manifest"] = disk.target
       /\ disk.phase \in {"ServicesStarted", "HealthVerified", "DoctorPassed"}

FenceAllows ==
    \/ files["release_manifest"] < disk.target
    \/ /\ files["release_manifest"] = disk.target
       /\ disk.phase \in {"BinariesInstalled", "MigrationsApplied", "ServicesStarted",
                          "HealthVerified", "DoctorPassed"}

\* o3kd opens its store before anything else: SqliteStore::open runs the migrations it
\* was built with, and they refuse a database that has applied ones they do not know.
CanStart(u) == u = "o3kd" => Schema[files["o3kd"]] >= schema

Wanted(f) == IF run.undo THEN backups[run.backup].files[f] ELSE disk.target

Succeeds(s) ==
    CASE s \in {"download", "redownload"} -> FenceAllows
      [] s = "preflight" -> Healthy
      [] s = "stop_o3kd" -> unit["o3kd"].is # "failed"
      [] s = "stop_compute" -> unit["o3k_compute"].is # "failed"
      [] s \in Files -> unit["o3kd"].is # "active"
      [] s = "start_o3kd" -> unit["o3kd"].is = "active" \/ CanStart("o3kd")
      [] s = "schema" -> schema = Schema[disk.target]
      [] s = "api" -> unit["o3kd"].is = "active"
      [] s = "doctor" -> Healthy
      [] OTHER -> TRUE

Stopped(u) == IF unit[u].is = "failed" THEN unit ELSE [unit EXCEPT ![u] = Inactive]

Started(u) ==
    IF unit[u].is = "active" THEN unit
    ELSE [unit EXCEPT ![u] = IF CanStart(u) THEN Active(files[u]) ELSE Failed]

Migrated == IF unit["o3kd"].is # "active" /\ CanStart("o3kd") THEN Schema[files["o3kd"]] ELSE schema

\* Mutant: a database that needs no restore is emptied all the same.
Restored_Emptied == IF backups[run.backup].restore THEN backups[run.backup].schema ELSE 0

Restored == IF backups[run.backup].restore THEN backups[run.backup].schema ELSE schema

Effect(s) ==
    /\ unit' = CASE s = "stop_o3kd" -> Stopped("o3kd")
                 [] s = "stop_compute" -> Stopped("o3k_compute")
                 [] s = "start_o3kd" -> Started("o3kd")
                 [] s = "start_compute" -> Started("o3k_compute")
                 [] OTHER -> unit
    /\ schema' = CASE s = "start_o3kd" -> Migrated
                   [] s = "database" -> Restored
                   [] OTHER -> schema
    /\ files' = IF s \in Files THEN [files EXCEPT ![s] = Wanted(s)] ELSE files

\* create_backup.
Snapshot == [source |-> disk.source, target |-> disk.target, files |-> files,
             schema |-> schema, restore |-> schema # Schema[disk.target]]

Step(s) ==
    /\ run.todo # <<>> /\ Head(run.todo) = s
    /\ s # "clear"
    /\ Succeeds(s)
    /\ Effect(s)
    /\ backups' = IF s = "backup" THEN Append(backups, Snapshot) ELSE backups
    /\ chain' = CASE s = "commit" -> Appended(run.backup, "Backup")
                  [] s = "record" -> Appended(run.backup, "Rollback")
                  [] OTHER -> chain
    /\ run' = [run EXCEPT !.todo = Tail(@),
                          !.backup = IF s = "backup" THEN Len(backups) + 1 ELSE @]
    /\ UNCHANGED <<disk, interrupted, attempts, faults>>

\* Mutant: the backup is not recorded with the phase.
Advance_Unanchored ==
    /\ run.cmd = "upgrade" /\ ~run.undo
    /\ run.todo = <<>>
    /\ LET p == NextPhase(run.phase)
       IN  /\ disk' = [disk EXCEPT !.phase = p]
           /\ run' = [run EXCEPT !.phase = p, !.todo = Steps(p, run.backup)]
    /\ UNCHANGED <<files, unit, schema, backups, chain, interrupted, attempts, faults>>

\* The steps of a phase are done: the next phase is recorded, then begun.
Advance ==
    /\ run.cmd = "upgrade" /\ ~run.undo
    /\ run.todo = <<>>
    /\ LET p == NextPhase(run.phase)
       IN  /\ disk' = [disk EXCEPT !.phase = p, !.backup = run.backup]
           /\ run' = [run EXCEPT !.phase = p, !.todo = Steps(p, run.backup)]
    /\ UNCHANGED <<files, unit, schema, backups, chain, interrupted, attempts, faults>>

\* The state file is removed: at the end of a commit or of a rollback, and
\* when an automatic rollback has restored the host.
Clear ==
    /\ \/ run.todo = <<"clear">>
       \/ run.cmd = "upgrade" /\ run.undo /\ run.todo = <<>>
    /\ disk' = NoState
    /\ run' = Idle
    /\ interrupted' = FALSE
    /\ UNCHANGED <<files, unit, schema, backups, chain, attempts, faults>>

\* What the drivers do when step s fails.
AfterFailure(s) ==
    CASE run.undo /\ s \notin {"record", "clear"} ->
            disk' = [disk EXCEPT !.phase = "FailedUpgrade"] /\ run' = Idle
      [] ~run.undo /\ s # "redownload" /\ run.phase \in Unmutated ->
            disk' = NoState /\ run' = Idle
      [] ~run.undo /\ s # "redownload" /\ run.phase \notin Unmutated \cup {"ServicesStopped", "Committed"} ->
            run' = [run EXCEPT !.undo = TRUE, !.todo = Undo] /\ UNCHANGED disk
      [] OTHER -> run' = Idle /\ UNCHANGED disk

\* A step cannot succeed in the state of the host.
StepRefused(s) ==
    /\ run.todo # <<>> /\ Head(run.todo) = s
    /\ ~Succeeds(s)
    /\ Effect(IF s \in Files THEN "api" ELSE s)
    /\ AfterFailure(s)
    /\ UNCHANGED <<backups, chain, interrupted, attempts, faults>>

-----------------------------------------------------------------------------
(***************************************************************************)
(* Faults.                                                                  *)
(***************************************************************************)
Fault == faults < MaxFaults /\ faults' = faults + 1

\* A step fails: without any effect, after its effect (a timeout), or because
\* the unit it starts gives up.
StepFails(s) ==
    /\ run.todo # <<>> /\ Head(run.todo) = s
    /\ Succeeds(s)
    /\ Fault
    /\ \/ UNCHANGED host
       \/ Effect(s)
       \/ \E u \in Units :
            /\ s = IF u = "o3kd" THEN "start_o3kd" ELSE "start_compute"
            /\ unit[u].is # "active"
            /\ unit' = [unit EXCEPT ![u] = Failed]
            /\ UNCHANGED <<files, schema>>
    /\ AfterFailure(s)
    /\ UNCHANGED <<backups, chain, interrupted, attempts>>

Died ==
    /\ run' = Idle
    /\ interrupted' = (interrupted \/ (run.cmd = "upgrade" /\ run.undo))
    /\ UNCHANGED <<files, disk, backups, chain, attempts>>

\* The invocation is killed, or fails to write the state file.
Crash ==
    /\ run # Idle
    /\ Fault
    /\ Died
    /\ UNCHANGED <<unit, schema>>

\* The host goes down and boots: both units are enabled.
Reboot ==
    /\ Fault
    /\ Died
    /\ unit' = [u \in Units |-> IF CanStart(u) THEN Active(files[u]) ELSE Failed]
    /\ schema' = IF CanStart("o3kd") THEN Schema[files["o3kd"]] ELSE schema

-----------------------------------------------------------------------------
AllSteps == Files \cup {"download", "redownload", "preflight", "backup", "stop_o3kd",
                        "stop_compute", "start_o3kd", "start_compute", "schema",
                        "database", "api", "doctor", "commit", "record", "clear"}

Proceed == (\E s \in AllSteps : Step(s) \/ StepRefused(s)) \/ Advance \/ Clear

\* The operator does what the last invocation told them to do.
Recover == Resume \/ (Terminal(disk.phase) /\ run_rollback)

Next ==
    \/ \E r \in Releases : discover(r)
    \/ Resume
    \/ run_rollback
    \/ Proceed
    \/ \E s \in AllSteps : StepFails(s)
    \/ Crash
    \/ Reboot

Spec == Init /\ [][Next]_vars

\* A running invocation goes on, and an operator whose upgrade or rollback
\* was left unfinished eventually runs the command they were told to run.
FairSpec == Spec /\ WF_vars(Proceed) /\ WF_vars(Recover)

-----------------------------------------------------------------------------
UnitStates == {Inactive, Failed} \cup {Active(r) : r \in Releases}

\* Type correctness of the host, of the durable records and of the invocation.
TypeOK ==
    /\ files \in [Files -> Releases]
    /\ unit \in [Units -> UnitStates]
    /\ schema \in {Schema[r] : r \in Releases}
    /\ disk.phase \in {"None"} \cup {Phases[i] : i \in DOMAIN Phases}
    /\ disk.backup \in 0..Len(backups)
    /\ \A i \in DOMAIN chain : chain[i].id \in DOMAIN backups
    /\ run.backup \in 0..Len(backups)
    /\ \A i \in DOMAIN run.todo : run.todo[i] \in AllSteps

\* The files and the database of the host are those of one release.
Whole(fs, version) == \E r \in Releases : fs = [f \in Files |-> r] /\ version = Schema[r]

\* A host without a state file holds one release, completely, and its services
\* run: whatever failed or died on the way, an attempt is closed only with the
\* target installed or the source untouched or restored.
ClosedIsWhole ==
    disk = NoState /\ run = Idle =>
        Whole(files, schema) /\ \A u \in Units : unit[u].is = "active"

\* While the files and the database are not those of one release, the backup
\* that a rollback would select holds a whole one.
RollbackIsPossible ==
    Whole(files, schema) \/ (Selected # 0 /\ Whole(backups[Selected].files, backups[Selected].schema))

\* An upgrade that is committed has installed its target and runs it, unless
\* an automatic rollback of the attempt was cut off.
CommittedIsTarget ==
    [][chain' # chain /\ run.phase = "Committed" /\ ~interrupted => HostIs(disk.target)]_vars

\* An upgrade that went as far as its backup, or a rollback, is brought to an
\* end by repeating the command, unless a unit has given up: stop_unit never
\* gets past that.
UnfinishedIsClosed ==
    (Resumable(disk.phase) \/ Terminal(disk.phase)) ~>
        (disk = NoState \/ \E u \in Units : unit[u] = Failed)

\* "Record the rollback in the chain; a second rollback then finds no
\* eligible backup."
SecondRollbackIsNoop ==
    [][disk = NoState /\ disk'.phase = "RolledBack" =>
          \A i \in DOMAIN chain : chain[i].kind = "Rollback" => chain[i].id # disk'.backup]_vars
=============================================================================
