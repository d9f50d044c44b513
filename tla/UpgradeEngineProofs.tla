------------------------ MODULE UpgradeEngineProofs ------------------------
(***************************************************************************)
(* What the upgrade and the rollback of a host guarantee for any releases   *)
(* and schema versions and any number of attempts, failures and crashes.    *)
(*                                                                          *)
(* The invariant has three parts.  Durable relates the state file, the      *)
(* backups and the chain.  Hosted says what the host may hold in each phase *)
(* of the state file, whoever died on the way: nothing but the two releases *)
(* of the backup that a rollback would select.  Running says what the       *)
(* invocation has done already, in terms of what is not on its list of      *)
(* steps any more.                                                          *)
(***************************************************************************)
EXTENDS UpgradeEngine, WellFoundedInduction, TLAPS

In(s) == {s[i] : i \in DOMAIN s}

\* The phases before anything is changed, and those that changes are made in.
Early == {"Discovered", "ReleaseDownloaded", "ReleaseVerified", "PreflightPassed", "BackupCreated"}
Undoable == {"BinariesInstalled", "MigrationsApplied", "ServicesStarted", "HealthVerified", "DoctorPassed"}
Late == Undoable \cup {"ServicesStopped"}
Installed == Undoable \ {"BinariesInstalled"}
AllPhases == {"None", "Committed", "FailedUpgrade", "RolledBack"} \cup Early \cup Late

\* The steps an invocation may still have to do in a phase.
Allowed ==
    [ReleaseDownloaded |-> {"download"}, ReleaseVerified |-> {}, PreflightPassed |-> {"preflight"},
     BackupCreated |-> {"redownload", "backup"},
     ServicesStopped |-> {"redownload", "stop_compute", "stop_o3kd"},
     BinariesInstalled |-> {"redownload"} \cup Files,
     MigrationsApplied |-> {"redownload", "start_o3kd", "schema"},
     ServicesStarted |-> {"redownload", "start_compute"},
     HealthVerified |-> {"redownload", "api"}, DoctorPassed |-> {"redownload", "doctor"},
     Committed |-> {"commit", "clear"}]

\* The steps of a rollback.
UndoSteps == {"stop_compute", "stop_o3kd", "o3kd", "o3k", "o3k_compute",
              "release_manifest", "SHA256SUMS", "database", "start_o3kd",
              "start_compute", "doctor", "api", "record", "clear"}

\* The place of each step in a rollback.
Rank ==
    [s \in AllSteps |->
        CASE s = "stop_compute" -> 1 [] s = "stop_o3kd" -> 2
          [] s = "o3kd" -> 3 [] s = "o3k" -> 4 [] s = "o3k_compute" -> 5
          [] s = "release_manifest" -> 6 [] s = "SHA256SUMS" -> 7 [] s = "database" -> 8
          [] s = "start_o3kd" -> 9 [] s = "start_compute" -> 10 [] s = "doctor" -> 11
          [] s = "api" -> 12 [] s = "record" -> 13 [] s = "clear" -> 14 [] OTHER -> 0]

Sorted(s) == \A i, j \in DOMAIN s : i < j => Rank[s[i]] < Rank[s[j]]

-----------------------------------------------------------------------------
(***************************************************************************)
(* Durable.                                                                 *)
(***************************************************************************)
Held(b) == backups[b].files["o3kd"]

BackupRecords ==
    {b \in [source : Nat, target : Releases, files : [Files -> Releases], schema : Nat, restore : BOOLEAN] :
        /\ b.files = [f \in Files |-> b.files["o3kd"]]
        /\ b.schema = Schema[b.files["o3kd"]]
        /\ b.files["o3kd"] < b.target
        /\ ~b.restore => b.schema = Schema[b.target]}

Fresh(b) == \A i \in DOMAIN chain : chain[i].id # b

\* A release that backup b is about: the one it holds or the one it was made for.
About(b, r) == r \in {Held(b), backups[b].target}

Recorded ==
    /\ disk \in [phase : AllPhases, source : Nat, target : Nat, backup : 0..Len(backups)]
    /\ backups \in Seq(BackupRecords)
    /\ chain \in Seq([id : DOMAIN backups, kind : {"Backup", "Rollback"}])
    /\ interrupted \in BOOLEAN

Durable ==
    LET latest == latest_eligible_backup IN
    /\ disk.phase = "None" => disk = NoState
    /\ disk.phase \in Early => disk.backup = 0
    /\ disk.phase \in Early \cup Late \cup {"Committed"} => disk.target \in Releases
    /\ disk.phase \in Late \cup {"Committed"} => disk.backup # 0
    /\ disk.phase \in Late => Fresh(disk.backup)
    /\ disk.phase = "Committed" => Fresh(disk.backup) \/ latest = disk.backup
    /\ disk.backup # 0 => backups[disk.backup].target = disk.target
    /\ disk.backup # 0 /\ latest # 0 => About(latest, Held(disk.backup))
    /\ Terminal(disk.phase) => Selected # 0

-----------------------------------------------------------------------------
(***************************************************************************)
(* Hosted: with files fs, units us and schema version sc, in the phase of   *)
(* the state file d, when a rollback would select backup b.                 *)
(***************************************************************************)
Intact(fs, us, sc) == Whole(fs, sc) /\ \A u \in Units : us[u].is = "active"

HostType(fs, us, sc) ==
    /\ fs \in [Files -> Releases]
    /\ us \in [Units -> UnitStates]
    /\ sc \in {Schema[r] : r \in Releases}

\* A running o3kd is the one installed, and has migrated the database.
Serving(fs, us, sc) ==
    us["o3kd"].is = "active" => us["o3kd"].of = fs["o3kd"] /\ sc = Schema[fs["o3kd"]]

\* Only a rollback has replaced files since they were all of release t: the
\* first ones in their order.
Falling(fs, t) == \A f, g \in Files : Rank[f] < Rank[g] /\ fs[f] = t => fs[g] = t

Within(b, fs, sc) ==
    /\ \A f \in Files : About(b, fs[f])
    /\ sc \in {Schema[Held(b)], Schema[backups[b].target]}

Hosted(d, b, fs, us, sc) ==
    /\ HostType(fs, us, sc)
    /\ Serving(fs, us, sc)
    /\ d.phase \in {"None", "Committed"} \cup Early => Intact(fs, us, sc)
    /\ d.phase \in Early => fs["o3kd"] < d.target
    /\ d.phase \in Installed => Falling(fs, d.target)
    /\ b # 0 => Within(b, fs, sc)

\* What holds besides when no automatic rollback has begun in this attempt.
Straight(d, fs, us, sc) ==
    /\ d.phase \in Late => Schema[fs["o3kd"]] >= sc
    /\ d.phase \in Undoable /\ us["o3k_compute"].is = "active" =>
          us["o3k_compute"].of = fs["o3k_compute"]
    /\ d.phase = "BinariesInstalled" => us["o3kd"].is = "active" \/ us["o3k_compute"].is # "active"
    /\ d.phase \in Installed \cup {"Committed"} => fs = [f \in Files |-> d.target]
    /\ d.phase = "Committed" =>
          us = [u \in Units |-> Active(d.target)] /\ sc = Schema[d.target]

-----------------------------------------------------------------------------
(***************************************************************************)
(* Running.                                                                 *)
(***************************************************************************)
RunType ==
    run \in [cmd : {"none", "upgrade", "rollback"}, phase : AllPhases, todo : Seq(AllSteps),
             undo : BOOLEAN, backup : 0..Len(backups)]

Forward ==
    LET todo == In(run.todo) IN
    /\ run.phase \in DOMAIN Allowed /\ todo \subseteq Allowed[run.phase]
    /\ disk.phase = IF run.phase = "ReleaseDownloaded" THEN "Discovered" ELSE run.phase
    /\ run.phase # "BackupCreated" => run.backup = disk.backup
    /\ run.phase = "BackupCreated" /\ "backup" \notin todo =>
          /\ run.backup # 0 /\ Fresh(run.backup)
          /\ backups[run.backup].files = files
          /\ backups[run.backup].target = disk.target
    /\ run.phase = "BackupCreated" /\ "backup" \in todo => run.backup = 0
    /\ run.phase = "BackupCreated" =>
          \A i \in DOMAIN run.todo : run.todo[i] = "backup" => i = Len(run.todo)
    /\ run.phase = "ServicesStopped" =>
          /\ "stop_compute" \notin todo => unit["o3k_compute"] = Inactive
          /\ "stop_o3kd" \notin todo => unit["o3kd"] = Inactive
    /\ run.phase = "BinariesInstalled" => \A f \in Files : f \notin todo => files[f] = disk.target
    /\ run.phase = "DoctorPassed" /\ "doctor" \notin todo => Intact(files, unit, schema)
    /\ run.phase = "Committed" =>
          "clear" \in todo /\ ("commit" \notin todo => latest_eligible_backup = disk.backup)

Undoing ==
    LET todo == In(run.todo) IN
    /\ Sorted(run.todo)
    /\ \A s \in todo : Rank[s] > 0
    /\ run.backup # 0 /\ run.backup = Selected
    /\ IF run.cmd = "upgrade"
       THEN run.phase \in Undoable /\ disk.phase = run.phase /\ "clear" \notin todo /\ "record" \notin todo
       ELSE run.phase = "RolledBack" /\ disk.phase = "RolledBack" /\ "clear" \in todo
    /\ \A f \in Files : f \notin todo => files[f] = Held(run.backup)
    /\ \A a \in todo, b \in UndoSteps \ {"record", "clear"} : Rank[a] < Rank[b] => b \in todo
    /\ "stop_o3kd" \notin todo /\ "start_o3kd" \in todo => unit["o3kd"].is # "active"
    /\ "database" \notin todo => schema = Schema[Held(run.backup)]
    /\ "doctor" \notin todo => \A u \in Units : unit[u].is = "active"

Running ==
    /\ run.cmd = "none" => run = Idle
    /\ run.cmd # "none" /\ ~run.undo => run.cmd = "upgrade" /\ Forward
    /\ run.cmd # "none" /\ run.undo => Undoing

UInv ==
    /\ Recorded /\ RunType
    /\ Durable
    /\ Hosted(disk, Selected, files, unit, schema)
    /\ ~interrupted /\ ~run.undo => Straight(disk, files, unit, schema)
    /\ Running


-----------------------------------------------------------------------------
(***************************************************************************)
(* The phases and the steps.                                                *)
(***************************************************************************)
\* The place of each phase that is compared or advanced from.
LEMMA Orders ==
    /\ Order("Discovered") = 1 /\ Order("ReleaseDownloaded") = 2 /\ Order("ReleaseVerified") = 3
    /\ Order("PreflightPassed") = 4 /\ Order("BackupCreated") = 5 /\ Order("ServicesStopped") = 6
    /\ Order("BinariesInstalled") = 7 /\ Order("MigrationsApplied") = 8
    /\ Order("ServicesStarted") = 9 /\ Order("HealthVerified") = 10
    /\ Order("DoctorPassed") = 11 /\ Order("Committed") = 12
  <1>1. DOMAIN Phases = 1..14
    BY DEF Phases
  <1>2. \A i \in 1..14 :
            /\ Phases[i] = "Discovered" <=> i = 1
            /\ Phases[i] = "ReleaseDownloaded" <=> i = 2
            /\ Phases[i] = "ReleaseVerified" <=> i = 3
            /\ Phases[i] = "PreflightPassed" <=> i = 4
            /\ Phases[i] = "BackupCreated" <=> i = 5
            /\ Phases[i] = "ServicesStopped" <=> i = 6
            /\ Phases[i] = "BinariesInstalled" <=> i = 7
            /\ Phases[i] = "MigrationsApplied" <=> i = 8
            /\ Phases[i] = "ServicesStarted" <=> i = 9
            /\ Phases[i] = "HealthVerified" <=> i = 10
            /\ Phases[i] = "DoctorPassed" <=> i = 11
            /\ Phases[i] = "Committed" <=> i = 12
    BY DEF Phases
  <1> QED BY <1>1, <1>2 DEF Order

\* The phase after each one that an upgrade advances from.
LEMMA NextPhases ==
    /\ NextPhase("ReleaseDownloaded") = "ReleaseVerified"
    /\ NextPhase("ReleaseVerified") = "PreflightPassed"
    /\ NextPhase("PreflightPassed") = "BackupCreated"
    /\ NextPhase("BackupCreated") = "ServicesStopped"
    /\ NextPhase("ServicesStopped") = "BinariesInstalled"
    /\ NextPhase("BinariesInstalled") = "MigrationsApplied"
    /\ NextPhase("MigrationsApplied") = "ServicesStarted"
    /\ NextPhase("ServicesStarted") = "HealthVerified"
    /\ NextPhase("HealthVerified") = "DoctorPassed"
    /\ NextPhase("DoctorPassed") = "Committed"
  BY Orders DEF NextPhase, Phases

\* The phases an upgrade is taken up again in.
LEMMA ResumablePhases ==
    ASSUME NEW p \in AllPhases
    PROVE  Resumable(p) <=> p \in Late \cup {"BackupCreated", "Committed"}
  BY Orders DEF Resumable, AllPhases, Early, Late, Undoable, Terminal

\* What is on the list of a phase, when it is begun and when it is resumed.
LEMMA InTuples ==
    /\ In(<<>>) = {}
    /\ \A a : In(<<a>>) = {a}
    /\ \A a, b : In(<<a, b>>) = {a, b}
    /\ In(Install) = Files
  BY DEF In, Install, Files, BINARIES, Units

\* What is on two lists joined.
LEMMA InJoined ==
    ASSUME NEW S, NEW s \in Seq(S), NEW t \in Seq(S)
    PROVE  In(s \o t) = In(s) \cup In(t) /\ s \o t \in Seq(S)
  <1>1. ASSUME NEW i \in DOMAIN (s \o t) PROVE (s \o t)[i] \in In(s) \cup In(t)
    <2>1. i \in 1..(Len(s) + Len(t)) /\ Len(s) \in Nat /\ Len(t) \in Nat
      OBVIOUS
    <2>2. CASE i <= Len(s)
      <3>1. (s \o t)[i] = s[i] /\ i \in DOMAIN s
        BY <2>1, <2>2
      <3> QED BY <3>1 DEF In
    <2>3. CASE i > Len(s)
      <3>1. (s \o t)[i] = t[i - Len(s)] /\ i - Len(s) \in DOMAIN t
        BY <2>1, <2>3
      <3> QED BY <3>1 DEF In
    <2> QED BY <2>1, <2>2, <2>3
  <1>2. ASSUME NEW i \in DOMAIN s PROVE s[i] \in In(s \o t)
    <2>1. i \in DOMAIN (s \o t) /\ (s \o t)[i] = s[i]
      OBVIOUS
    <2> QED BY <2>1 DEF In
  <1>3. ASSUME NEW i \in DOMAIN t PROVE t[i] \in In(s \o t)
    <2>1. i \in Nat /\ Len(s) \in Nat /\ i \in 1..Len(t)
      OBVIOUS
    <2>2. Len(s) + i \in DOMAIN (s \o t) /\ (s \o t)[Len(s) + i] = t[i]
      BY <2>1
    <2> QED BY <2>2 DEF In
  <1>4. In(s \o t) \subseteq In(s) \cup In(t)
    BY <1>1 DEF In
  <1>5. In(s) \subseteq In(s \o t) /\ In(t) \subseteq In(s \o t)
    BY <1>2, <1>3 DEF In
  <1>6. s \o t \in Seq(S)
    OBVIOUS
  <1> QED BY <1>4, <1>5, <1>6

\* What is on a list: its head and what is on the rest.
LEMMA InRest ==
    ASSUME NEW S, NEW s \in Seq(S), s # <<>>
    PROVE  /\ In(s) = {Head(s)} \cup In(Tail(s))
           /\ Head(s) \in S /\ Tail(s) \in Seq(S)
  <1>1. ASSUME NEW i \in DOMAIN Tail(s)
        PROVE  Tail(s)[i] = s[i + 1] /\ i + 1 \in DOMAIN s
    OBVIOUS
  <1>2. 1 \in DOMAIN s /\ Head(s) = s[1]
    OBVIOUS
  <1>3. ASSUME NEW i \in DOMAIN s, i # 1
        PROVE  i - 1 \in DOMAIN Tail(s) /\ Tail(s)[i - 1] = s[i]
    BY <1>3
  <1>4. Head(s) \in S /\ Tail(s) \in Seq(S)
    OBVIOUS
  <1>5. In(Tail(s)) \subseteq In(s)
    BY <1>1 DEF In
  <1>6. Head(s) \in In(s)
    BY <1>2 DEF In
  <1>7. ASSUME NEW i \in DOMAIN s PROVE s[i] \in {Head(s)} \cup In(Tail(s))
    BY <1>2, <1>3 DEF In
  <1>8. In(s) \subseteq {Head(s)} \cup In(Tail(s))
    BY <1>7 DEF In
  <1> QED BY <1>4, <1>5, <1>6, <1>8

\* The names of the steps.
LEMMA StepNames ==
    /\ Files = {"o3kd", "o3k", "o3k_compute", "release_manifest", "SHA256SUMS"}
    /\ AllSteps = {"o3kd", "o3k", "o3k_compute", "release_manifest", "SHA256SUMS",
                   "download", "redownload", "preflight", "backup", "stop_o3kd",
                   "stop_compute", "start_o3kd", "start_compute", "schema",
                   "database", "api", "doctor", "commit", "record", "clear"}
  BY DEF Files, BINARIES, Units, AllSteps

\* The list of each phase.
LEMMA StepLists ==
    ASSUME NEW b
    PROVE  /\ Steps("ReleaseDownloaded", b) = <<"download">>
           /\ Steps("ReleaseVerified", b) = <<>>
           /\ Steps("PreflightPassed", b) = <<"preflight">>
           /\ Steps("BackupCreated", b) = IF b = 0 THEN <<"backup">> ELSE <<>>
           /\ Steps("ServicesStopped", b) = <<"stop_compute", "stop_o3kd">>
           /\ Steps("BinariesInstalled", b) = Install
           /\ Steps("MigrationsApplied", b) = <<"start_o3kd", "schema">>
           /\ Steps("ServicesStarted", b) = <<"start_compute">>
           /\ Steps("HealthVerified", b) = <<"api">>
           /\ Steps("DoctorPassed", b) = <<"doctor">>
           /\ Steps("Committed", b) = <<"commit", "clear">>
  BY DEF Steps

\* The list of a phase: only its own steps, and the one the next phase relies on.
LEMMA StepsAllowed ==
    ASSUME NEW p \in DOMAIN Allowed, NEW b \in Nat
    PROVE  /\ Steps(p, b) \in Seq(AllSteps)
           /\ In(Steps(p, b)) \subseteq Allowed[p]
           /\ <<"redownload">> \o Steps(p, b) \in Seq(AllSteps)
           /\ In(<<"redownload">> \o Steps(p, b)) = {"redownload"} \cup In(Steps(p, b))
           /\ p = "BackupCreated" /\ b = 0 => "backup" \in In(Steps(p, b))
           /\ p = "ServicesStopped" => In(Steps(p, b)) = {"stop_compute", "stop_o3kd"}
           /\ p = "BinariesInstalled" => In(Steps(p, b)) = Files
           /\ p = "DoctorPassed" => "doctor" \in In(Steps(p, b))
           /\ p = "Committed" => In(Steps(p, b)) = {"commit", "clear"}
  <1>0. p \in {"ReleaseDownloaded", "ReleaseVerified", "PreflightPassed", "BackupCreated",
               "ServicesStopped", "BinariesInstalled", "MigrationsApplied", "ServicesStarted",
               "HealthVerified", "DoctorPassed", "Committed"}
    BY DEF Allowed
  <1>1. Install \in Seq(AllSteps)
    BY StepNames DEF Install
  <1>2. /\ <<>> \in Seq(AllSteps) /\ \A s \in AllSteps : <<s>> \in Seq(AllSteps)
        /\ \A s, u \in AllSteps : <<s, u>> \in Seq(AllSteps)
    OBVIOUS
  <1>3. Steps(p, b) \in Seq(AllSteps)
    <2> DEFINE Q == Seq(AllSteps)
    <2>1. /\ <<>> \in Q /\ <<"download">> \in Q /\ <<"preflight">> \in Q /\ <<"backup">> \in Q
          /\ <<"start_compute">> \in Q /\ <<"api">> \in Q /\ <<"doctor">> \in Q /\ Install \in Q
          /\ <<"stop_compute", "stop_o3kd">> \in Q /\ <<"start_o3kd", "schema">> \in Q
          /\ <<"commit", "clear">> \in Q
      BY <1>1, <1>2, StepNames
    <2> HIDE DEF Q
    <2>2. Steps(p, b) \in Q
      BY <1>0, <2>1, StepLists
    <2> QED BY <2>2 DEF Q
  <1>4. In(Steps(p, b)) \subseteq Allowed[p]
    BY <1>0, StepLists, InTuples DEF Allowed
  <1>5. <<"redownload">> \in Seq(AllSteps) /\ In(<<"redownload">>) = {"redownload"}
    BY <1>2, StepNames, InTuples
  <1>6. /\ <<"redownload">> \o Steps(p, b) \in Seq(AllSteps)
        /\ In(<<"redownload">> \o Steps(p, b)) = In(<<"redownload">>) \cup In(Steps(p, b))
    <2> DEFINE r == <<"redownload">>
               q == Steps(p, b)
    <2>1. r \in Seq(AllSteps) /\ q \in Seq(AllSteps)
      BY <1>3, <1>5
    <2> HIDE DEF r, q
    <2>2. r \o q \in Seq(AllSteps) /\ In(r \o q) = In(r) \cup In(q)
      BY <2>1, InJoined
    <2> QED BY <2>2 DEF r, q
  <1>7. /\ p = "BackupCreated" /\ b = 0 => "backup" \in In(Steps(p, b))
        /\ p = "ServicesStopped" => In(Steps(p, b)) = {"stop_compute", "stop_o3kd"}
        /\ p = "BinariesInstalled" => In(Steps(p, b)) = Files
        /\ p = "DoctorPassed" => "doctor" \in In(Steps(p, b))
        /\ p = "Committed" => In(Steps(p, b)) = {"commit", "clear"}
    BY StepLists, InTuples
  <1> QED BY <1>3, <1>4, <1>5, <1>6, <1>7

\* The steps of a rollback have a place.
LEMMA Ranks ==
    /\ Rank["stop_compute"] = 1 /\ Rank["stop_o3kd"] = 2 /\ Rank["o3kd"] = 3 /\ Rank["o3k"] = 4
    /\ Rank["o3k_compute"] = 5 /\ Rank["release_manifest"] = 6 /\ Rank["SHA256SUMS"] = 7
    /\ Rank["database"] = 8 /\ Rank["start_o3kd"] = 9 /\ Rank["start_compute"] = 10
    /\ Rank["doctor"] = 11 /\ Rank["api"] = 12 /\ Rank["record"] = 13 /\ Rank["clear"] = 14
    /\ Rank["download"] = 0 /\ Rank["redownload"] = 0 /\ Rank["preflight"] = 0
    /\ Rank["backup"] = 0 /\ Rank["schema"] = 0 /\ Rank["commit"] = 0
  BY StepNames DEF Rank

\* Every step of a rollback has a place, and no other has.
LEMMA UndoRanks ==
    /\ UndoSteps \subseteq AllSteps /\ Files \subseteq UndoSteps
    /\ \A s \in AllSteps : Rank[s] \in Nat
    /\ \A s \in AllSteps : Rank[s] > 0 <=> s \in UndoSteps
  <1>1. \A s \in AllSteps : Rank[s] \in Nat /\ (Rank[s] > 0 <=> s \in UndoSteps)
    BY StepNames, Ranks DEF UndoSteps
  <1> QED BY <1>1, StepNames DEF UndoSteps

\* A sorted list followed by a later sorted list is sorted.
LEMMA SortedJoined ==
    ASSUME NEW s \in Seq(AllSteps), NEW t \in Seq(AllSteps), Sorted(s), Sorted(t),
           \A a \in In(s), b \in In(t) : Rank[a] < Rank[b]
    PROVE  Sorted(s \o t)
  <1> DEFINE st == s \o t
  <1>1. Len(s) \in Nat /\ Len(t) \in Nat /\ DOMAIN st = 1..(Len(s) + Len(t))
    OBVIOUS
  <1>2. \A i \in 1..Len(s) : st[i] = s[i] /\ i \in DOMAIN s
    BY <1>1
  <1>3. \A i \in DOMAIN st : i > Len(s) => st[i] = t[i - Len(s)] /\ i - Len(s) \in DOMAIN t
    BY <1>1
  <1> HIDE DEF st
  <1>4. ASSUME NEW i \in DOMAIN st, NEW j \in DOMAIN st, i < j PROVE Rank[st[i]] < Rank[st[j]]
    <2>1. CASE j <= Len(s)
      <3>1. i \in 1..Len(s) /\ j \in 1..Len(s)
        BY <1>1, <1>4, <2>1
      <3> QED BY <1>2, <1>4, <3>1 DEF Sorted
    <2>2. CASE i > Len(s)
      <3>1. i > Len(s) /\ j > Len(s) /\ i - Len(s) < j - Len(s)
        BY <1>1, <1>4, <2>2
      <3> QED BY <1>3, <3>1 DEF Sorted
    <2>3. CASE i <= Len(s) /\ j > Len(s)
      <3>1. i \in 1..Len(s)
        BY <1>1, <2>3
      <3>2. st[i] \in In(s) /\ st[j] \in In(t)
        BY <1>2, <1>3, <2>3, <3>1 DEF In
      <3> QED BY <3>2
    <2> QED BY <1>1, <2>1, <2>2, <2>3
  <1>5. Sorted(st)
    BY <1>4 DEF Sorted
  <1> QED BY <1>5 DEF st

\* The lists of the automatic rollback and of the rollback command.
LEMMA UndoList ==
    /\ Undo \in Seq(AllSteps) /\ In(Undo) = UndoSteps \ {"record", "clear"} /\ Sorted(Undo)
    /\ Undo \o <<"record", "clear">> \in Seq(AllSteps)
    /\ In(Undo \o <<"record", "clear">>) = UndoSteps
    /\ Sorted(Undo \o <<"record", "clear">>)
  <1> DEFINE A == <<"stop_compute", "stop_o3kd">>
             C == <<"database", "start_o3kd", "start_compute", "doctor", "api">>
             D == <<"record", "clear">>
             I == Install
  <1>1. A \in Seq(AllSteps) /\ I \in Seq(AllSteps) /\ C \in Seq(AllSteps) /\ D \in Seq(AllSteps)
    BY StepNames DEF Install
  <1>2. /\ In(A) = {"stop_compute", "stop_o3kd"} /\ In(I) = Files
        /\ In(C) = {"database", "start_o3kd", "start_compute", "doctor", "api"}
        /\ In(D) = {"record", "clear"}
    BY InTuples DEF In
  <1>3. Sorted(A) /\ Sorted(D)
    BY Ranks DEF Sorted
  <1>4. Sorted(I)
    BY Ranks DEF Sorted, Install
  <1>5. Sorted(C)
    BY Ranks DEF Sorted
  <1>6. Undo = (A \o I) \o C
    BY DEF Undo
  <1> HIDE DEF A, C, D, I
  <1>7. /\ A \o I \in Seq(AllSteps)
        /\ In(A \o I) = {"stop_compute", "stop_o3kd"} \cup Files
    BY <1>1, <1>2, InJoined
  <1>8. Sorted(A \o I)
    <2>1. \A a \in In(A), b \in In(I) : Rank[a] < Rank[b]
      BY <1>2, Ranks, StepNames
    <2> QED BY <1>1, <1>3, <1>4, <2>1, SortedJoined
  <1>9. Undo \in Seq(AllSteps) /\ In(Undo) = In(A \o I) \cup In(C)
    <2> DEFINE AI == A \o I
    <2>1. AI \in Seq(AllSteps)
      BY <1>7
    <2> HIDE DEF AI
    <2>2. AI \o C \in Seq(AllSteps) /\ In(AI \o C) = In(AI) \cup In(C)
      BY <1>1, <2>1, InJoined
    <2> QED BY <1>6, <2>2 DEF AI
  <1>10. Sorted(Undo)
    <2>1. \A a \in In(A \o I), b \in In(C) : Rank[a] < Rank[b]
      BY <1>2, <1>7, Ranks, StepNames
    <2> QED BY <1>1, <1>5, <1>6, <1>7, <1>8, <2>1, SortedJoined
  <1>11. In(Undo) = UndoSteps \ {"record", "clear"}
    BY <1>2, <1>7, <1>9, StepNames DEF UndoSteps
  <1>12. Undo \o D \in Seq(AllSteps) /\ In(Undo \o D) = In(Undo) \cup In(D)
    BY <1>1, <1>9, InJoined
  <1>13. Sorted(Undo \o D)
    <2>1. \A a \in In(Undo), b \in In(D) : Rank[a] < Rank[b]
      BY <1>2, <1>11, Ranks DEF UndoSteps
    <2> QED BY <1>1, <1>3, <1>9, <1>10, <2>1, SortedJoined
  <1>14. In(Undo \o D) = UndoSteps
    BY <1>2, <1>11, <1>12 DEF UndoSteps
  <1> QED BY <1>9, <1>10, <1>11, <1>12, <1>13, <1>14 DEF D

\* What follows the head of a sorted list is sorted, and later than the head.
LEMMA SortedRest ==
    ASSUME NEW s \in Seq(AllSteps), s # <<>>, Sorted(s)
    PROVE  Sorted(Tail(s)) /\ \A a \in In(Tail(s)) : Rank[Head(s)] < Rank[a]
  <1>1. \A i \in DOMAIN Tail(s) : Tail(s)[i] = s[i + 1] /\ i + 1 \in DOMAIN s /\ i \in Nat /\ i >= 1
    OBVIOUS
  <1>2. 1 \in DOMAIN s /\ Head(s) = s[1]
    OBVIOUS
  <1>3. Sorted(Tail(s))
    BY <1>1 DEF Sorted
  <1>4. ASSUME NEW i \in DOMAIN Tail(s) PROVE Rank[Head(s)] < Rank[Tail(s)[i]]
    <2>1. 1 < i + 1
      BY <1>1
    <2> QED BY <1>1, <1>2, <2>1 DEF Sorted
  <1> QED BY <1>3, <1>4 DEF In

-----------------------------------------------------------------------------
(***************************************************************************)
(* The chain.                                                               *)
(***************************************************************************)
\* A set of positions has a highest one: the smallest of its upper bounds.
LEMMA Highest ==
    ASSUME NEW n \in Nat, NEW B, B \subseteq 1..n, B # {}
    PROVE  \E i \in B : \A j \in B : i >= j
  <1> DEFINE U == {m \in Nat : \A j \in B : m >= j}
  <1>1. n \in U
    OBVIOUS
  <1>2. PICK m \in U : \A y \in U : ~(<<y, m>> \in OpToRel(<, Nat))
    <2>1. U \subseteq Nat /\ U # {}
      BY <1>1
    <2> HIDE DEF U
    <2> QED BY <2>1, NatLessThanWellFounded, WFMin, Zenon
  <1>3. \A y \in U : ~(y < m)
    BY <1>2 DEF OpToRel
  <1>4. m \in B
    <2> SUFFICES ASSUME m \notin B PROVE FALSE
      OBVIOUS
    <2>1. PICK k \in B : TRUE
      OBVIOUS
    <2>2. k \in Nat /\ m >= k /\ k >= 1
      BY <2>1
    <2>3. m - 1 \in Nat /\ m - 1 < m
      BY <2>2
    <2>4. \A j \in B : m - 1 >= j
      OBVIOUS
    <2>5. m - 1 \in U
      BY <2>3, <2>4
    <2> QED BY <1>3, <2>3, <2>5
  <1> QED BY <1>4

BackupsOf(c) == {i \in DOMAIN c : c[i].kind = "Backup"}
Top(B) == CHOOSE i \in B : \A j \in B : i >= j
Links(D) == [id : D, kind : {"Backup", "Rollback"}]

\* An element of a sequence over a set is in the set.
LEMMA Element ==
    ASSUME NEW S, NEW s \in Seq(S), NEW i \in DOMAIN s
    PROVE  s[i] \in S
  OBVIOUS

\* The latest backup is that of the highest record of a backup.
LEMMA LatestTop ==
    latest_eligible_backup = IF BackupsOf(chain) = {} THEN 0 ELSE chain[Top(BackupsOf(chain))].id
  BY DEF latest_eligible_backup, BackupsOf, Top

\* The latest backup of the chain is one of it.
LEMMA LatestIs ==
    ASSUME NEW D, chain \in Seq(Links(D)), BackupsOf(chain) # {}
    PROVE  /\ Top(BackupsOf(chain)) \in DOMAIN chain
           /\ latest_eligible_backup \in D
  <1> DEFINE B == BackupsOf(chain)
  <1>1. Len(chain) \in Nat /\ B \subseteq 1..Len(chain)
    BY DEF BackupsOf
  <1>2. \E k \in B : \A j \in B : k >= j
    <2> HIDE DEF B
    <2> QED BY <1>1, Highest DEF B
  <1>3. Top(B) \in B
    <2> HIDE DEF B
    <2> QED BY <1>2 DEF Top
  <1>4. Top(B) \in DOMAIN chain
    BY <1>3 DEF BackupsOf
  <1>5. chain[Top(B)] \in Links(D)
    <2> DEFINE L == Links(D)
               i == Top(B)
    <2>1. chain \in Seq(L) /\ i \in DOMAIN chain
      BY <1>4
    <2> HIDE DEF L, i
    <2>2. chain[i] \in L
      BY <2>1, Element
    <2> QED BY <2>2 DEF L, i
  <1>6. chain[Top(B)].id \in D
    BY <1>5 DEF Links
  <1> QED BY <1>4, <1>6, LatestTop

\* A record of a rollback does not change what the latest backup is; a record
\* of a backup makes it the latest.
LEMMA LatestAppended ==
    ASSUME NEW D, chain \in Seq(Links(D)), NEW b, NEW kind,
           chain' = Append(chain, [id |-> b, kind |-> kind])
    PROVE  /\ kind = "Rollback" => latest_eligible_backup' = latest_eligible_backup
           /\ kind = "Backup" => latest_eligible_backup' = b
  <1> DEFINE n == Len(chain) + 1
             B == BackupsOf(chain)
             C == BackupsOf(chain')
  <1>1. /\ Len(chain) \in Nat /\ DOMAIN chain = 1..Len(chain) /\ DOMAIN chain' = 1..n
        /\ chain'[n] = [id |-> b, kind |-> kind]
        /\ \A i \in DOMAIN chain : chain'[i] = chain[i]
    <2> DEFINE L == Links(D)
    <2> HIDE DEF L
    <2> QED BY DEF L
  <1>2. latest_eligible_backup' = IF C = {} THEN 0 ELSE chain'[Top(C)].id
    BY DEF latest_eligible_backup, BackupsOf, Top
  <1>3. latest_eligible_backup = IF B = {} THEN 0 ELSE chain[Top(B)].id
    BY LatestTop
  <1>4. ASSUME kind = "Rollback" PROVE latest_eligible_backup' = latest_eligible_backup
    <2>1. C = B
      BY <1>1, <1>4 DEF BackupsOf
    <2>2. B # {} => Top(B) \in DOMAIN chain
      BY LatestIs
    <2> DEFINE i == Top(B)
    <2>3. CASE B = {}
      BY <1>2, <1>3, <2>1, <2>3
    <2>4. CASE B # {}
      <3>1. chain'[i] = chain[i]
        <4>1. i \in DOMAIN chain
          BY <2>2, <2>4
        <4> HIDE DEF i
        <4> QED BY <1>1, <4>1
      <3>2. chain'[Top(B)].id = chain[Top(B)].id
        BY <3>1
      <3>3. latest_eligible_backup = chain[Top(B)].id
        BY <1>3, <2>4
      <3>4. latest_eligible_backup' = chain'[Top(B)].id
        <4> HIDE DEF B, C
        <4> QED BY <1>2, <2>1, <2>4
      <3> HIDE DEF B, C
      <3> QED BY <3>2, <3>3, <3>4
    <2> QED BY <2>3, <2>4
  <1>5. ASSUME kind = "Backup" PROVE latest_eligible_backup' = b
    <2>1. n \in C /\ \A j \in C : n >= j /\ j \in Nat
      BY <1>1, <1>5 DEF BackupsOf
    <2>2. n \in Nat
      BY <1>1
    <2>3. Top(C) \in C /\ \A j \in C : Top(C) >= j
      <3> HIDE DEF C, n
      <3> QED BY <2>1 DEF Top
    <2>4. Top(C) = n
      <3> DEFINE x == Top(C)
      <3>1. x \in C /\ x \in Nat /\ n >= x /\ x >= n
        BY <2>1, <2>3
      <3> HIDE DEF x, C, n
      <3>2. x = n
        BY <2>2, <3>1
      <3> QED BY <3>2 DEF x
    <2>5. latest_eligible_backup' = chain'[n].id
      BY <1>2, <2>1, <2>4
    <2> QED BY <1>1, <2>5
  <1> QED BY <1>4, <1>5

-----------------------------------------------------------------------------
(***************************************************************************)
(* Facts about backups, units and the chain that the steps rest on.         *)
(***************************************************************************)
\* What a unit can be.
LEMMA UnitFacts ==
    /\ Units = {"o3kd", "o3k_compute"}
    /\ Inactive.is = "inactive" /\ Failed.is = "failed"
    /\ Inactive \in UnitStates /\ Failed \in UnitStates
    /\ \A r \in Releases : Active(r) \in UnitStates
    /\ \A r : Active(r).is = "active" /\ Active(r).of = r
    /\ \A x \in UnitStates : x.is = "active" => x.of \in Releases /\ x = Active(x.of)
    /\ \A x \in UnitStates : x.is # "active" => x = Inactive \/ x = Failed
  <1>1. /\ Inactive.is = "inactive" /\ Failed.is = "failed"
        /\ \A r : Active(r).is = "active" /\ Active(r).of = r
    BY DEF Inactive, Failed, Active
  <1>2. /\ Inactive \in UnitStates /\ Failed \in UnitStates
        /\ \A r \in Releases : Active(r) \in UnitStates
    BY DEF UnitStates
  <1>3. ASSUME NEW x \in UnitStates
        PROVE  x = Inactive \/ x = Failed \/ \E r \in Releases : x = Active(r)
    BY DEF UnitStates
  <1> QED BY <1>1, <1>2, <1>3 DEF Units

\* What a complete backup holds: one release, older than the one it was made for.
LEMMA BackupFacts ==
    ASSUME Recorded, NEW b \in DOMAIN backups
    PROVE  /\ Held(b) \in Releases /\ backups[b].target \in Releases
           /\ Held(b) \in Nat /\ backups[b].target \in Nat /\ backups[b].source \in Nat
           /\ Held(b) < backups[b].target
           /\ Schema[Held(b)] \in Nat /\ Schema[backups[b].target] \in Nat
           /\ Schema[Held(b)] <= Schema[backups[b].target]
           /\ backups[b].files = [f \in Files |-> Held(b)]
           /\ backups[b].schema = Schema[Held(b)]
           /\ ~backups[b].restore => Schema[Held(b)] = Schema[backups[b].target]
           /\ Held(b) # backups[b].target
  <1> DEFINE B == BackupRecords
  <1>1. backups \in Seq(B)
    BY DEF Recorded
  <1>2. backups[b] \in B
    <2> HIDE DEF B
    <2> QED BY <1>1, Element
  <1>3. /\ backups[b].files \in [Files -> Releases] /\ backups[b].target \in Releases
        /\ backups[b].files = [f \in Files |-> Held(b)]
        /\ backups[b].schema = Schema[Held(b)]
        /\ Held(b) < backups[b].target
        /\ ~backups[b].restore => backups[b].schema = Schema[backups[b].target]
        /\ backups[b].source \in Nat
    BY <1>2 DEF BackupRecords, Held
  <1>4. Held(b) \in Releases
    BY <1>3, StepNames DEF Held
  <1>5. \A r \in Releases : r \in Nat /\ Schema[r] \in Nat
    BY SchemaAssumption, ReleasesAssumption DEF Releases
  <1>6. Schema[Held(b)] <= Schema[backups[b].target]
    BY <1>3, <1>4, <1>5, SchemaAssumption
  <1>7. Held(b) # backups[b].target
    BY <1>3, <1>4, <1>5
  <1> QED BY <1>3, <1>4, <1>5, <1>6, <1>7

\* The backup a rollback would select is a complete one.
LEMMA SelectedFacts ==
    ASSUME Recorded
    PROVE  /\ Len(backups) \in Nat /\ DOMAIN backups = 1..Len(backups)
           /\ latest_eligible_backup \in 0..Len(backups)
           /\ latest_eligible_backup # 0 => latest_eligible_backup \in DOMAIN backups
           /\ disk.backup \in 0..Len(backups)
           /\ disk.backup # 0 => disk.backup \in DOMAIN backups
           /\ Selected \in 0..Len(backups)
           /\ Selected # 0 => Selected \in DOMAIN backups
  <1>1. Len(backups) \in Nat /\ DOMAIN backups = 1..Len(backups)
    <2> DEFINE B == BackupRecords
    <2>1. backups \in Seq(B)
      BY DEF Recorded
    <2> HIDE DEF B
    <2> QED BY <2>1
  <1>2. disk.backup \in 0..Len(backups)
    BY DEF Recorded
  <1>3. latest_eligible_backup \in {0} \cup DOMAIN backups
    <2>1. chain \in Seq(Links(DOMAIN backups))
      BY DEF Recorded, Links
    <2>2. CASE BackupsOf(chain) = {}
      BY <2>2, LatestTop
    <2>3. CASE BackupsOf(chain) # {}
      <3> DEFINE D == DOMAIN backups
      <3> HIDE DEF D
      <3>1. latest_eligible_backup \in D
        BY <2>1, <2>3, LatestIs DEF D
      <3> QED BY <3>1 DEF D
    <2> QED BY <2>2, <2>3
  <1>4. \A x \in 0..Len(backups) : x # 0 => x \in DOMAIN backups
    BY <1>1
  <1>5. latest_eligible_backup \in 0..Len(backups)
    BY <1>1, <1>3
  <1> QED BY <1>1, <1>2, <1>4, <1>5 DEF Selected

-----------------------------------------------------------------------------
(***************************************************************************)
(* What the steps do to the host.                                           *)
(***************************************************************************)
Quiet == {"download", "redownload", "preflight", "backup", "schema", "api", "doctor",
          "commit", "record", "clear"}

\* The effect of each step, the last two of them only when they succeed.
LEMMA Effects ==
    ASSUME NEW s \in AllSteps, Effect(s)
    PROVE  /\ s \in Quiet => files' = files /\ unit' = unit /\ schema' = schema
           /\ s \in Files =>
                 files' = [files EXCEPT ![s] = Wanted(s)] /\ unit' = unit /\ schema' = schema
           /\ s = "stop_o3kd" => files' = files /\ unit' = Stopped("o3kd") /\ schema' = schema
           /\ s = "stop_compute" =>
                 files' = files /\ unit' = Stopped("o3k_compute") /\ schema' = schema
           /\ s = "start_o3kd" => files' = files /\ unit' = Started("o3kd") /\ schema' = Migrated
           /\ s = "start_compute" =>
                 files' = files /\ unit' = Started("o3k_compute") /\ schema' = schema
           /\ s = "database" => files' = files /\ unit' = unit /\ schema' = Restored
  BY StepNames DEF Effect, Quiet

\* Every step is quiet, installs a file, or changes a unit or the database.
LEMMA StepKinds ==
    AllSteps = Quiet \cup Files \cup {"stop_o3kd", "stop_compute", "start_o3kd", "start_compute", "database"}
  BY StepNames DEF Quiet

\* What is required of the host for each step to succeed.
LEMMA Successes ==
    ASSUME NEW s \in AllSteps, Succeeds(s)
    PROVE  /\ s = "stop_o3kd" => unit["o3kd"].is # "failed"
           /\ s = "stop_compute" => unit["o3k_compute"].is # "failed"
           /\ s \in Files => unit["o3kd"].is # "active"
           /\ s = "start_o3kd" => unit["o3kd"].is = "active" \/ CanStart("o3kd")
           /\ s = "doctor" => Healthy
  BY StepNames DEF Succeeds

\* A step that is refused changes nothing, except that o3kd may give up.
LEMMA Refusals ==
    ASSUME NEW s \in AllSteps, ~Succeeds(s), Effect(IF s \in Files THEN "api" ELSE s)
    PROVE  /\ files' = files /\ schema' = schema
           /\ \/ unit' = unit
              \/ /\ s = "start_o3kd" /\ unit["o3kd"].is # "active"
                 /\ unit' = [unit EXCEPT !["o3kd"] = Failed]
  <1>1. /\ s \notin {"database", "start_compute", "backup", "commit", "record", "clear"}
        /\ s = "stop_o3kd" => unit["o3kd"].is = "failed"
        /\ s = "stop_compute" => unit["o3k_compute"].is = "failed"
        /\ s = "start_o3kd" => unit["o3kd"].is # "active" /\ ~CanStart("o3kd")
    BY StepNames DEF Succeeds
  <1>2. CASE s \in Files
    <2>1. Effect("api") /\ "api" \in AllSteps /\ "api" \in Quiet
      BY <1>2, StepNames DEF Quiet
    <2> QED BY <2>1, Effects
  <1>3. CASE s \notin Files
    <2>1. Effect(s)
      BY <1>3
    <2> QED BY <1>1, <1>3, <2>1, Effects, StepKinds DEF Stopped, Started, Migrated
  <1> QED BY <1>2, <1>3

\* What is left to do says where an upgrade stands.
LEMMA ForwardAt ==
    ASSUME Forward, NEW s \in In(run.todo)
    PROVE  /\ s \in {"stop_o3kd", "stop_compute"} =>
                 run.phase = "ServicesStopped" /\ disk.phase = "ServicesStopped"
           /\ s \in Files => run.phase = "BinariesInstalled" /\ disk.phase = "BinariesInstalled"
           /\ s = "start_o3kd" => run.phase = "MigrationsApplied" /\ disk.phase = "MigrationsApplied"
           /\ s = "start_compute" => run.phase = "ServicesStarted" /\ disk.phase = "ServicesStarted"
           /\ s = "backup" => run.phase = "BackupCreated" /\ disk.phase = "BackupCreated"
           /\ s = "doctor" => run.phase = "DoctorPassed" /\ disk.phase = "DoctorPassed"
           /\ s \in {"commit", "clear"} => run.phase = "Committed" /\ disk.phase = "Committed"
           /\ s # "database" /\ s # "record"
  <1>1. run.phase \in DOMAIN Allowed /\ s \in Allowed[run.phase]
    BY DEF Forward
  <1>2. run.phase \in {"ReleaseDownloaded", "ReleaseVerified", "PreflightPassed", "BackupCreated",
               "ServicesStopped", "BinariesInstalled", "MigrationsApplied", "ServicesStarted",
               "HealthVerified", "DoctorPassed", "Committed"}
    BY <1>1 DEF Allowed
  <1>3. disk.phase = IF run.phase = "ReleaseDownloaded" THEN "Discovered" ELSE run.phase
    BY DEF Forward
  <1>4. /\ s \in {"stop_o3kd", "stop_compute"} => run.phase = "ServicesStopped"
        /\ s \in Files => run.phase = "BinariesInstalled"
        /\ s = "start_o3kd" => run.phase = "MigrationsApplied"
        /\ s = "start_compute" => run.phase = "ServicesStarted"
        /\ s = "backup" => run.phase = "BackupCreated"
        /\ s = "doctor" => run.phase = "DoctorPassed"
        /\ s \in {"commit", "clear"} => run.phase = "Committed"
        /\ s # "database" /\ s # "record"
    BY <1>1, <1>2, StepNames DEF Allowed
  <1> QED BY <1>3, <1>4

\* Which kinds of phase there are.
LEMMA PhaseKinds ==
    /\ \A p \in Late : p \notin {"None", "Committed", "FailedUpgrade", "RolledBack"} \cup Early
    /\ \A p \in Early : p \notin {"None", "Committed", "FailedUpgrade", "RolledBack"}
    /\ Late = {"ServicesStopped", "BinariesInstalled", "MigrationsApplied", "ServicesStarted",
               "HealthVerified", "DoctorPassed"}
    /\ Undoable = {"BinariesInstalled", "MigrationsApplied", "ServicesStarted",
                   "HealthVerified", "DoctorPassed"}
    /\ Installed = {"MigrationsApplied", "ServicesStarted", "HealthVerified", "DoctorPassed"}
  BY DEF Early, Late, Undoable, Installed

\* The invocation that has something to do is an upgrade or a rollback.
LEMMA Busy ==
    ASSUME RunType, Running, run.todo # <<>>
    PROVE  /\ run.cmd # "none"
           /\ Head(run.todo) \in In(run.todo) /\ Head(run.todo) \in AllSteps
           /\ ~run.undo => run.cmd = "upgrade" /\ Forward
           /\ run.undo => Undoing
  <1>1. run.todo \in Seq(AllSteps)
    BY DEF RunType
  <1>2. Idle.todo = <<>>
    BY DEF Idle
  <1>3. run.cmd # "none"
    BY <1>2 DEF Running
  <1>4. Head(run.todo) \in In(run.todo) /\ Head(run.todo) \in AllSteps
    <2> DEFINE todo == run.todo
               A == AllSteps
    <2> HIDE DEF todo, A
    <2>1. In(todo) = {Head(todo)} \cup In(Tail(todo)) /\ Head(todo) \in A
      BY <1>1, InRest DEF todo, A
    <2> QED BY <2>1 DEF todo, A
  <1> QED BY <1>3, <1>4 DEF Running

\* Releases and schema versions are numbers.
LEMMA Numbers ==
    \A r \in Releases : r \in Nat /\ Schema[r] \in Nat /\ Schema[r] \in {Schema[q] : q \in Releases}
  BY SchemaAssumption, ReleasesAssumption DEF Releases

\* A unit that goes down, while the attempt is under way.
LEMMA DownKeeps ==
    ASSUME Hosted(disk, Selected, files, unit, schema), NEW u \in Units, NEW x \in {Inactive, Failed},
           disk.phase \notin {"None", "Committed"} \cup Early,
           files' = files, schema' = schema, unit' = [unit EXCEPT ![u] = x]
    PROVE  Hosted(disk, Selected, files', unit', schema')
  <1>1. unit \in [Units -> UnitStates] /\ x \in UnitStates /\ x.is # "active"
    BY UnitFacts DEF Hosted, HostType
  <1>2. unit' \in [Units -> UnitStates]
    BY <1>1
  <1>3. HostType(files', unit', schema')
    BY <1>2 DEF Hosted, HostType
  <1>4. unit'["o3kd"].is = "active" => unit'["o3kd"] = unit["o3kd"]
    BY <1>1, UnitFacts
  <1>5. Serving(files', unit', schema')
    BY <1>4 DEF Hosted, Serving
  <1> QED BY <1>3, <1>5 DEF Hosted

\* A service that is started, while the attempt is under way; o3kd has then
\* migrated the database to its own schema.
LEMMA StartKeeps ==
    ASSUME Recorded, Hosted(disk, Selected, files, unit, schema), NEW u \in Units,
           disk.phase \notin {"None", "Committed"} \cup Early,
           files' = files, unit' = [unit EXCEPT ![u] = Active(files[u])],
           schema' = IF u = "o3kd" THEN Schema[files["o3kd"]] ELSE schema
    PROVE  Hosted(disk, Selected, files', unit', schema')
  <1>1. unit \in [Units -> UnitStates] /\ files \in [Files -> Releases]
    BY DEF Hosted, HostType
  <1>2. u \in Files /\ "o3kd" \in Files /\ files[u] \in Releases /\ files["o3kd"] \in Releases
    BY <1>1, UnitFacts, StepNames
  <1>3. unit' \in [Units -> UnitStates]
    BY <1>1, <1>2, UnitFacts
  <1>4. schema' \in {Schema[r] : r \in Releases}
    BY <1>2, Numbers DEF Hosted, HostType
  <1>5. HostType(files', unit', schema')
    BY <1>1, <1>3, <1>4 DEF HostType
  <1>6. Serving(files', unit', schema')
    <2>1. CASE u = "o3kd"
      <3>1. unit'["o3kd"] = Active(files["o3kd"])
        BY <1>1, <2>1
      <3> QED BY <2>1, <3>1, UnitFacts DEF Serving
    <2>2. CASE u # "o3kd"
      <3>1. unit'["o3kd"] = unit["o3kd"]
        BY <1>1, <2>2, UnitFacts
      <3> QED BY <2>2, <3>1 DEF Serving, Hosted
    <2> QED BY <2>1, <2>2
  <1>7. Selected # 0 => Within(Selected, files', schema')
    <2> SUFFICES ASSUME Selected # 0 PROVE Within(Selected, files', schema')
      OBVIOUS
    <2>1. Within(Selected, files, schema)
      BY DEF Hosted
    <2>2. schema' \in {Schema[Held(Selected)], Schema[backups[Selected].target]}
      <3>1. About(Selected, files["o3kd"])
        BY <1>2, <2>1 DEF Within
      <3> QED BY <2>1, <3>1 DEF Within, About
    <2> QED BY <2>1, <2>2 DEF Within
  <1> QED BY <1>5, <1>6, <1>7 DEF Hosted

\* A file that is replaced while o3kd is not running.
LEMMA FileKeeps ==
    ASSUME Recorded, Hosted(disk, Selected, files, unit, schema), NEW s \in Files, NEW r,
           disk.phase \notin {"None", "Committed"} \cup Early,
           unit["o3kd"].is # "active",
           Selected # 0, About(Selected, r),
           disk.phase \in Installed =>
              r # disk.target /\ \A f \in Files : Rank[f] < Rank[s] => files[f] # disk.target,
           unit' = unit, schema' = schema, files' = [files EXCEPT ![s] = r]
    PROVE  Hosted(disk, Selected, files', unit', schema')
  <1>1. r \in Releases
    BY SelectedFacts, BackupFacts DEF About
  <1>2. files \in [Files -> Releases]
    BY DEF Hosted, HostType
  <1>3. /\ files' \in [Files -> Releases] /\ files'[s] = r
        /\ \A f \in Files : f # s => files'[f] = files[f]
    BY <1>1, <1>2
  <1>4. HostType(files', unit', schema')
    BY <1>3 DEF Hosted, HostType
  <1>5. Serving(files', unit', schema')
    BY DEF Serving
  <1>6. disk.phase \in Installed => Falling(files', disk.target)
    <2> SUFFICES ASSUME disk.phase \in Installed, NEW f \in Files, NEW g \in Files,
                        Rank[f] < Rank[g], files'[f] = disk.target
                 PROVE  files'[g] = disk.target
      BY DEF Falling
    <2>1. f # s /\ files[f] = disk.target
      BY <1>3
    <2>2. files[g] = disk.target
      BY <2>1 DEF Hosted, Falling
    <2>3. g # s
      BY <2>1
    <2> QED BY <1>3, <2>2, <2>3
  <1>7. Within(Selected, files', schema')
    <2>1. Within(Selected, files, schema)
      BY DEF Hosted
    <2> QED BY <1>3, <2>1 DEF Within
  <1> QED BY <1>4, <1>5, <1>6, <1>7 DEF Hosted

\* A database that is restored while o3kd is not running.
LEMMA DatabaseKeeps ==
    ASSUME Recorded, Hosted(disk, Selected, files, unit, schema),
           disk.phase \notin {"None", "Committed"} \cup Early,
           unit["o3kd"].is # "active",
           Selected # 0, run.backup = Selected,
           files' = files, unit' = unit, schema' = Restored
    PROVE  /\ schema' = Schema[Held(Selected)]
           /\ Hosted(disk, Selected, files', unit', schema')
  <1>1. Selected \in DOMAIN backups
    BY SelectedFacts
  <1>2. Within(Selected, files, schema)
    BY DEF Hosted
  <1>3. schema' = Schema[Held(Selected)]
    BY <1>1, <1>2, BackupFacts DEF Restored, Within
  <1>4. Held(Selected) \in Releases
    BY <1>1, BackupFacts
  <1>5. HostType(files', unit', schema')
    BY <1>3, <1>4, Numbers DEF Hosted, HostType
  <1>6. Serving(files', unit', schema')
    BY DEF Serving
  <1>7. Within(Selected, files', schema')
    BY <1>2, <1>3 DEF Within
  <1> QED BY <1>3, <1>5, <1>6, <1>7 DEF Hosted

\* Once services have been stopped the attempt has a backup to go back to.
LEMMA LateFacts ==
    ASSUME Recorded, Durable, disk.phase \in Late
    PROVE  /\ disk.backup # 0 /\ Selected = disk.backup /\ disk.backup \in DOMAIN backups
           /\ backups[disk.backup].target = disk.target
           /\ disk.target \in Releases
           /\ Held(disk.backup) # disk.target
           /\ Schema[disk.target] >= Schema[Held(disk.backup)]
  <1>1. disk.backup # 0 /\ backups[disk.backup].target = disk.target /\ disk.target \in Releases
    BY DEF Durable
  <1>2. disk.backup \in DOMAIN backups
    BY <1>1, SelectedFacts
  <1>3. Selected = disk.backup
    BY <1>1 DEF Selected
  <1> QED BY <1>1, <1>2, <1>3, BackupFacts

\* A step that changes the host is taken only while the attempt is under way,
\* and with the backup that a rollback would select.
LEMMA UnderWay ==
    ASSUME UInv, run.todo # <<>>, Head(run.todo) \notin Quiet
    PROVE  /\ disk.phase \notin {"None", "Committed"} \cup Early
           /\ Selected # 0 /\ Selected \in DOMAIN backups /\ run.backup = Selected
  <1> DEFINE s == Head(run.todo)
  <1>1. Recorded /\ RunType /\ Durable /\ Running
    BY DEF UInv
  <1>2. s \in In(run.todo) /\ s \in AllSteps /\ s \notin Quiet
    BY <1>1, Busy
  <1>3. run.cmd # "none" /\ (~run.undo => Forward) /\ (run.undo => Undoing)
    BY <1>1, Busy
  <1> HIDE DEF s
  <1>4. CASE ~run.undo
    <2>1. disk.phase \in Late /\ run.phase = disk.phase
      BY <1>2, <1>3, <1>4, ForwardAt, StepKinds, PhaseKinds
    <2>2. run.phase # "BackupCreated"
      BY <2>1, PhaseKinds
    <2>3. run.backup = disk.backup
      BY <1>3, <1>4, <2>2 DEF Forward
    <2>4. Selected # 0 /\ Selected = disk.backup /\ Selected \in DOMAIN backups
      BY <1>1, <2>1, LateFacts
    <2> QED BY <2>1, <2>3, <2>4, PhaseKinds
  <1>5. CASE run.undo
    <2>1. disk.phase \in Undoable \cup {"RolledBack"} /\ run.backup # 0 /\ run.backup = Selected
      BY <1>3, <1>5 DEF Undoing
    <2>2. Selected \in DOMAIN backups
      BY <1>1, <2>1, SelectedFacts
    <2>3. disk.phase \notin {"None", "Committed"} \cup Early
      BY <2>1, PhaseKinds DEF Early
    <2> QED BY <2>1, <2>2, <2>3
  <1> QED BY <1>4, <1>5

\* The release a step installs, and what has been installed before it.
LEMMA FileInstalled ==
    ASSUME UInv, run.todo # <<>>, NEW s \in Files, Head(run.todo) = s
    PROVE  /\ About(Selected, Wanted(s))
           /\ disk.phase \in Installed =>
                 /\ Wanted(s) # disk.target
                 /\ \A f \in Files : Rank[f] < Rank[s] => files[f] # disk.target
           /\ ~run.undo => disk.phase = "BinariesInstalled" /\ Wanted(s) = disk.target
           /\ run.undo => Wanted(s) = Held(Selected)
  <1>1. Recorded /\ RunType /\ Durable /\ Running
    BY DEF UInv
  <1>2. s \in In(run.todo) /\ s \in AllSteps /\ s \notin Quiet
    BY <1>1, Busy, StepNames DEF Quiet
  <1>3. Selected # 0 /\ Selected \in DOMAIN backups /\ run.backup = Selected
    BY <1>2, UnderWay
  <1>4. (~run.undo => Forward) /\ (run.undo => Undoing)
    BY <1>1, Busy
  <1>5. CASE ~run.undo
    <2>1. disk.phase = "BinariesInstalled"
      BY <1>2, <1>4, <1>5, ForwardAt
    <2>2. Wanted(s) = disk.target
      BY <1>5 DEF Wanted
    <2>3. backups[Selected].target = disk.target
      BY <1>1, <2>1, LateFacts, PhaseKinds
    <2> QED BY <1>5, <2>1, <2>2, <2>3, PhaseKinds DEF About
  <1>6. CASE run.undo
    <2>1. Wanted(s) = Held(Selected)
      <3>1. backups[Selected].files = [f \in Files |-> Held(Selected)]
        BY <1>1, <1>3, BackupFacts
      <3>2. Wanted(s) = backups[Selected].files[s]
        BY <1>3, <1>6 DEF Wanted
      <3> QED BY <3>1, <3>2
    <2>2. ASSUME disk.phase \in Installed, NEW f \in Files, Rank[f] < Rank[s]
          PROVE  files[f] = Held(Selected)
      <3>1. f \notin In(run.todo)
        <4> DEFINE todo == run.todo
        <4>1. todo \in Seq(AllSteps) /\ Sorted(todo) /\ todo # <<>> /\ Head(todo) = s
          BY <1>1, <1>4, <1>6 DEF RunType, Undoing
        <4> HIDE DEF todo
        <4>2. In(todo) = {s} \cup In(Tail(todo)) /\ \A a \in In(Tail(todo)) : Rank[s] < Rank[a]
          BY <4>1, InRest, SortedRest
        <4>3. f \in AllSteps /\ Rank[f] \in Nat /\ Rank[s] \in Nat
          BY <1>2, UndoRanks
        <4>4. f # s /\ ~(Rank[s] < Rank[f])
          BY <2>2, <4>3
        <4> QED BY <4>2, <4>4 DEF todo
      <3> QED BY <1>3, <1>4, <1>6, <3>1 DEF Undoing
    <2>3. disk.phase \in Installed => Held(Selected) # disk.target
      BY <1>1, LateFacts, PhaseKinds
    <2> QED BY <1>6, <2>1, <2>2, <2>3 DEF About
  <1> QED BY <1>5, <1>6

\* In a rollback the steps before the next one are done, and those after it
\* are still to be done.
LEMMA UndoHead ==
    ASSUME RunType, Undoing, run.todo # <<>>, NEW s, s = Head(run.todo)
    PROVE  /\ s \in UndoSteps /\ s \in AllSteps
           /\ In(run.todo) = {s} \cup In(Tail(run.todo)) /\ s \notin In(Tail(run.todo))
           /\ Tail(run.todo) \in Seq(AllSteps) /\ Sorted(Tail(run.todo))
           /\ \A a \in AllSteps : Rank[a] < Rank[s] => a \notin In(run.todo)
           /\ \A b \in UndoSteps \ {"record", "clear"} :
                 Rank[s] < Rank[b] => b \in In(Tail(run.todo))
  <1> DEFINE todo == run.todo
  <1>1. todo \in Seq(AllSteps) /\ Sorted(todo) /\ todo # <<>> /\ Head(todo) = s
    BY DEF RunType, Undoing
  <1>2. (\A a \in In(todo) : Rank[a] > 0)
        /\ \A a \in In(todo), b \in UndoSteps \ {"record", "clear"} : Rank[a] < Rank[b] => b \in In(todo)
    BY DEF Undoing
  <1> HIDE DEF todo
  <1>3. /\ In(todo) = {s} \cup In(Tail(todo)) /\ s \in AllSteps /\ Tail(todo) \in Seq(AllSteps)
        /\ Sorted(Tail(todo)) /\ \A a \in In(Tail(todo)) : Rank[s] < Rank[a]
    BY <1>1, InRest, SortedRest
  <1>4. s \in UndoSteps
    BY <1>2, <1>3, UndoRanks
  <1>5. \A a \in AllSteps : Rank[a] \in Nat
    BY UndoRanks
  <1>6. \A a \in AllSteps : Rank[a] < Rank[s] => a \notin In(todo)
    BY <1>3, <1>5
  <1>7. s \notin In(Tail(todo))
    BY <1>3, <1>5
  <1>8. UndoSteps \subseteq AllSteps
    BY UndoRanks
  <1>9. \A b \in UndoSteps \ {"record", "clear"} : Rank[s] < Rank[b] => b \in In(Tail(todo))
    BY <1>2, <1>3, <1>5, <1>8
  <1> QED BY <1>3, <1>4, <1>6, <1>7, <1>9 DEF todo

\* A step that takes effect leaves the host as it may be.
LEMMA EffectHosted ==
    ASSUME UInv, run.todo # <<>>, NEW s \in AllSteps, Head(run.todo) = s, Succeeds(s), Effect(s)
    PROVE  Hosted(disk, Selected, files', unit', schema')
  <1>1. Recorded /\ RunType /\ Durable /\ Running /\ Hosted(disk, Selected, files, unit, schema)
    BY DEF UInv
  <1>2. CASE s \in Quiet
    <2>1. files' = files /\ unit' = unit /\ schema' = schema
      BY <1>2, Effects
    <2> QED BY <1>1, <2>1
  <1>3. CASE s \notin Quiet
    <2>1. /\ disk.phase \notin {"None", "Committed"} \cup Early
          /\ Selected # 0 /\ Selected \in DOMAIN backups /\ run.backup = Selected
      BY <1>3, UnderWay
    <2>2. CASE s \in Files
      <3>1. /\ files' = [files EXCEPT ![s] = Wanted(s)] /\ unit' = unit /\ schema' = schema
            /\ unit["o3kd"].is # "active"
        BY <2>2, Effects, Successes
      <3> QED BY <1>1, <2>1, <2>2, <3>1, FileInstalled, FileKeeps
    <2>3. ASSUME NEW u \in Units, files' = files, schema' = schema, unit' = Stopped(u)
          PROVE  Hosted(disk, Selected, files', unit', schema')
      <3>1. CASE unit[u].is = "failed"
        BY <1>1, <2>3, <3>1 DEF Stopped
      <3>2. CASE unit[u].is # "failed"
        <4>1. unit' = [unit EXCEPT ![u] = Inactive]
          BY <2>3, <3>2 DEF Stopped
        <4> QED BY <1>1, <2>1, <2>3, <4>1, DownKeeps
      <3> QED BY <3>1, <3>2
    <2>4. ASSUME NEW u \in Units, files' = files, unit' = Started(u), unit[u].is = "active" \/ CanStart(u),
                 schema' = IF u = "o3kd" THEN Migrated ELSE schema
          PROVE  Hosted(disk, Selected, files', unit', schema')
      <3>1. CASE unit[u].is = "active"
        <4>1. unit' = unit /\ schema' = schema
          BY <2>4, <3>1 DEF Started, Migrated
        <4> QED BY <1>1, <2>4, <4>1
      <3>2. CASE unit[u].is # "active"
        <4>1. /\ unit' = [unit EXCEPT ![u] = Active(files[u])]
              /\ schema' = IF u = "o3kd" THEN Schema[files["o3kd"]] ELSE schema
          BY <2>4, <3>2 DEF Started, Migrated
        <4> QED BY <1>1, <2>1, <2>4, <4>1, StartKeeps
      <3> QED BY <3>1, <3>2
    <2>5. CASE s = "stop_o3kd"
      BY <2>3, <2>5, Effects, UnitFacts
    <2>6. CASE s = "stop_compute"
      BY <2>3, <2>6, Effects, UnitFacts
    <2>7. CASE s = "start_o3kd"
      BY <2>4, <2>7, Effects, Successes, UnitFacts
    <2>8. CASE s = "start_compute"
      <3>1. CanStart("o3k_compute")
        BY DEF CanStart
      <3> QED BY <2>4, <2>8, <3>1, Effects, UnitFacts
    <2>9. CASE s = "database"
      <3>1. files' = files /\ unit' = unit /\ schema' = Restored
        BY <2>9, Effects
      <3>2. Undoing
        <4>1. s \in In(run.todo) /\ (~run.undo => Forward) /\ (run.undo => Undoing)
          BY <1>1, Busy
        <4>2. Forward => s # "database"
          BY <4>1, ForwardAt
        <4> QED BY <2>9, <4>1, <4>2
      <3>3. "stop_o3kd" \notin In(run.todo) /\ "start_o3kd" \in In(run.todo)
        <4>1. /\ "stop_o3kd" \in AllSteps /\ "start_o3kd" \in UndoSteps \ {"record", "clear"}
              /\ Rank["stop_o3kd"] < Rank[s] /\ Rank[s] < Rank["start_o3kd"]
          BY <2>9, Ranks, StepNames DEF UndoSteps
        <4> QED BY <1>1, <3>2, <4>1, UndoHead
      <3>4. unit["o3kd"].is # "active"
        BY <3>2, <3>3 DEF Undoing
      <3> QED BY <1>1, <2>1, <3>1, <3>4, DatabaseKeeps
    <2> QED BY <1>3, <2>2, <2>5, <2>6, <2>7, <2>8, <2>9, StepKinds
  <1> QED BY <1>2, <1>3

\* A unit that gives up while it is started leaves the host as it may be.
LEMMA FailureHosted ==
    ASSUME UInv, run.todo # <<>>, NEW u \in Units,
           Head(run.todo) = IF u = "o3kd" THEN "start_o3kd" ELSE "start_compute",
           files' = files, schema' = schema, unit' = [unit EXCEPT ![u] = Failed]
    PROVE  Hosted(disk, Selected, files', unit', schema')
  <1>1. Recorded /\ RunType /\ Durable /\ Running /\ Hosted(disk, Selected, files, unit, schema)
    BY DEF UInv
  <1>2. Head(run.todo) \notin Quiet
    BY DEF Quiet
  <1>3. disk.phase \notin {"None", "Committed"} \cup Early
    BY <1>2, UnderWay
  <1> QED BY <1>1, <1>3, DownKeeps

\* A step of an attempt that was never rolled back keeps to what such an
\* attempt may be.
LEMMA EffectStraight ==
    ASSUME UInv, ~interrupted, ~run.undo,
           run.todo # <<>>, NEW s \in AllSteps, Head(run.todo) = s, Succeeds(s), Effect(s)
    PROVE  Straight(disk, files', unit', schema')
  <1>1. Recorded /\ RunType /\ Durable /\ Running /\ Hosted(disk, Selected, files, unit, schema)
    BY DEF UInv
  <1>2. Straight(disk, files, unit, schema)
    BY DEF UInv
  <1>3. Forward /\ s \in In(run.todo)
    BY <1>1, Busy
  <1>4. unit \in [Units -> UnitStates] /\ files \in [Files -> Releases]
    BY <1>1 DEF Hosted, HostType
  <1>5. CASE s \in Quiet
    <2>1. files' = files /\ unit' = unit /\ schema' = schema
      BY <1>5, Effects
    <2> QED BY <1>2, <2>1
  <1>6. CASE s \in {"stop_o3kd", "stop_compute"}
    <2>1. disk.phase = "ServicesStopped"
      BY <1>3, <1>6, ForwardAt
    <2>2. files' = files /\ schema' = schema
      BY <1>6, Effects
    <2>3. Schema[files'["o3kd"]] >= schema'
      BY <1>2, <2>1, <2>2, PhaseKinds DEF Straight
    <2> QED BY <2>1, <2>3, PhaseKinds DEF Straight
  <1>7. CASE s \in Files
    <2>1. /\ files' = [files EXCEPT ![s] = Wanted(s)] /\ unit' = unit /\ schema' = schema
          /\ unit["o3kd"].is # "active"
      BY <1>7, Effects, Successes
    <2>2. disk.phase = "BinariesInstalled" /\ Wanted(s) = disk.target
      BY <1>7, FileInstalled
    <2>3. unit'["o3k_compute"].is # "active"
      BY <1>2, <2>1, <2>2 DEF Straight
    <2>4. Schema[files'["o3kd"]] >= schema'
      <3>1. CASE s = "o3kd"
        <4>1. files'["o3kd"] = disk.target
          BY <1>4, <2>1, <2>2, <3>1, StepNames
        <4>2. schema \in {Schema[Held(disk.backup)], Schema[disk.target]}
          BY <1>1, <2>2, LateFacts, PhaseKinds DEF Hosted, Within
        <4>3. Schema[disk.target] >= Schema[Held(disk.backup)] /\ Schema[disk.target] \in Nat
          BY <1>1, <2>2, LateFacts, PhaseKinds, Numbers
        <4> QED BY <2>1, <4>1, <4>2, <4>3
      <3>2. CASE s # "o3kd"
        <4>1. files'["o3kd"] = files["o3kd"]
          BY <1>4, <2>1, <3>2, StepNames
        <4> QED BY <1>2, <2>1, <2>2, <4>1, PhaseKinds DEF Straight
      <3> QED BY <3>1, <3>2
    <2> QED BY <2>2, <2>3, <2>4, PhaseKinds DEF Straight
  <1>8. CASE s = "start_o3kd"
    <2>1. files' = files /\ unit' = Started("o3kd") /\ schema' = Migrated
      BY <1>8, Effects
    <2>2. disk.phase = "MigrationsApplied"
      BY <1>3, <1>8, ForwardAt
    <2>3. unit'["o3k_compute"] = unit["o3k_compute"]
      BY <1>4, <2>1, UnitFacts DEF Started
    <2>4. Schema[files'["o3kd"]] >= schema'
      <3>1. Schema[files["o3kd"]] >= schema /\ Schema[files["o3kd"]] \in Nat
        BY <1>2, <1>4, <2>2, PhaseKinds, Numbers, StepNames DEF Straight
      <3> QED BY <2>1, <3>1 DEF Migrated
    <2>5. /\ files' = [f \in Files |-> disk.target]
          /\ unit'["o3k_compute"].is = "active" => unit'["o3k_compute"].of = files'["o3k_compute"]
      BY <1>2, <2>1, <2>2, <2>3, PhaseKinds DEF Straight
    <2> QED BY <2>2, <2>4, <2>5, PhaseKinds DEF Straight
  <1>9. CASE s = "start_compute"
    <2>1. files' = files /\ unit' = Started("o3k_compute") /\ schema' = schema
      BY <1>9, Effects
    <2>2. disk.phase = "ServicesStarted"
      BY <1>3, <1>9, ForwardAt
    <2>3. unit'["o3k_compute"].is = "active" => unit'["o3k_compute"].of = files'["o3k_compute"]
      <3>1. CASE unit["o3k_compute"].is = "active"
        BY <1>2, <2>1, <2>2, <3>1, PhaseKinds DEF Straight, Started
      <3>2. CASE unit["o3k_compute"].is # "active"
        <4>1. unit'["o3k_compute"] = Active(files["o3k_compute"])
          BY <1>4, <2>1, <3>2, UnitFacts DEF Started, CanStart
        <4> QED BY <2>1, <4>1, UnitFacts
      <3> QED BY <3>1, <3>2
    <2>4. /\ files' = [f \in Files |-> disk.target]
          /\ Schema[files'["o3kd"]] >= schema'
      BY <1>2, <2>1, <2>2, PhaseKinds DEF Straight
    <2> QED BY <2>2, <2>3, <2>4, PhaseKinds DEF Straight
  <1>10. s # "database"
    BY <1>3, ForwardAt
  <1> QED BY <1>5, <1>6, <1>7, <1>8, <1>9, <1>10, StepKinds

\* The same for a unit that gives up.
LEMMA FailureStraight ==
    ASSUME UInv, ~interrupted, ~run.undo,
           run.todo # <<>>, NEW u \in Units,
           Head(run.todo) = IF u = "o3kd" THEN "start_o3kd" ELSE "start_compute",
           files' = files, schema' = schema, unit' = [unit EXCEPT ![u] = Failed]
    PROVE  Straight(disk, files', unit', schema')
  <1>1. RunType /\ Running /\ Hosted(disk, Selected, files, unit, schema)
        /\ Straight(disk, files, unit, schema)
    BY DEF UInv
  <1>2. unit \in [Units -> UnitStates]
    BY <1>1 DEF Hosted, HostType
  <1>3. disk.phase \in {"MigrationsApplied", "ServicesStarted"}
    <2>1. Forward /\ Head(run.todo) \in In(run.todo)
      BY <1>1, Busy
    <2>2. Head(run.todo) \in {"start_o3kd", "start_compute"}
      OBVIOUS
    <2> QED BY <2>1, <2>2, ForwardAt
  <1>4. unit'["o3k_compute"].is = "active" => unit'["o3k_compute"] = unit["o3k_compute"]
    BY <1>2, UnitFacts
  <1> QED BY <1>1, <1>3, <1>4, PhaseKinds DEF Straight

-----------------------------------------------------------------------------
(***************************************************************************)
(* An invocation ends before its time.                                      *)
(***************************************************************************)
\* The idle invocation, and what it asks of the invariant.
LEMMA IdleFacts ==
    /\ Idle.cmd = "none" /\ Idle.undo = FALSE /\ Idle.todo = <<>>
    /\ \A n \in Nat : Idle \in [cmd : {"none", "upgrade", "rollback"}, phase : AllPhases,
                                todo : Seq(AllSteps), undo : BOOLEAN, backup : 0..n]
  BY DEF Idle, AllPhases

\* No invocation is a well-formed one.
LEMMA IdleRuns ==
    ASSUME Recorded, run' = Idle, backups' = backups
    PROVE  RunType' /\ Running' /\ ~run'.undo
  <1>1. Len(backups) \in Nat
    BY SelectedFacts
  <1>2. RunType'
    BY <1>1, IdleFacts DEF RunType
  <1>3. Running'
    BY IdleFacts DEF Running
  <1> QED BY <1>2, <1>3, IdleFacts

\* The invocation is over and the state file is as it was.
LEMMA IdleKeeps ==
    ASSUME UInv, run' = Idle, disk' = disk, backups' = backups, chain' = chain,
           interrupted' \in BOOLEAN,
           Hosted(disk, Selected, files', unit', schema'),
           ~interrupted' => Straight(disk, files', unit', schema')
    PROVE  UInv'
  <1>1. Recorded /\ Durable
    BY DEF UInv
  <1>2. Recorded'
    BY <1>1 DEF Recorded
  <1>3. RunType' /\ Running'
    BY <1>1, IdleRuns
  <1>4. latest_eligible_backup' = latest_eligible_backup /\ Selected' = Selected
    BY DEF latest_eligible_backup, Selected
  <1>5. Durable'
    BY <1>1, <1>4 DEF Durable, Fresh, About, Held
  <1>6. Hosted(disk, Selected, files, unit, schema)'
    BY <1>4 DEF Hosted, Within, About, Held
  <1>7. ~interrupted' => Straight(disk, files, unit, schema)'
    BY DEF Straight
  <1> QED BY <1>2, <1>3, <1>5, <1>6, <1>7 DEF UInv

\* The state file is removed: the host is intact, and what a rollback would
\* now select is about it.
LEMMA RemovedKeeps ==
    ASSUME UInv, run' = Idle, disk' = NoState, backups' = backups, chain' = chain,
           interrupted' \in BOOLEAN,
           HostType(files', unit', schema'), Serving(files', unit', schema'),
           Intact(files', unit', schema'),
           latest_eligible_backup # 0 => Within(latest_eligible_backup, files', schema')
    PROVE  UInv'
  <1>1. Recorded /\ Durable
    BY DEF UInv
  <1>2. /\ disk'.phase = "None" /\ disk'.backup = 0
        /\ disk' \in [phase : AllPhases, source : Nat, target : Nat, backup : 0..Len(backups)]
    BY <1>1, SelectedFacts DEF NoState, AllPhases
  <1>3. Recorded'
    BY <1>1, <1>2 DEF Recorded
  <1>4. RunType' /\ Running'
    BY <1>1, IdleRuns
  <1>5. latest_eligible_backup' = latest_eligible_backup /\ Selected' = latest_eligible_backup
    BY <1>2 DEF latest_eligible_backup, Selected
  <1>6. disk'.phase \notin Early \cup Late \cup {"Committed"} /\ ~Terminal(disk'.phase)
    BY <1>2, PhaseKinds DEF Terminal, Early
  <1>7. Durable'
    BY <1>1, <1>2, <1>5, <1>6 DEF Durable
  <1>8. disk'.phase \notin Installed \cup Undoable
    BY <1>2, PhaseKinds
  <1>9. Hosted(disk, Selected, files, unit, schema)'
    BY <1>5, <1>6, <1>8 DEF Hosted, Within, About, Held
  <1>10. Straight(disk, files, unit, schema)'
    BY <1>6, <1>8, PhaseKinds DEF Straight
  <1> QED BY <1>3, <1>4, <1>7, <1>9, <1>10 DEF UInv

\* What the drivers do about a failure keeps the invariant.
LEMMA FailureKeeps ==
    ASSUME UInv, run.todo # <<>>, NEW s \in AllSteps, Head(run.todo) = s, AfterFailure(s),
           Hosted(disk, Selected, files', unit', schema'),
           ~interrupted /\ ~run.undo => Straight(disk, files', unit', schema'),
           backups' = backups, chain' = chain, interrupted' = interrupted
    PROVE  UInv'
  <1>1. Recorded /\ RunType /\ Durable /\ Running /\ interrupted' \in BOOLEAN
    BY DEF UInv, Recorded
  <1>2. s \in In(run.todo) /\ (~run.undo => run.cmd = "upgrade" /\ Forward) /\ (run.undo => Undoing)
    BY <1>1, Busy
  <1>3. CASE run.undo /\ s \notin {"record", "clear"}
    <2>1. disk' = [disk EXCEPT !.phase = "FailedUpgrade"] /\ run' = Idle
      BY <1>3 DEF AfterFailure
    <2>2. disk \in [phase : AllPhases, source : Nat, target : Nat, backup : 0..Len(backups)]
      BY <1>1 DEF Recorded
    <2>3. /\ disk' \in [phase : AllPhases, source : Nat, target : Nat, backup : 0..Len(backups)]
          /\ disk'.phase = "FailedUpgrade" /\ disk'.backup = disk.backup /\ disk'.target = disk.target
      BY <2>1, <2>2 DEF AllPhases
    <2>4. Recorded'
      BY <1>1, <2>3 DEF Recorded
    <2>5. RunType' /\ Running'
      BY <1>1, <2>1, IdleRuns
    <2>6. latest_eligible_backup' = latest_eligible_backup /\ Selected' = Selected
      BY <2>3 DEF latest_eligible_backup, Selected
    <2>7. disk'.phase \notin Early \cup Late \cup {"Committed", "None"} \cup Installed \cup Undoable
      BY <2>3, PhaseKinds
    <2>8. Selected # 0
      BY <1>2, <1>3 DEF Undoing
    <2>9. Durable'
      BY <1>1, <2>3, <2>6, <2>7, <2>8 DEF Durable, About, Held
    <2>10. Hosted(disk, Selected, files, unit, schema)'
      BY <2>6, <2>7 DEF Hosted, Within, About, Held
    <2>11. Straight(disk, files, unit, schema)'
      BY <2>7, PhaseKinds DEF Straight
    <2> QED BY <2>4, <2>5, <2>9, <2>10, <2>11 DEF UInv
  <1>4. CASE ~run.undo /\ s # "redownload" /\ run.phase \in Unmutated
    <2>1. disk' = NoState /\ run' = Idle
      BY <1>4 DEF AfterFailure
    <2>2. disk.phase \in Early
      BY <1>2, <1>4 DEF Forward, Unmutated, Early
    <2>3. Selected = latest_eligible_backup
      BY <1>1, <2>2 DEF Durable, Selected
    <2>4. /\ HostType(files', unit', schema') /\ Serving(files', unit', schema')
          /\ Intact(files', unit', schema')
          /\ latest_eligible_backup # 0 => Within(latest_eligible_backup, files', schema')
      BY <2>2, <2>3 DEF Hosted
    <2> QED BY <1>1, <2>1, <2>4, RemovedKeeps
  <1>5. CASE /\ ~run.undo /\ s # "redownload"
             /\ run.phase \notin Unmutated \cup {"ServicesStopped", "Committed"}
    <2>1. run' = [run EXCEPT !.undo = TRUE, !.todo = Undo] /\ disk' = disk
      BY <1>5 DEF AfterFailure
    <2>2. run \in [cmd : {"none", "upgrade", "rollback"}, phase : AllPhases, todo : Seq(AllSteps),
                   undo : BOOLEAN, backup : 0..Len(backups)]
      BY <1>1 DEF RunType
    <2>3. /\ run' \in [cmd : {"none", "upgrade", "rollback"}, phase : AllPhases, todo : Seq(AllSteps),
                       undo : BOOLEAN, backup : 0..Len(backups)]
          /\ run'.undo = TRUE /\ run'.todo = Undo
          /\ run'.cmd = run.cmd /\ run'.phase = run.phase /\ run'.backup = run.backup
      BY <2>1, <2>2, UndoList
    <2>4. RunType'
      BY <2>3 DEF RunType
    <2>5. run.phase \in Undoable /\ disk.phase = run.phase /\ run.backup = disk.backup /\ run.cmd = "upgrade"
      <3>1. run.phase \in DOMAIN Allowed
        BY <1>2, <1>5 DEF Forward
      <3>2. run.phase \in Undoable
        BY <1>5, <3>1, PhaseKinds DEF Allowed, Unmutated
      <3> QED BY <1>2, <1>5, <3>2, PhaseKinds DEF Forward
    <2>6. Selected = disk.backup /\ disk.backup # 0
      BY <1>1, <2>5, LateFacts, PhaseKinds
    <2>7. latest_eligible_backup' = latest_eligible_backup /\ Selected' = Selected
      BY <2>1 DEF latest_eligible_backup, Selected
    <2>8. Recorded'
      BY <1>1, <2>1 DEF Recorded
    <2>9. Durable'
      BY <1>1, <2>1, <2>7 DEF Durable, Fresh, About, Held
    <2>10. Hosted(disk, Selected, files, unit, schema)'
      BY <2>1, <2>7 DEF Hosted, Within, About, Held
    <2>11. Undoing'
      <3> DEFINE T == In(Undo)
      <3>1. /\ T = UndoSteps \ {"record", "clear"} /\ Sorted(Undo) /\ In(run.todo)' = T
        BY <2>3, UndoList DEF In
      <3>2. \A a \in T : Rank[a] > 0
        BY <3>1, UndoRanks
      <3>3. /\ \A f \in Files : f \in T /\ "stop_o3kd" \in T /\ "database" \in T /\ "doctor" \in T
            /\ "clear" \notin T /\ "record" \notin T
        BY <3>1, StepNames DEF UndoSteps
      <3> HIDE DEF T
      <3>4. "stop_o3kd" \in T /\ "database" \in T /\ "doctor" \in T
        BY <3>1 DEF UndoSteps
      <3> QED BY <2>1, <2>3, <2>5, <2>6, <2>7, <3>1, <3>2, <3>3, <3>4 DEF Undoing
    <2>12. Running'
      BY <2>3, <2>5, <2>11 DEF Running
    <2> QED BY <2>3, <2>4, <2>8, <2>9, <2>10, <2>12 DEF UInv
  <1>6. CASE \/ run.undo /\ s \in {"record", "clear"}
             \/ ~run.undo /\ s = "redownload"
             \/ ~run.undo /\ run.phase \in {"ServicesStopped", "Committed"}
    <2>1. run' = Idle /\ disk' = disk
      BY <1>6 DEF AfterFailure, Unmutated
    <2>2. ~interrupted' => Straight(disk, files', unit', schema')
      <3>1. CASE ~run.undo
        BY <3>1
      <3>2. CASE run.undo
        <4>1. disk.phase = "RolledBack"
          BY <1>2, <1>6, <3>2 DEF Undoing
        <4> QED BY <4>1, PhaseKinds DEF Straight
      <3> QED BY <3>1, <3>2
    <2> QED BY <1>1, <2>1, <2>2, IdleKeeps
  <1> QED BY <1>3, <1>4, <1>5, <1>6

\* A step that cannot succeed.
LEMMA RefusedKeeps ==
    ASSUME UInv, NEW s \in AllSteps, StepRefused(s)
    PROVE  UInv'
  <1>1. /\ run.todo # <<>> /\ Head(run.todo) = s /\ ~Succeeds(s)
        /\ Effect(IF s \in Files THEN "api" ELSE s) /\ AfterFailure(s)
        /\ backups' = backups /\ chain' = chain /\ interrupted' = interrupted
    BY DEF StepRefused
  <1>2. Hosted(disk, Selected, files, unit, schema)
        /\ (~interrupted /\ ~run.undo => Straight(disk, files, unit, schema))
    BY DEF UInv
  <1>3. /\ files' = files /\ schema' = schema
        /\ \/ unit' = unit
           \/ s = "start_o3kd" /\ unit' = [unit EXCEPT !["o3kd"] = Failed]
    BY <1>1, Refusals
  <1>4. CASE unit' = unit
    BY <1>1, <1>2, <1>3, <1>4, FailureKeeps
  <1>5. CASE s = "start_o3kd" /\ unit' = [unit EXCEPT !["o3kd"] = Failed]
    <2>1. "o3kd" \in Units
      BY UnitFacts
    <2>2. Hosted(disk, Selected, files', unit', schema')
      BY <1>1, <1>3, <1>5, <2>1, FailureHosted
    <2>3. ~interrupted /\ ~run.undo => Straight(disk, files', unit', schema')
      BY <1>1, <1>3, <1>5, <2>1, FailureStraight
    <2> QED BY <1>1, <2>2, <2>3, FailureKeeps
  <1> QED BY <1>3, <1>4, <1>5

\* A step that could have succeeded.
LEMMA FailsKeeps ==
    ASSUME UInv, NEW s \in AllSteps, StepFails(s)
    PROVE  UInv'
  <1>1. /\ run.todo # <<>> /\ Head(run.todo) = s /\ Succeeds(s) /\ AfterFailure(s)
        /\ backups' = backups /\ chain' = chain /\ interrupted' = interrupted
    BY DEF StepFails
  <1>2. Hosted(disk, Selected, files, unit, schema)
        /\ (~interrupted /\ ~run.undo => Straight(disk, files, unit, schema))
    BY DEF UInv
  <1>3. CASE UNCHANGED host
    <2>1. files' = files /\ unit' = unit /\ schema' = schema
      BY <1>3 DEF host
    <2> QED BY <1>1, <1>2, <2>1, FailureKeeps
  <1>4. CASE Effect(s)
    <2>1. Hosted(disk, Selected, files', unit', schema')
      BY <1>1, <1>4, EffectHosted
    <2>2. ~interrupted /\ ~run.undo => Straight(disk, files', unit', schema')
      BY <1>1, <1>4, EffectStraight
    <2> QED BY <1>1, <2>1, <2>2, FailureKeeps
  <1>5. ASSUME NEW u \in Units, s = IF u = "o3kd" THEN "start_o3kd" ELSE "start_compute",
               unit' = [unit EXCEPT ![u] = Failed], files' = files, schema' = schema
        PROVE  UInv'
    <2>1. Hosted(disk, Selected, files', unit', schema')
      BY <1>1, <1>5, FailureHosted
    <2>2. ~interrupted /\ ~run.undo => Straight(disk, files', unit', schema')
      BY <1>1, <1>5, FailureStraight
    <2> QED BY <1>1, <2>1, <2>2, FailureKeeps
  <1> QED BY <1>3, <1>4, <1>5 DEF StepFails

\* What the death of an invocation leaves behind.
LEMMA DiedKeeps ==
    ASSUME UInv, Died, Hosted(disk, Selected, files', unit', schema'),
           ~interrupted /\ ~run.undo => Straight(disk, files', unit', schema')
    PROVE  UInv'
  <1>1. Recorded /\ RunType /\ Running
    BY DEF UInv
  <1>2. /\ run' = Idle /\ disk' = disk /\ backups' = backups /\ chain' = chain
        /\ interrupted' = (interrupted \/ (run.cmd = "upgrade" /\ run.undo))
    BY DEF Died
  <1>3. interrupted' \in BOOLEAN
    BY <1>2
  <1>4. ~interrupted' => Straight(disk, files', unit', schema')
    <2> SUFFICES ASSUME ~interrupted' PROVE Straight(disk, files', unit', schema')
      OBVIOUS
    <2>1. ~interrupted /\ ~(run.cmd = "upgrade" /\ run.undo)
      BY <1>2
    <2>2. CASE ~run.undo
      BY <2>1, <2>2
    <2>3. CASE run.undo
      <3>1. run.cmd # "none" /\ run.cmd # "upgrade" /\ Undoing
        BY <1>1, <2>1, <2>3, IdleFacts DEF Running
      <3>2. disk.phase = "RolledBack"
        BY <3>1 DEF Undoing
      <3> QED BY <3>2, PhaseKinds DEF Straight
    <2> QED BY <2>2, <2>3
  <1> QED BY <1>2, <1>3, <1>4, IdleKeeps

\* The invocation dies.
LEMMA CrashKeeps ==
    ASSUME UInv, Crash
    PROVE  UInv'
  <1>1. Died /\ files' = files /\ unit' = unit /\ schema' = schema
    BY DEF Crash, Died
  <1> QED BY <1>1, DiedKeeps DEF UInv

\* The host goes down with it, and boots.
LEMMA RebootKeeps ==
    ASSUME UInv, Reboot
    PROVE  UInv'
  <1>1. Recorded /\ Durable /\ Hosted(disk, Selected, files, unit, schema)
        /\ (~interrupted /\ ~run.undo => Straight(disk, files, unit, schema))
    BY DEF UInv
  <1>2. /\ Died /\ files' = files
        /\ unit' = [u \in Units |-> IF CanStart(u) THEN Active(files[u]) ELSE Failed]
        /\ schema' = IF CanStart("o3kd") THEN Schema[files["o3kd"]] ELSE schema
    BY DEF Reboot, Died
  <1>3. /\ files \in [Files -> Releases] /\ unit \in [Units -> UnitStates]
        /\ schema \in {Schema[r] : r \in Releases}
    BY <1>1 DEF Hosted, HostType
  <1>4. /\ files["o3kd"] \in Releases /\ files["o3k_compute"] \in Releases
        /\ unit'["o3k_compute"] = Active(files["o3k_compute"])
        /\ unit'["o3kd"] = IF CanStart("o3kd") THEN Active(files["o3kd"]) ELSE Failed
    BY <1>2, <1>3, StepNames, UnitFacts DEF CanStart
  <1>5. unit' \in [Units -> UnitStates]
    BY <1>2, <1>3, StepNames, UnitFacts
  <1>6. HostType(files', unit', schema')
    BY <1>2, <1>3, <1>4, <1>5, Numbers DEF HostType
  <1>7. Serving(files', unit', schema')
    BY <1>2, <1>4, UnitFacts DEF Serving
  <1>8. Schema[files["o3kd"]] \in Nat
    BY <1>4, Numbers
  <1>9. ASSUME Intact(files, unit, schema) PROVE Intact(files', unit', schema')
    <2>1. PICK r \in Releases : files = [f \in Files |-> r] /\ schema = Schema[r]
      BY <1>9 DEF Intact, Whole
    <2>2. files["o3kd"] = r /\ CanStart("o3kd")
      BY <1>8, <2>1, StepNames DEF CanStart
    <2>3. Whole(files', schema')
      BY <1>2, <2>1, <2>2 DEF Whole
    <2>4. \A u \in Units : unit'[u].is = "active"
      BY <1>4, <2>2, UnitFacts
    <2> QED BY <2>3, <2>4 DEF Intact
  <1>10. Selected # 0 => Within(Selected, files', schema')
    <2>1. "o3kd" \in Files
      BY StepNames
    <2> QED BY <1>1, <1>2, <2>1 DEF Hosted, Within, About
  <1>11. Hosted(disk, Selected, files', unit', schema')
    BY <1>1, <1>2, <1>6, <1>7, <1>9, <1>10 DEF Hosted
  <1>12. ASSUME ~interrupted /\ ~run.undo PROVE Straight(disk, files', unit', schema')
    <2>1. Straight(disk, files, unit, schema)
      BY <1>1, <1>12
    <2>2. disk.phase \in Late => CanStart("o3kd")
      BY <2>1 DEF Straight, CanStart
    <2>3. disk.phase \in Late => Schema[files'["o3kd"]] >= schema'
      BY <1>2, <1>8, <2>2
    <2>4. unit'["o3k_compute"].of = files'["o3k_compute"]
      BY <1>2, <1>4, UnitFacts
    <2>5. disk.phase = "BinariesInstalled" => unit'["o3kd"].is = "active"
      BY <1>4, <2>2, UnitFacts, PhaseKinds
    <2>6. disk.phase = "Committed" => unit' = [u \in Units |-> Active(disk.target)] /\ schema' = Schema[disk.target]
      <3> SUFFICES ASSUME disk.phase = "Committed"
                   PROVE  unit' = [u \in Units |-> Active(disk.target)] /\ schema' = Schema[disk.target]
        OBVIOUS
      <3>1. files = [f \in Files |-> disk.target] /\ schema = Schema[disk.target]
        BY <2>1 DEF Straight
      <3>2. /\ files["o3kd"] = disk.target /\ files["o3k_compute"] = disk.target
            /\ CanStart("o3kd")
        BY <1>8, <3>1, StepNames DEF CanStart
      <3>3. \A u \in Units : CanStart(u) /\ files[u] = disk.target
        BY <3>2, UnitFacts DEF CanStart
      <3> QED BY <1>2, <3>2, <3>3
    <2> QED BY <1>2, <2>1, <2>3, <2>4, <2>5, <2>6 DEF Straight
  <1> QED BY <1>2, <1>11, <1>12, DiedKeeps

-----------------------------------------------------------------------------
(***************************************************************************)
(* An invocation begins, and ends.                                          *)
(***************************************************************************)
\* The backup is the last step of its phase, resumed or not.
LEMMA BackupLast ==
    /\ \A i \in DOMAIN Steps("BackupCreated", 0) :
          Steps("BackupCreated", 0)[i] = "backup" => i = Len(Steps("BackupCreated", 0))
    /\ \A i \in DOMAIN (<<"redownload">> \o Steps("BackupCreated", 0)) :
          (<<"redownload">> \o Steps("BackupCreated", 0))[i] = "backup" =>
             i = Len(<<"redownload">> \o Steps("BackupCreated", 0))
  <1>1. Steps("BackupCreated", 0) = <<"backup">>
    BY StepLists
  <1> DEFINE t == <<"backup">>
             q == <<"redownload">> \o t
  <1>2. t \in Seq({"backup"}) /\ Len(t) = 1 /\ DOMAIN t = {1}
    OBVIOUS
  <1>3. Len(q) = 2 /\ DOMAIN q = 1..2 /\ q[1] = "redownload"
    OBVIOUS
  <1>4. \A i \in DOMAIN t : t[i] = "backup" => i = Len(t)
    BY <1>2
  <1>5. \A i \in DOMAIN q : q[i] = "backup" => i = Len(q)
    <2> HIDE DEF q
    <2> QED BY <1>3
  <1> HIDE DEF t
  <1>6. Steps("BackupCreated", 0) = t
    BY <1>1 DEF t
  <1> QED BY <1>4, <1>5, <1>6

\* The state file, the backups and the chain are as they were: so is what a
\* rollback would select, and the host may be what it could be before.
LEMMA SameRecords ==
    ASSUME UInv, disk' = disk, backups' = backups, chain' = chain, interrupted' = interrupted,
           files' = files, unit' = unit, schema' = schema
    PROVE  /\ Recorded' /\ Durable' /\ Hosted(disk, Selected, files, unit, schema)'
           /\ latest_eligible_backup' = latest_eligible_backup /\ Selected' = Selected
           /\ ~interrupted' /\ ~run.undo => Straight(disk, files, unit, schema)'
  <1>1. Recorded /\ Durable /\ Hosted(disk, Selected, files, unit, schema)
        /\ (~interrupted /\ ~run.undo => Straight(disk, files, unit, schema))
    BY DEF UInv
  <1>2. latest_eligible_backup' = latest_eligible_backup /\ Selected' = Selected
    BY DEF latest_eligible_backup, Selected
  <1>3. Recorded'
    BY <1>1 DEF Recorded
  <1>4. Durable'
    BY <1>1, <1>2 DEF Durable, Fresh, About, Held
  <1>5. Hosted(disk, Selected, files, unit, schema)'
    BY <1>1, <1>2 DEF Hosted, Within, About, Held
  <1>6. ~interrupted' /\ ~run.undo => Straight(disk, files, unit, schema)'
    BY <1>1 DEF Straight
  <1> QED BY <1>2, <1>3, <1>4, <1>5, <1>6

\* A freshly installed host.
LEMMA InitKeeps == Init => UInv
  <1> SUFFICES ASSUME Init PROVE UInv
    OBVIOUS
  <1>1. /\ files = [f \in Files |-> 1] /\ unit = [u \in Units |-> Active(1)] /\ schema = Schema[1]
        /\ disk = NoState /\ backups = <<>> /\ chain = <<>> /\ run = Idle /\ interrupted = FALSE
    BY DEF Init
  <1>2. 1 \in Releases
    BY ReleasesAssumption DEF Releases
  <1>3. disk.phase = "None" /\ disk.backup = 0
    BY <1>1 DEF NoState
  <1>4. Recorded
    <2>1. disk \in [phase : AllPhases, source : Nat, target : Nat, backup : 0..Len(backups)]
      BY <1>1 DEF NoState, AllPhases
    <2>2. \A S : <<>> \in Seq(S)
      OBVIOUS
    <2> QED BY <1>1, <2>1, <2>2 DEF Recorded
  <1>5. latest_eligible_backup = 0 /\ Selected = 0
    BY <1>1, <1>3 DEF latest_eligible_backup, Selected
  <1>6. disk.phase \notin Early \cup Late \cup {"Committed"} \cup Installed \cup Undoable
        /\ ~Terminal(disk.phase)
    BY <1>3, PhaseKinds DEF Terminal, Early
  <1>7. Durable
    BY <1>1, <1>3, <1>5, <1>6 DEF Durable
  <1>8. unit \in [Units -> UnitStates] /\ files \in [Files -> Releases]
    BY <1>1, <1>2, UnitFacts
  <1>9. HostType(files, unit, schema)
    BY <1>1, <1>2, <1>8 DEF HostType
  <1>10. \A u \in Units : unit[u].is = "active" /\ unit[u].of = 1
    BY <1>1, UnitFacts
  <1>11. files["o3kd"] = 1 /\ "o3kd" \in Units
    BY <1>1, StepNames, UnitFacts
  <1>12. Serving(files, unit, schema)
    BY <1>1, <1>10, <1>11 DEF Serving
  <1>13. Intact(files, unit, schema)
    BY <1>1, <1>2, <1>10 DEF Intact, Whole
  <1>14. Hosted(disk, Selected, files, unit, schema)
    BY <1>5, <1>6, <1>9, <1>12, <1>13 DEF Hosted
  <1>15. Straight(disk, files, unit, schema)
    BY <1>6, PhaseKinds DEF Straight
  <1>16. RunType
    BY <1>1, IdleFacts DEF RunType
  <1>17. Running
    BY <1>1, IdleFacts DEF Running
  <1> QED BY <1>4, <1>7, <1>14, <1>15, <1>16, <1>17 DEF UInv

\* A new attempt.
LEMMA DiscoverKeeps ==
    ASSUME UInv, NEW r \in Releases, discover(r)
    PROVE  UInv'
  <1>1. /\ run = Idle /\ ~Resumable(disk.phase) /\ ~Terminal(disk.phase)
        /\ r > files["release_manifest"]
        /\ disk' = [phase |-> "Discovered", source |-> files["release_manifest"],
                    target |-> r, backup |-> 0]
        /\ run' = [cmd |-> "upgrade", phase |-> "ReleaseDownloaded",
                   todo |-> Steps("ReleaseDownloaded", 0), undo |-> FALSE, backup |-> 0]
        /\ files' = files /\ unit' = unit /\ schema' = schema
        /\ backups' = backups /\ chain' = chain /\ interrupted' = interrupted
    BY DEF discover, Begin
  <1>2. Recorded /\ Durable /\ Hosted(disk, Selected, files, unit, schema)
    BY DEF UInv
  <1>3. disk.phase \in {"None"} \cup Early
    <2>1. disk.phase \in AllPhases
      BY <1>2 DEF Recorded
    <2> QED BY <1>1, <2>1, ResumablePhases DEF AllPhases, Terminal
  <1>4. disk.backup = 0
    BY <1>2, <1>3 DEF Durable, NoState
  <1>5. disk'.phase = "Discovered" /\ disk'.target = r /\ disk'.backup = 0
    BY <1>1
  <1>6. latest_eligible_backup' = latest_eligible_backup /\ Selected' = Selected
    BY <1>1, <1>4, <1>5 DEF latest_eligible_backup, Selected
  <1>7. files \in [Files -> Releases] /\ Intact(files, unit, schema)
    BY <1>2, <1>3 DEF Hosted, HostType
  <1>8. files["release_manifest"] = files["o3kd"] /\ files["o3kd"] \in Releases
    BY <1>7, StepNames DEF Intact, Whole
  <1>9. files["o3kd"] \in Nat /\ r \in Nat /\ Len(backups) \in Nat
    BY <1>2, <1>8, Numbers, SelectedFacts
  <1>10. Recorded'
    <2>1. disk' \in [phase : AllPhases, source : Nat, target : Nat, backup : 0..Len(backups)]
      BY <1>1, <1>8, <1>9 DEF AllPhases, Early
    <2> QED BY <1>1, <1>2, <2>1 DEF Recorded
  <1>11. disk'.phase \notin Late \cup {"Committed", "None"} \cup Installed \cup Undoable
         /\ ~Terminal(disk'.phase)
    BY <1>5, PhaseKinds DEF Terminal
  <1>12. Durable'
    BY <1>5, <1>11 DEF Durable
  <1>13. Hosted(disk, Selected, files, unit, schema)'
    BY <1>1, <1>2, <1>5, <1>6, <1>7, <1>8, <1>9, <1>11 DEF Hosted, Within, About, Held
  <1>14. Straight(disk, files, unit, schema)'
    BY <1>5, <1>11, PhaseKinds DEF Straight
  <1>15. "ReleaseDownloaded" \in DOMAIN Allowed
    BY DEF Allowed
  <1>16. RunType'
    <2>1. Steps("ReleaseDownloaded", 0) \in Seq(AllSteps)
      BY <1>15, StepsAllowed
    <2> QED BY <1>1, <1>9, <2>1 DEF RunType, AllPhases, Early
  <1>17. Forward'
    <2>1. In(run'.todo) \subseteq Allowed["ReleaseDownloaded"] /\ In(run.todo)' = In(run'.todo)
      BY <1>1, <1>15, StepsAllowed DEF In
    <2>2. run'.phase = "ReleaseDownloaded" /\ run'.backup = 0
      BY <1>1
    <2> QED BY <1>5, <1>15, <2>1, <2>2 DEF Forward
  <1>18. Running' /\ ~run'.undo
    <2>1. run'.cmd = "upgrade" /\ run'.undo = FALSE
      BY <1>1
    <2> QED BY <1>17, <2>1 DEF Running
  <1> QED BY <1>10, <1>12, <1>13, <1>14, <1>16, <1>18 DEF UInv

\* An attempt is taken up again in the phase it recorded.
LEMMA ResumeKeeps ==
    ASSUME UInv, Resume
    PROVE  UInv'
  <1> DEFINE todo == (IF disk.phase = "Committed" THEN <<>> ELSE <<"redownload">>)
                         \o Steps(disk.phase, disk.backup)
  <1>1. /\ run = Idle /\ Resumable(disk.phase)
        /\ run' = [cmd |-> "upgrade", phase |-> disk.phase, todo |-> todo, undo |-> FALSE,
                   backup |-> disk.backup]
        /\ files' = files /\ unit' = unit /\ schema' = schema /\ disk' = disk
        /\ backups' = backups /\ chain' = chain /\ interrupted' = interrupted
    BY DEF Resume, Begin
  <1> HIDE DEF todo
  <1>2. Recorded /\ Durable
    BY DEF UInv
  <1>3. disk.phase \in Late \cup {"BackupCreated", "Committed"} /\ disk.phase \in AllPhases
    <2>1. disk.phase \in AllPhases
      BY <1>2 DEF Recorded
    <2> QED BY <1>1, <2>1, ResumablePhases
  <1>4. disk.phase \in DOMAIN Allowed
    BY <1>3, PhaseKinds DEF Allowed
  <1>5. disk.backup \in 0..Len(backups) /\ Len(backups) \in Nat /\ disk.backup \in Nat
    BY <1>2, SelectedFacts
  <1>6. /\ run'.cmd = "upgrade" /\ run'.phase = disk.phase /\ run'.todo = todo
        /\ run'.undo = FALSE /\ run'.backup = disk.backup
    BY <1>1
  <1>7. /\ todo \in Seq(AllSteps)
        /\ disk.phase = "Committed" => In(todo) = In(Steps(disk.phase, disk.backup))
        /\ disk.phase # "Committed" =>
              In(todo) = {"redownload"} \cup In(Steps(disk.phase, disk.backup))
    <2> DEFINE q == Steps(disk.phase, disk.backup)
    <2>1. q \in Seq(AllSteps)
      BY <1>4, <1>5, StepsAllowed
    <2>2. CASE disk.phase = "Committed"
      <3>1. todo = <<>> \o q
        BY <2>2 DEF todo
      <3> HIDE DEF q
      <3>2. todo = q
        BY <2>1, <3>1
      <3> QED BY <2>1, <2>2, <3>2 DEF q
    <2>3. CASE disk.phase # "Committed"
      <3>1. todo = <<"redownload">> \o Steps(disk.phase, disk.backup)
        BY <2>3 DEF todo
      <3> QED BY <1>4, <1>5, <2>3, <3>1, StepsAllowed
    <2> QED BY <2>2, <2>3
  <1>8. RunType'
    BY <1>1, <1>3, <1>5, <1>7 DEF RunType
  <1>9. In(run.todo)' = In(todo)
    BY <1>6 DEF In
  <1>10. In(todo) \subseteq Allowed[disk.phase]
    <2>1. In(Steps(disk.phase, disk.backup)) \subseteq Allowed[disk.phase]
      BY <1>4, <1>5, StepsAllowed
    <2>2. disk.phase # "Committed" => "redownload" \in Allowed[disk.phase]
      BY <1>3, PhaseKinds DEF Allowed
    <2> QED BY <1>7, <2>1, <2>2
  <1>11. /\ disk.phase = "BackupCreated" => disk.backup = 0 /\ "backup" \in In(todo)
         /\ disk.phase = "ServicesStopped" => "stop_compute" \in In(todo) /\ "stop_o3kd" \in In(todo)
         /\ disk.phase = "BinariesInstalled" => \A f \in Files : f \in In(todo)
         /\ disk.phase = "DoctorPassed" => "doctor" \in In(todo)
         /\ disk.phase = "Committed" => "clear" \in In(todo) /\ "commit" \in In(todo)
    <2>1. disk.phase = "BackupCreated" => disk.backup = 0
      BY <1>2 DEF Durable, Early
    <2> QED BY <1>4, <1>5, <1>7, <2>1, StepsAllowed
  <1>12. disk.phase = "BackupCreated" =>
            \A i \in DOMAIN todo : todo[i] = "backup" => i = Len(todo)
    <2> SUFFICES ASSUME disk.phase = "BackupCreated"
                 PROVE  \A i \in DOMAIN todo : todo[i] = "backup" => i = Len(todo)
      OBVIOUS
    <2>1. todo = <<"redownload">> \o Steps("BackupCreated", 0)
      BY <1>11 DEF todo
    <2> QED BY <2>1, BackupLast
  <1>13. disk'.phase = run'.phase /\ run'.phase # "ReleaseDownloaded"
    BY <1>1, <1>3, <1>6, PhaseKinds
  <1>14. Forward'
    BY <1>1, <1>4, <1>6, <1>9, <1>10, <1>11, <1>12, <1>13 DEF Forward
  <1>15. Running'
    BY <1>6, <1>14 DEF Running
  <1>16. ~run.undo
    BY <1>1, IdleFacts
  <1> QED BY <1>1, <1>8, <1>15, <1>16, SameRecords DEF UInv

\* The rollback command.
LEMMA RollbackKeeps ==
    ASSUME UInv, run_rollback
    PROVE  UInv'
  <1> DEFINE todo == Undo \o <<"record", "clear">>
  <1>1. /\ run = Idle /\ Selected # 0
        /\ disk' = IF disk # NoState THEN [disk EXCEPT !.phase = "RolledBack"]
                   ELSE [phase |-> "RolledBack", source |-> backups[Selected].source,
                         target |-> backups[Selected].target, backup |-> Selected]
        /\ run' = [cmd |-> "rollback", phase |-> "RolledBack", todo |-> todo, undo |-> TRUE,
                   backup |-> Selected]
        /\ files' = files /\ unit' = unit /\ schema' = schema
        /\ backups' = backups /\ chain' = chain /\ interrupted' = interrupted
    BY DEF run_rollback, Begin
  <1> HIDE DEF todo
  <1>2. Recorded /\ Durable /\ Hosted(disk, Selected, files, unit, schema)
    BY DEF UInv
  <1>3. Selected \in DOMAIN backups /\ Selected \in 0..Len(backups)
    BY <1>1, <1>2, SelectedFacts
  <1>4. disk \in [phase : AllPhases, source : Nat, target : Nat, backup : 0..Len(backups)]
    BY <1>2 DEF Recorded
  <1>5. backups[Selected].source \in Nat /\ backups[Selected].target \in Nat
    BY <1>2, <1>3, BackupFacts
  <1>6. /\ disk' \in [phase : AllPhases, source : Nat, target : Nat, backup : 0..Len(backups)]
        /\ disk'.phase = "RolledBack"
    BY <1>1, <1>3, <1>4, <1>5 DEF AllPhases
  <1>7. /\ disk # NoState => disk'.backup = disk.backup /\ disk'.target = disk.target
        /\ disk = NoState => disk'.backup = Selected /\ disk'.target = backups[Selected].target
    BY <1>1, <1>4
  <1>8. disk = NoState => disk.backup = 0 /\ Selected = latest_eligible_backup
    BY DEF NoState, Selected
  <1>9. latest_eligible_backup' = latest_eligible_backup
    BY <1>1 DEF latest_eligible_backup
  <1>10. Selected' = Selected
    BY <1>1, <1>7, <1>8, <1>9 DEF Selected
  <1>11. Recorded'
    BY <1>1, <1>2, <1>6 DEF Recorded
  <1>12. disk'.phase \notin Early \cup Late \cup {"Committed", "None"} \cup Installed \cup Undoable
    BY <1>6, PhaseKinds
  <1>13. /\ disk'.backup # 0 => backups[disk'.backup].target = disk'.target
         /\ disk'.backup # 0 /\ latest_eligible_backup # 0 =>
               About(latest_eligible_backup, Held(disk'.backup))
    BY <1>2, <1>7, <1>8 DEF Durable, About
  <1>14. Durable'
    BY <1>1, <1>9, <1>10, <1>12, <1>13 DEF Durable, About, Held
  <1>15. Hosted(disk, Selected, files, unit, schema)'
    BY <1>1, <1>2, <1>10, <1>12 DEF Hosted, Within, About, Held
  <1>16. /\ run'.cmd = "rollback" /\ run'.phase = "RolledBack" /\ run'.todo = todo
         /\ run'.undo = TRUE /\ run'.backup = Selected
    BY <1>1
  <1>17. todo \in Seq(AllSteps) /\ In(todo) = UndoSteps /\ Sorted(todo)
    BY UndoList DEF todo
  <1>18. RunType'
    BY <1>1, <1>3, <1>17 DEF RunType, AllPhases
  <1>19. Undoing'
    <2>1. In(run.todo)' = UndoSteps
      BY <1>16, <1>17 DEF In
    <2>2. /\ \A s \in UndoSteps : Rank[s] > 0
          /\ \A f \in Files : f \in UndoSteps
      BY UndoRanks
    <2>3. /\ "clear" \in UndoSteps /\ "database" \in UndoSteps /\ "stop_o3kd" \in UndoSteps
          /\ "doctor" \in UndoSteps
      BY DEF UndoSteps
    <2> QED BY <1>1, <1>6, <1>10, <1>16, <1>17, <2>1, <2>2, <2>3 DEF Undoing
  <1>20. Running'
    BY <1>16, <1>19 DEF Running
  <1> QED BY <1>11, <1>14, <1>15, <1>16, <1>18, <1>20 DEF UInv

\* A rollback that has come past its doctor has restored the host.
LEMMA UndoneIsIntact ==
    ASSUME UInv, Undoing, In(run.todo) \subseteq {"clear"}
    PROVE  /\ Intact(files, unit, schema)
           /\ latest_eligible_backup # 0 => Within(latest_eligible_backup, files, schema)
  <1>1. Recorded /\ Durable /\ Hosted(disk, Selected, files, unit, schema)
    BY DEF UInv
  <1>2. run.backup # 0 /\ run.backup = Selected /\ Selected \in DOMAIN backups
    BY <1>1, SelectedFacts DEF Undoing
  <1>3. \A f \in Files : f \notin In(run.todo)
    BY StepNames
  <1>4. \A f \in Files : files[f] = Held(Selected)
    BY <1>2, <1>3 DEF Undoing
  <1>5. schema = Schema[Held(Selected)] /\ \A u \in Units : unit[u].is = "active"
    BY <1>2 DEF Undoing
  <1>6. files \in [Files -> Releases] /\ Held(Selected) \in Releases
    BY <1>1, <1>2, BackupFacts DEF Hosted, HostType
  <1>7. files = [f \in Files |-> Held(Selected)]
    BY <1>4, <1>6
  <1>8. Intact(files, unit, schema)
    BY <1>5, <1>6, <1>7 DEF Intact, Whole
  <1>9. ASSUME latest_eligible_backup # 0
        PROVE  Within(latest_eligible_backup, files, schema)
    <2>1. About(latest_eligible_backup, Held(Selected))
      <3>1. CASE disk.backup # 0
        BY <1>1, <1>9, <3>1 DEF Durable, Selected
      <3>2. CASE disk.backup = 0
        BY <3>2 DEF Selected, About
      <3> QED BY <3>1, <3>2
    <2> QED BY <1>4, <1>5, <2>1 DEF Within, About
  <1> QED BY <1>8, <1>9

\* The end of an upgrade or of a rollback.
LEMMA ClearKeeps ==
    ASSUME UInv, Clear
    PROVE  UInv'
  <1>1. /\ \/ run.todo = <<"clear">>
           \/ run.cmd = "upgrade" /\ run.undo /\ run.todo = <<>>
        /\ disk' = NoState /\ run' = Idle /\ interrupted' = FALSE
        /\ files' = files /\ unit' = unit /\ schema' = schema /\ backups' = backups /\ chain' = chain
    BY DEF Clear
  <1>2. Recorded /\ RunType /\ Durable /\ Running /\ Hosted(disk, Selected, files, unit, schema)
    BY DEF UInv
  <1>3. HostType(files, unit, schema) /\ Serving(files, unit, schema)
    BY <1>2 DEF Hosted
  <1>4. In(run.todo) \subseteq {"clear"}
    BY <1>1, InTuples
  <1>5. /\ Intact(files, unit, schema)
        /\ latest_eligible_backup # 0 => Within(latest_eligible_backup, files, schema)
    <2>1. CASE run.undo
      <3>1. Undoing
        BY <1>1, <1>2, <2>1, IdleFacts DEF Running
      <3> QED BY <1>4, <3>1, UndoneIsIntact
    <2>2. CASE ~run.undo
      <3>1. run.todo = <<"clear">> /\ run.todo # <<>>
        BY <1>1, <2>2
      <3>2. Forward /\ "clear" \in In(run.todo)
        BY <1>2, <2>2, <3>1, Busy, InTuples
      <3>3. run.phase = "Committed" /\ disk.phase = "Committed"
        BY <3>2, ForwardAt
      <3>4. latest_eligible_backup = disk.backup
        BY <1>4, <3>2, <3>3 DEF Forward
      <3>5. Selected = latest_eligible_backup
        BY <3>4 DEF Selected
      <3> QED BY <1>2, <3>3, <3>5 DEF Hosted
    <2> QED BY <2>1, <2>2
  <1> QED BY <1>1, <1>3, <1>5, RemovedKeeps

\* The host of an attempt whose binaries are installed is of one release when
\* doctor finds it healthy, and runs the target if it was never rolled back.
LEMMA HealthyIsIntact ==
    ASSUME UInv, disk.phase \in Installed, Healthy
    PROVE  Intact(files, unit, schema)
  <1>1. Recorded /\ Durable /\ Hosted(disk, Selected, files, unit, schema)
    BY DEF UInv
  <1>2. disk.phase \in Late
    BY PhaseKinds
  <1>3. /\ Falling(files, disk.target) /\ files \in [Files -> Releases]
        /\ Serving(files, unit, schema)
    BY <1>1 DEF Hosted, HostType
  <1>4. Selected = disk.backup /\ disk.backup # 0 /\ backups[disk.backup].target = disk.target
    BY <1>1, <1>2, LateFacts
  <1>5. \A f \in Files : files[f] = Held(disk.backup) \/ files[f] = disk.target
    BY <1>1, <1>4 DEF Hosted, Within, About
  <1>6. /\ files["o3kd"] = files["SHA256SUMS"] /\ files["o3k"] = files["SHA256SUMS"]
        /\ files["o3k_compute"] = files["SHA256SUMS"]
        /\ \A u \in Units : unit[u].is = "active"
    BY DEF Healthy, Consistent, BINARIES, Units
  <1>7. files["release_manifest"] = files["SHA256SUMS"]
    <2>1. files["release_manifest"] = disk.target => files["SHA256SUMS"] = disk.target
      BY <1>3, Ranks, StepNames DEF Falling
    <2>2. files["o3kd"] = disk.target => files["release_manifest"] = disk.target
      BY <1>3, Ranks, StepNames DEF Falling
    <2> QED BY <1>5, <1>6, <2>1, <2>2, StepNames
  <1>8. \A f \in Files : files[f] = files["o3kd"]
    BY <1>6, <1>7, StepNames
  <1>9. files["o3kd"] \in Releases /\ files = [f \in Files |-> files["o3kd"]]
    BY <1>3, <1>8, StepNames
  <1>10. schema = Schema[files["o3kd"]]
    BY <1>3, <1>6, UnitFacts DEF Serving
  <1> QED BY <1>6, <1>9, <1>10 DEF Intact, Whole

\* The next phase is recorded, and begun.
LEMMA AdvanceKeeps ==
    ASSUME UInv, Advance
    PROVE  UInv'
  <1> DEFINE p == NextPhase(run.phase)
             todo == Steps(p, run.backup)
  <1>1. /\ run.cmd = "upgrade" /\ ~run.undo /\ run.todo = <<>>
        /\ disk' = [disk EXCEPT !.phase = p, !.backup = run.backup]
        /\ run' = [run EXCEPT !.phase = p, !.todo = todo]
        /\ files' = files /\ unit' = unit /\ schema' = schema
        /\ backups' = backups /\ chain' = chain /\ interrupted' = interrupted
    BY DEF Advance
  <1>2. /\ Recorded /\ RunType /\ Durable /\ Running /\ Hosted(disk, Selected, files, unit, schema)
        /\ ~interrupted => Straight(disk, files, unit, schema)
    BY <1>1 DEF UInv
  <1>3. Forward /\ In(run.todo) = {}
    BY <1>1, <1>2, InTuples DEF Running
  <1>4. run.phase \in {"ReleaseDownloaded", "ReleaseVerified", "PreflightPassed", "BackupCreated",
                       "ServicesStopped", "BinariesInstalled", "MigrationsApplied", "ServicesStarted",
                       "HealthVerified", "DoctorPassed"}
    <2>1. run.phase \in DOMAIN Allowed /\ run.phase # "Committed"
      BY <1>3 DEF Forward
    <2> QED BY <2>1 DEF Allowed
  <1>5. p \in DOMAIN Allowed /\ p \in AllPhases /\ p \notin {"ReleaseDownloaded", "None", "FailedUpgrade", "RolledBack"}
    BY <1>4, NextPhases DEF Allowed, AllPhases, Early, Late, Undoable
  <1>6. /\ run.phase \in {"ReleaseDownloaded", "ReleaseVerified", "PreflightPassed"} =>
              p \in Early /\ p \notin Late \cup {"Committed"} /\ disk.phase \in Early
        /\ run.phase = "BackupCreated" => p = "ServicesStopped" /\ disk.phase \in Early
        /\ run.phase \in Late => disk.phase = run.phase /\ p \in Undoable \cup {"Committed"}
        /\ p = "BackupCreated" <=> run.phase = "PreflightPassed"
        /\ p = "BinariesInstalled" <=> run.phase = "ServicesStopped"
        /\ p = "MigrationsApplied" <=> run.phase = "BinariesInstalled"
        /\ p = "Committed" <=> run.phase = "DoctorPassed"
        /\ p \in Installed => run.phase \in {"BinariesInstalled"} \cup Installed
    BY <1>3, <1>4, NextPhases, PhaseKinds DEF Forward, Early
  <1>7. /\ disk \in [phase : AllPhases, source : Nat, target : Nat, backup : 0..Len(backups)]
        /\ run \in [cmd : {"none", "upgrade", "rollback"}, phase : AllPhases, todo : Seq(AllSteps),
                    undo : BOOLEAN, backup : 0..Len(backups)]
        /\ Len(backups) \in Nat
    BY <1>2, SelectedFacts DEF Recorded, RunType
  <1>8. run.backup \in Nat /\ todo \in Seq(AllSteps) /\ In(todo) \subseteq Allowed[p]
    <2>1. run.backup \in Nat
      BY <1>7
    <2> HIDE DEF p
    <2> QED BY <1>5, <2>1, StepsAllowed
  <1>9. \A b \in Nat : p = "BackupCreated" /\ b = 0 =>
                          Steps(p, b) = Steps("BackupCreated", 0)
    OBVIOUS
  <1> HIDE DEF p
  <1>10. /\ p = "BackupCreated" /\ run.backup = 0 => "backup" \in In(todo)
         /\ p = "ServicesStopped" => In(todo) = {"stop_compute", "stop_o3kd"}
         /\ p = "BinariesInstalled" => In(todo) = Files
         /\ p = "DoctorPassed" => "doctor" \in In(todo)
         /\ p = "Committed" => In(todo) = {"commit", "clear"}
    BY <1>5, <1>8, StepsAllowed
  <1>11. p = "BackupCreated" /\ run.backup = 0 =>
            \A i \in DOMAIN todo : todo[i] = "backup" => i = Len(todo)
    BY BackupLast
  <1> HIDE DEF todo
  <1>12. /\ disk' \in [phase : AllPhases, source : Nat, target : Nat, backup : 0..Len(backups)]
         /\ disk'.phase = p /\ disk'.backup = run.backup /\ disk'.target = disk.target
         /\ run' \in [cmd : {"none", "upgrade", "rollback"}, phase : AllPhases, todo : Seq(AllSteps),
                    undo : BOOLEAN, backup : 0..Len(backups)]
         /\ run'.cmd = "upgrade" /\ run'.undo = run.undo /\ run'.phase = p /\ run'.todo = todo
         /\ run'.backup = run.backup
    BY <1>1, <1>5, <1>7, <1>8
  <1>13. Recorded' /\ RunType'
    BY <1>1, <1>2, <1>12 DEF Recorded, RunType
  <1>14. latest_eligible_backup' = latest_eligible_backup
    BY <1>1 DEF latest_eligible_backup
  <1>15. CASE run.phase \in {"ReleaseDownloaded", "ReleaseVerified", "PreflightPassed"}
    <2>1. run.backup = disk.backup /\ disk.backup = 0 /\ disk.target \in Releases
      BY <1>2, <1>3, <1>6, <1>15 DEF Forward, Durable
    <2>2. Selected' = Selected
      BY <1>12, <1>14, <2>1 DEF Selected
    <2>3. p \in Early /\ p \notin Late \cup Installed \cup Undoable \cup {"Committed", "None"} /\ ~Terminal(p)
      BY <1>5, <1>6, <1>15, PhaseKinds DEF Terminal
    <2>4. Durable'
      BY <1>12, <2>1, <2>3 DEF Durable
    <2>5. Hosted(disk, Selected, files, unit, schema)'
      BY <1>1, <1>2, <1>6, <1>12, <1>15, <2>2, <2>3 DEF Hosted, Within, About, Held
    <2>6. Straight(disk, files, unit, schema)'
      BY <1>12, <2>3, PhaseKinds DEF Straight
    <2>7. Forward'
      <3>1. In(run.todo)' = In(todo)
        BY <1>12 DEF In
      <3> QED BY <1>5, <1>6, <1>8, <1>10, <1>11, <1>12, <1>15, <2>1, <2>3, <3>1, PhaseKinds DEF Forward
    <2>8. Running'
      BY <1>1, <1>12, <2>7 DEF Running
    <2> QED BY <1>13, <2>4, <2>5, <2>6, <2>8 DEF UInv
  <1>16. CASE run.phase = "BackupCreated"
    <2>1. /\ run.backup # 0 /\ Fresh(run.backup) /\ backups[run.backup].files = files
          /\ backups[run.backup].target = disk.target
      BY <1>3, <1>16 DEF Forward
    <2>2. run.backup \in DOMAIN backups
      BY <1>2, <1>7, <2>1, SelectedFacts
    <2>3. p = "ServicesStopped" /\ disk.phase \in Early /\ disk.backup = 0 /\ disk.target \in Releases
      BY <1>2, <1>6, <1>16 DEF Durable
    <2>4. Selected = latest_eligible_backup /\ Selected' = run.backup
      BY <1>12, <2>1, <2>3 DEF Selected
    <2>5. Intact(files, unit, schema) /\ HostType(files, unit, schema) /\ Serving(files, unit, schema)
      BY <1>2, <2>3 DEF Hosted
    <2>6. files["o3kd"] = Held(run.backup)
      BY <2>1 DEF Held
    <2>7. \A f \in Files : files[f] = files["o3kd"] /\ schema = Schema[files["o3kd"]]
      BY <2>5, StepNames DEF Intact, Whole
    <2>8. schema = Schema[files["o3kd"]]
      BY <2>7, StepNames
    <2>9. latest_eligible_backup # 0 => About(latest_eligible_backup, Held(run.backup))
      <3>1. "o3kd" \in Files
        BY StepNames
      <3> QED BY <1>2, <2>4, <2>6, <3>1 DEF Hosted, Within
    <2>10. Within(run.backup, files, schema)
      BY <2>6, <2>7, <2>8 DEF Within, About
    <2>11. /\ p \in Late /\ p \notin Early \cup Installed \cup Undoable \cup {"Committed", "None", "BinariesInstalled"}
           /\ ~Terminal(p)
      BY <2>3, PhaseKinds DEF Terminal
    <2>12. Durable'
      BY <1>1, <1>12, <1>14, <2>1, <2>3, <2>9, <2>11 DEF Durable, Fresh, About, Held
    <2>13. Hosted(disk, Selected, files, unit, schema)'
      BY <1>1, <1>12, <2>4, <2>5, <2>10, <2>11 DEF Hosted, Within, About, Held
    <2>14. Schema[files["o3kd"]] >= schema
      <3>1. files["o3kd"] \in Releases
        BY <2>5, StepNames DEF HostType
      <3>2. Schema[files["o3kd"]] \in Nat
        BY <3>1, Numbers
      <3> QED BY <2>8, <3>2
    <2>15. Straight(disk, files, unit, schema)'
      BY <1>1, <1>12, <2>11, <2>14 DEF Straight
    <2>16. Forward'
      <3>1. In(run.todo)' = {"stop_compute", "stop_o3kd"}
        BY <1>10, <1>12, <2>3 DEF In
      <3> QED BY <1>5, <1>8, <1>10, <1>12, <2>3, <3>1 DEF Forward
    <2>17. Running'
      BY <1>1, <1>12, <2>16 DEF Running
    <2> QED BY <1>13, <2>12, <2>13, <2>15, <2>17 DEF UInv
  <1>17. CASE run.phase \in Late
    <2>1. run.phase # "BackupCreated" /\ disk.phase = run.phase /\ disk.phase \in Late
      BY <1>6, <1>17, PhaseKinds
    <2>2. run.backup = disk.backup
      BY <1>3, <2>1 DEF Forward
    <2>3. Selected' = Selected
      BY <1>12, <1>14, <2>2 DEF Selected
    <2>4. /\ p \in Undoable \cup {"Committed"} /\ p \in Late \cup {"Committed"}
          /\ p \notin Early \cup {"None", "ServicesStopped", "BackupCreated"} /\ ~Terminal(p)
          /\ p \in Installed \cup {"BinariesInstalled", "Committed"}
      BY <1>6, <1>17, PhaseKinds DEF Terminal, Early
    <2>5. Durable'
      BY <1>1, <1>2, <1>12, <1>14, <2>1, <2>2, <2>4 DEF Durable, Fresh, About, Held
    <2>6. p = "Committed" => Intact(files, unit, schema)
      BY <1>3, <1>6 DEF Forward
    <2>7. p = "MigrationsApplied" => \A f \in Files : files[f] = disk.target
      BY <1>3, <1>6 DEF Forward
    <2>8. p \in Installed => Falling(files, disk.target)
      <3>1. CASE p = "MigrationsApplied"
        BY <2>7, <3>1 DEF Falling
      <3>2. CASE p # "MigrationsApplied"
        <4>1. p \in Installed => disk.phase \in Installed
          BY <1>6, <2>1, <3>2
        <4> QED BY <1>2, <4>1 DEF Hosted
      <3> QED BY <3>1, <3>2
    <2>9. Hosted(disk, Selected, files, unit, schema)'
      BY <1>1, <1>2, <1>12, <2>3, <2>4, <2>6, <2>8 DEF Hosted, Within, About, Held
    <2>10. ASSUME ~interrupted PROVE Straight(disk, files, unit, schema)'
      <3>1. Straight(disk, files, unit, schema)
        BY <1>2, <2>10
      <3>2. Schema[files["o3kd"]] >= schema
        BY <2>1, <3>1 DEF Straight
      <3>3. p = "BinariesInstalled" => unit["o3k_compute"].is # "active"
        BY <1>3, <1>6, UnitFacts DEF Forward
      <3>4. /\ files \in [Files -> Releases] /\ unit \in [Units -> UnitStates]
            /\ Serving(files, unit, schema)
        BY <1>2 DEF Hosted, HostType
      <3>5. p \in Installed \cup {"Committed"} => files = [f \in Files |-> disk.target]
        <4>1. CASE p = "MigrationsApplied"
          BY <2>7, <3>4, <4>1
        <4>2. CASE p # "MigrationsApplied"
          <5>1. p \in Installed \cup {"Committed"} => disk.phase \in Installed
            BY <1>6, <2>1, <4>2, PhaseKinds
          <5> QED BY <3>1, <5>1 DEF Straight
        <4> QED BY <4>1, <4>2
      <3>6. unit["o3k_compute"].is = "active" /\ p # "BinariesInstalled" =>
               unit["o3k_compute"].of = files["o3k_compute"]
        <4>1. p # "BinariesInstalled" => disk.phase \in Undoable
          BY <1>6, <2>1, PhaseKinds
        <4> QED BY <3>1, <4>1 DEF Straight
      <3>7. ASSUME p = "Committed"
            PROVE  unit = [u \in Units |-> Active(disk.target)] /\ schema = Schema[disk.target]
        <4>1. \A u \in Units : unit[u].is = "active" /\ unit[u] \in UnitStates
          BY <2>6, <3>4, <3>7 DEF Intact
        <4>2. files["o3kd"] = disk.target /\ files["o3k_compute"] = disk.target
          BY <3>5, <3>7, StepNames
        <4>3. unit["o3kd"].of = disk.target /\ unit["o3k_compute"].of = disk.target
              /\ schema = Schema[disk.target]
          BY <3>4, <3>6, <3>7, <4>1, <4>2, UnitFacts DEF Serving
        <4>4. \A u \in Units : unit[u] = Active(disk.target)
          BY <4>1, <4>3, UnitFacts
        <4> QED BY <3>4, <4>3, <4>4
      <3> QED BY <1>1, <1>12, <2>4, <3>2, <3>3, <3>5, <3>6, <3>7, PhaseKinds DEF Straight
    <2>11. Forward'
      <3>1. In(run.todo)' = In(todo)
        BY <1>12 DEF In
      <3>2. p # "BackupCreated" /\ p # "ServicesStopped" /\ p # "ReleaseDownloaded"
        BY <1>5, <2>4
      <3> QED BY <1>5, <1>8, <1>10, <1>12, <3>1, <3>2 DEF Forward
    <2>12. Running'
      BY <1>1, <1>12, <2>11 DEF Running
    <2> QED BY <1>1, <1>12, <1>13, <2>5, <2>9, <2>10, <2>12 DEF UInv
  <1> QED BY <1>4, <1>15, <1>16, <1>17, PhaseKinds

-----------------------------------------------------------------------------
(***************************************************************************)
(* A step succeeds.                                                         *)
(***************************************************************************)
\* What a step does to the invocation, to the backups and to the chain.
LEMMA StepFacts ==
    ASSUME UInv, NEW s \in AllSteps, Step(s)
    PROVE  /\ run.todo # <<>> /\ Head(run.todo) = s /\ s # "clear" /\ Succeeds(s) /\ Effect(s)
           /\ run.todo \in Seq(AllSteps) /\ run'.todo = Tail(run.todo)
           /\ In(run.todo) = {s} \cup In(run.todo)' /\ run'.todo \in Seq(AllSteps)
           /\ run'.cmd = run.cmd /\ run'.phase = run.phase /\ run'.undo = run.undo
           /\ run' = [run EXCEPT !.todo = Tail(run.todo), !.backup = run'.backup]
           /\ s # "backup" => backups' = backups /\ run'.backup = run.backup
           /\ s = "backup" => backups' = Append(backups, Snapshot) /\ run'.backup = Len(backups) + 1
           /\ s = "commit" => chain' = Appended(run.backup, "Backup")
           /\ s = "record" => chain' = Appended(run.backup, "Rollback")
           /\ s \notin {"commit", "record"} => chain' = chain
           /\ disk' = disk /\ interrupted' = interrupted
           /\ Recorded /\ RunType /\ Durable /\ Running
           /\ run.cmd # "none" /\ s \in In(run.todo)
           /\ ~run.undo => run.cmd = "upgrade" /\ Forward
           /\ run.undo => Undoing
  <1>1. Recorded /\ RunType /\ Durable /\ Running
    BY DEF UInv
  <1>2. run \in [cmd : {"none", "upgrade", "rollback"}, phase : AllPhases, todo : Seq(AllSteps),
                 undo : BOOLEAN, backup : 0..Len(backups)]
    BY <1>1 DEF RunType
  <1>3. /\ run.todo # <<>> /\ Head(run.todo) = s /\ s # "clear" /\ Succeeds(s) /\ Effect(s)
        /\ backups' = IF s = "backup" THEN Append(backups, Snapshot) ELSE backups
        /\ run' = [run EXCEPT !.todo = Tail(@), !.backup = IF s = "backup" THEN Len(backups) + 1 ELSE @]
        /\ disk' = disk /\ interrupted' = interrupted
    BY DEF Step
  <1>4. /\ s = "commit" => chain' = Appended(run.backup, "Backup")
        /\ s = "record" => chain' = Appended(run.backup, "Rollback")
        /\ s \notin {"commit", "record"} => chain' = chain
    BY DEF Step
  <1>5. /\ run'.todo = Tail(run.todo)
        /\ run'.cmd = run.cmd /\ run'.phase = run.phase /\ run'.undo = run.undo
        /\ run'.backup = IF s = "backup" THEN Len(backups) + 1 ELSE run.backup
        /\ run' = [run EXCEPT !.todo = Tail(run.todo), !.backup = run'.backup]
    BY <1>2, <1>3
  <1>6. In(run.todo) = {s} \cup In(run.todo)' /\ run'.todo \in Seq(AllSteps)
    <2> DEFINE todo == run.todo
               A == AllSteps
    <2>1. todo \in Seq(A) /\ todo # <<>> /\ Head(todo) = s
      BY <1>2, <1>3
    <2>2. In(run.todo)' = In(Tail(todo))
      BY <1>5 DEF In
    <2> HIDE DEF todo, A
    <2>3. In(todo) = {Head(todo)} \cup In(Tail(todo)) /\ Tail(todo) \in Seq(A)
      BY <2>1, InRest
    <2> QED BY <1>5, <2>1, <2>2, <2>3 DEF todo, A
  <1>7. /\ run.cmd # "none" /\ s \in In(run.todo)
        /\ ~run.undo => run.cmd = "upgrade" /\ Forward
        /\ run.undo => Undoing
    BY <1>1, <1>3, Busy
  <1> QED BY <1>1, <1>2, <1>3, <1>4, <1>5, <1>6, <1>7

\* The invocation stays well formed.
LEMMA StepRunType ==
    ASSUME UInv, NEW s \in AllSteps, Step(s), s # "backup"
    PROVE  RunType'
  <1>1. run \in [cmd : {"none", "upgrade", "rollback"}, phase : AllPhases, todo : Seq(AllSteps),
                 undo : BOOLEAN, backup : 0..Len(backups)]
    BY DEF UInv, RunType
  <1>2. /\ run' = [run EXCEPT !.todo = Tail(run.todo), !.backup = run'.backup]
        /\ run'.backup = run.backup /\ backups' = backups
        /\ Tail(run.todo) \in Seq(AllSteps)
    BY StepFacts
  <1>3. run' \in [cmd : {"none", "upgrade", "rollback"}, phase : AllPhases, todo : Seq(AllSteps),
                 undo : BOOLEAN, backup : 0..Len(backups)]
    BY <1>1, <1>2
  <1> QED BY <1>2, <1>3 DEF RunType

\* A step of an upgrade other than the backup and the commit.
LEMMA ForwardSteps ==
    ASSUME UInv, NEW s \in AllSteps, Step(s), ~run.undo, s \notin {"backup", "commit"}
    PROVE  Forward'
  <1>1. /\ run.todo # <<>> /\ Head(run.todo) = s /\ s # "clear" /\ Succeeds(s) /\ Effect(s)
        /\ In(run.todo) = {s} \cup In(run.todo)' /\ s \in In(run.todo)
        /\ run'.phase = run.phase /\ run'.backup = run.backup
        /\ backups' = backups /\ disk' = disk
        /\ Forward /\ Recorded /\ RunType /\ Durable
    BY StepFacts
  <1>2. chain' = chain
    BY <1>1, ForwardAt, StepFacts
  <1>3. latest_eligible_backup' = latest_eligible_backup
    BY <1>2 DEF latest_eligible_backup
  <1>4. Hosted(disk, Selected, files, unit, schema)
    BY DEF UInv
  <1>5. unit \in [Units -> UnitStates] /\ files \in [Files -> Releases]
    BY <1>4 DEF Hosted, HostType
  <1>6. run.phase = "BackupCreated" => files' = files
    <2>1. run.phase = "BackupCreated" => s \in Quiet
      BY <1>1, ForwardAt, StepKinds
    <2> QED BY <1>1, <2>1, Effects
  <1>7. ASSUME run.phase = "BackupCreated"
        PROVE  /\ "backup" \in In(run.todo)' <=> "backup" \in In(run.todo)
               /\ \A i \in DOMAIN run'.todo : run'.todo[i] = "backup" => i = Len(run'.todo)
    <2>1. "backup" \in In(run.todo)' <=> "backup" \in In(run.todo)
      BY <1>1
    <2>2. run'.todo = Tail(run.todo) /\ run.todo \in Seq(AllSteps)
      BY StepFacts
    <2> DEFINE todo == run.todo
    <2>3. todo \in Seq(AllSteps) /\ todo # <<>> /\ \A i \in DOMAIN todo : todo[i] = "backup" => i = Len(todo)
      BY <1>1, <1>7, <2>2 DEF Forward
    <2> HIDE DEF todo
    <2>4. ASSUME NEW i \in DOMAIN Tail(todo), Tail(todo)[i] = "backup"
          PROVE  i = Len(Tail(todo))
      <3>1. i \in Nat /\ Tail(todo)[i] = todo[i + 1] /\ i + 1 \in DOMAIN todo
        BY <2>3
      <3>2. i + 1 = Len(todo)
        BY <2>3, <2>4, <3>1
      <3>3. Len(Tail(todo)) = Len(todo) - 1
        BY <2>3
      <3> QED BY <3>1, <3>2, <3>3
    <2> QED BY <2>1, <2>2, <2>4 DEF todo
  <1>8. ASSUME run.phase = "ServicesStopped"
        PROVE  /\ "stop_compute" \notin In(run.todo)' => unit'["o3k_compute"] = Inactive
               /\ "stop_o3kd" \notin In(run.todo)' => unit'["o3kd"] = Inactive
    <2>1. s \in Quiet \cup {"stop_compute", "stop_o3kd"}
      BY <1>1, <1>8, ForwardAt, StepKinds
    <2>2. /\ "stop_compute" \notin In(run.todo) => unit["o3k_compute"] = Inactive
          /\ "stop_o3kd" \notin In(run.todo) => unit["o3kd"] = Inactive
      BY <1>1, <1>8 DEF Forward
    <2>3. CASE s \in Quiet
      <3>1. unit' = unit /\ s # "stop_compute" /\ s # "stop_o3kd"
        BY <1>1, <2>3, Effects DEF Quiet
      <3> QED BY <1>1, <2>2, <3>1
    <2>4. CASE s = "stop_compute"
      <3>1. unit' = [unit EXCEPT !["o3k_compute"] = Inactive]
        BY <1>1, <2>4, Effects, Successes DEF Stopped
      <3>2. unit'["o3k_compute"] = Inactive /\ unit'["o3kd"] = unit["o3kd"]
        BY <1>5, <3>1, UnitFacts
      <3> QED BY <1>1, <2>2, <2>4, <3>2
    <2>5. CASE s = "stop_o3kd"
      <3>1. unit' = [unit EXCEPT !["o3kd"] = Inactive]
        BY <1>1, <2>5, Effects, Successes DEF Stopped
      <3>2. unit'["o3kd"] = Inactive /\ unit'["o3k_compute"] = unit["o3k_compute"]
        BY <1>5, <3>1, UnitFacts
      <3> QED BY <1>1, <2>2, <2>5, <3>2
    <2> QED BY <2>1, <2>3, <2>4, <2>5
  <1>9. ASSUME run.phase = "BinariesInstalled", NEW f \in Files, f \notin In(run.todo)'
        PROVE  files'[f] = disk.target
    <2>1. s \in Quiet \cup Files
      BY <1>1, <1>9, ForwardAt, StepKinds
    <2>2. f \notin In(run.todo) => files[f] = disk.target
      BY <1>1, <1>9 DEF Forward
    <2>3. CASE s \in Quiet
      <3>1. files' = files /\ s # f
        BY <1>1, <2>3, Effects, StepNames DEF Quiet
      <3> QED BY <1>1, <1>9, <2>2, <3>1
    <2>4. CASE s \in Files
      <3>1. files' = [files EXCEPT ![s] = disk.target]
        BY <1>1, <2>4, Effects, FileInstalled
      <3> QED BY <1>1, <1>5, <1>9, <2>2, <3>1
    <2> QED BY <2>1, <2>3, <2>4
  <1>10. ASSUME run.phase = "DoctorPassed", "doctor" \notin In(run.todo)'
         PROVE  Intact(files', unit', schema')
    <2>1. disk.phase = "DoctorPassed" /\ disk.phase \in Installed
      BY <1>1, <1>10, PhaseKinds DEF Forward
    <2>2. s \in Quiet
      BY <1>1, <1>10, ForwardAt, StepKinds
    <2>3. files' = files /\ unit' = unit /\ schema' = schema
      BY <1>1, <2>2, Effects
    <2>4. CASE s = "doctor"
      BY <1>1, <2>1, <2>3, <2>4, Successes, HealthyIsIntact
    <2>5. CASE s # "doctor"
      <3>1. "doctor" \notin In(run.todo)
        BY <1>1, <1>10, <2>5
      <3> QED BY <1>1, <1>10, <2>3, <3>1 DEF Forward
    <2> QED BY <2>4, <2>5
  <1>11. run.phase # "Committed"
    <2>1. s \notin Allowed["Committed"]
      BY <1>1 DEF Allowed
    <2> QED BY <1>1, <2>1 DEF Forward
  <1>12. In(run.todo)' \subseteq Allowed[run.phase]
    BY <1>1 DEF Forward
  <1>13. /\ run'.phase \in DOMAIN Allowed
         /\ disk'.phase = IF run'.phase = "ReleaseDownloaded" THEN "Discovered" ELSE run'.phase
         /\ run'.phase # "BackupCreated" => run'.backup = disk'.backup
    BY <1>1 DEF Forward
  <1>14. run'.phase = "BackupCreated" =>
            /\ "backup" \notin In(run.todo)' =>
                  /\ run'.backup # 0 /\ Fresh(run.backup)'
                  /\ backups'[run'.backup].files = files'
                  /\ backups'[run'.backup].target = disk'.target
            /\ "backup" \in In(run.todo)' => run'.backup = 0
    BY <1>1, <1>2, <1>6, <1>7 DEF Forward, Fresh
  <1>15. /\ run'.phase = "BackupCreated" =>
               \A i \in DOMAIN run'.todo : run'.todo[i] = "backup" => i = Len(run'.todo)
         /\ run'.phase = "ServicesStopped" =>
               /\ "stop_compute" \notin In(run.todo)' => unit'["o3k_compute"] = Inactive
               /\ "stop_o3kd" \notin In(run.todo)' => unit'["o3kd"] = Inactive
         /\ run'.phase = "BinariesInstalled" =>
               \A f \in Files : f \notin In(run.todo)' => files'[f] = disk'.target
         /\ run'.phase = "DoctorPassed" /\ "doctor" \notin In(run.todo)' => Intact(files', unit', schema')
    BY <1>1, <1>7, <1>8, <1>9, <1>10
  <1>16. Intact(files', unit', schema') <=> Intact(files, unit, schema)'
    BY DEF Intact, Whole
  <1> QED BY <1>1, <1>11, <1>12, <1>13, <1>14, <1>15, <1>16 DEF Forward

\* A step of a rollback.
LEMMA UndoingSteps ==
    ASSUME UInv, NEW s \in AllSteps, Step(s), run.undo, Selected' = Selected
    PROVE  Undoing'
  <1>1. /\ run.todo # <<>> /\ Head(run.todo) = s /\ s # "clear" /\ Succeeds(s) /\ Effect(s)
        /\ In(run.todo) = {s} \cup In(run.todo)' /\ s \in In(run.todo)
        /\ run'.todo = Tail(run.todo) /\ In(run.todo)' = In(Tail(run.todo))
        /\ run'.cmd = run.cmd /\ run'.phase = run.phase /\ disk' = disk
        /\ Undoing /\ Recorded /\ RunType /\ Durable
    <2>1. run'.todo = Tail(run.todo)
      BY StepFacts
    <2>2. In(run.todo)' = In(Tail(run.todo))
      BY <2>1 DEF In
    <2> QED BY <2>1, <2>2, StepFacts
  <1> DEFINE old == In(run.todo)
             todo == In(Tail(run.todo))
  <1>2. /\ s \in UndoSteps /\ s \notin todo /\ old = {s} \cup todo /\ Sorted(run.todo)'
        /\ \A a \in AllSteps : Rank[a] < Rank[s] => a \notin old
        /\ \A b \in UndoSteps \ {"record", "clear"} : Rank[s] < Rank[b] => b \in todo
    <2>1. Sorted(Tail(run.todo)) => Sorted(run.todo)'
      BY <1>1 DEF Sorted
    <2> QED BY <1>1, <2>1, UndoHead
  <1>3. s # "backup" /\ s # "schema" /\ s # "commit" /\ s # "preflight"
    BY <1>2 DEF UndoSteps
  <1>4. backups' = backups /\ run'.backup = run.backup
    BY <1>3, StepFacts
  <1>5. /\ Hosted(disk, Selected, files, unit, schema)
        /\ unit \in [Units -> UnitStates] /\ files \in [Files -> Releases]
    <2>1. Hosted(disk, Selected, files, unit, schema)
      BY DEF UInv
    <2> QED BY <2>1 DEF Hosted, HostType
  <1>6. run.backup # 0 /\ run.backup = Selected /\ Selected \in DOMAIN backups
    BY <1>1, SelectedFacts DEF Undoing
  <1> HIDE DEF old, todo
  <1>7. /\ \A a \in old : Rank[a] > 0
        /\ \A a \in old, b \in UndoSteps \ {"record", "clear"} : Rank[a] < Rank[b] => b \in old
        /\ IF run.cmd = "upgrade"
           THEN run.phase \in Undoable /\ disk.phase = run.phase /\ "clear" \notin old /\ "record" \notin old
           ELSE run.phase = "RolledBack" /\ disk.phase = "RolledBack" /\ "clear" \in old
        /\ \A f \in Files : f \notin old => files[f] = Held(Selected)
        /\ "stop_o3kd" \notin old /\ "start_o3kd" \in old => unit["o3kd"].is # "active"
        /\ "database" \notin old => schema = Schema[Held(Selected)]
        /\ "doctor" \notin old => \A u \in Units : unit[u].is = "active"
    BY <1>1, <1>6 DEF Undoing, old
  <1>8. \A a \in todo, b \in UndoSteps \ {"record", "clear"} : Rank[a] < Rank[b] => b \in todo
    <2> SUFFICES ASSUME NEW a \in todo, NEW b \in UndoSteps \ {"record", "clear"}, Rank[a] < Rank[b]
                 PROVE  b \in todo
      OBVIOUS
    <2>1. b \in old
      BY <1>2, <1>7
    <2>2. b # s
      <3>1. b = s => Rank[a] < Rank[s]
        OBVIOUS
      <3>2. a \in AllSteps
        <4>1. run'.todo \in Seq(AllSteps) /\ In(run.todo)' = {run'.todo[i] : i \in DOMAIN run'.todo}
          BY StepFacts DEF In
        <4>2. \A i \in DOMAIN run'.todo : run'.todo[i] \in AllSteps
          <5> DEFINE q == run'.todo
                     A == AllSteps
          <5>1. q \in Seq(A)
            BY <4>1
          <5> HIDE DEF q, A
          <5>2. \A i \in DOMAIN q : q[i] \in A
            BY <5>1, Element
          <5> QED BY <5>2 DEF q, A
        <4> QED BY <1>1, <4>1, <4>2 DEF todo
      <3>3. a \in old
        BY <1>2
      <3> QED BY <1>2, <3>1, <3>2, <3>3
    <2> QED BY <1>2, <2>1, <2>2
  <1>9. \A f \in Files : f \notin todo => files'[f] = Held(Selected)
    <2> SUFFICES ASSUME NEW f \in Files, f \notin todo PROVE files'[f] = Held(Selected)
      OBVIOUS
    <2>1. CASE s \in Files
      <3>1. files' = [files EXCEPT ![s] = Held(Selected)]
        BY <1>1, <2>1, Effects, FileInstalled
      <3> QED BY <1>2, <1>5, <1>7, <3>1
    <2>2. CASE s \notin Files
      <3>1. files' = files /\ f # s
        BY <1>1, <2>2, Effects, StepKinds
      <3> QED BY <1>2, <1>7, <3>1
    <2> QED BY <2>1, <2>2
  <1>10. ASSUME "stop_o3kd" \notin todo, "start_o3kd" \in todo
         PROVE  unit'["o3kd"].is # "active"
    <2>1. s # "start_o3kd" /\ "start_o3kd" \in old
      BY <1>2, <1>10
    <2>2. CASE s = "stop_o3kd"
      <3>1. unit' = [unit EXCEPT !["o3kd"] = Inactive]
        BY <1>1, <2>2, Effects, Successes DEF Stopped
      <3>2. unit'["o3kd"] = Inactive
        BY <1>5, <3>1, UnitFacts
      <3> QED BY <3>2, UnitFacts
    <2>3. CASE s # "stop_o3kd"
      <3>1. unit["o3kd"].is # "active"
        BY <1>2, <1>7, <1>10, <2>1, <2>3
      <3>2. unit' = unit \/ unit' = Stopped("o3k_compute") \/ unit' = Started("o3k_compute")
        BY <1>1, <2>1, <2>3, Effects, StepKinds
      <3>3. unit'["o3kd"] = unit["o3kd"]
        BY <1>5, <3>2, UnitFacts DEF Stopped, Started
      <3> QED BY <3>1, <3>3
    <2> QED BY <2>2, <2>3
  <1>11. ASSUME "database" \notin todo PROVE schema' = Schema[Held(Selected)]
    <2>1. CASE s = "database"
      <3>1. "stop_o3kd" \notin old /\ "start_o3kd" \in todo
        <4>1. /\ "stop_o3kd" \in AllSteps /\ "start_o3kd" \in UndoSteps \ {"record", "clear"}
              /\ Rank["stop_o3kd"] < Rank[s] /\ Rank[s] < Rank["start_o3kd"]
          BY <2>1, Ranks, StepNames DEF UndoSteps
        <4> QED BY <1>2, <4>1
      <3>2. unit["o3kd"].is # "active"
        BY <1>2, <1>7, <3>1
      <3>3. /\ files' = files /\ unit' = unit /\ schema' = Restored
            /\ disk.phase \notin {"None", "Committed"} \cup Early
        BY <1>1, <2>1, Effects, UnderWay DEF Quiet
      <3> QED BY <1>1, <1>5, <1>6, <3>2, <3>3, DatabaseKeeps
    <2>2. CASE s # "database"
      <3>1. schema = Schema[Held(Selected)]
        BY <1>2, <1>7, <1>11, <2>2
      <3>2. CASE s = "start_o3kd"
        <4>1. "o3kd" \notin old /\ "o3kd" \in Files
          <5>1. "o3kd" \in AllSteps /\ Rank["o3kd"] < Rank[s]
            BY <3>2, Ranks, StepNames
          <5> QED BY <1>2, <5>1, StepNames
        <4>2. files["o3kd"] = Held(Selected)
          BY <1>7, <4>1
        <4>3. schema' = Migrated
          BY <1>1, <3>2, Effects
        <4> QED BY <3>1, <4>2, <4>3 DEF Migrated
      <3>3. CASE s # "start_o3kd"
        <4>1. schema' = schema
          BY <1>1, <2>2, <3>3, Effects, StepKinds
        <4> QED BY <3>1, <4>1
      <3> QED BY <3>2, <3>3
    <2> QED BY <2>1, <2>2
  <1>12. ASSUME "doctor" \notin todo PROVE \A u \in Units : unit'[u].is = "active"
    <2>1. s \in {"doctor", "api", "record"}
      <3>1. ~(Rank[s] < Rank["doctor"])
        BY <1>2, <1>12 DEF UndoSteps
      <3> QED BY <1>1, <1>2, <3>1, Ranks DEF UndoSteps
    <2>2. unit' = unit
      BY <1>1, <2>1, Effects DEF Quiet
    <2>3. \A u \in Units : unit[u].is = "active"
      <3>1. CASE s = "doctor"
        BY <1>1, <3>1, Successes DEF Healthy
      <3>2. CASE s # "doctor"
        BY <1>2, <1>7, <1>12, <3>2
      <3> QED BY <3>1, <3>2
    <2> QED BY <2>2, <2>3
  <1>13. \A a \in todo : Rank[a] > 0
    BY <1>2, <1>7
  <1>14. IF run.cmd = "upgrade"
         THEN run.phase \in Undoable /\ disk.phase = run.phase /\ "clear" \notin todo /\ "record" \notin todo
         ELSE run.phase = "RolledBack" /\ disk.phase = "RolledBack" /\ "clear" \in todo
    BY <1>1, <1>2, <1>7
  <1>15. In(run.todo)' = todo
    BY <1>1 DEF todo
  <1>16. Held(run.backup)' = Held(Selected)
    BY <1>4, <1>6 DEF Held
  <1> QED BY <1>1, <1>2, <1>4, <1>6, <1>8, <1>9, <1>10, <1>11, <1>12, <1>13, <1>14, <1>15, <1>16
          DEF Undoing

\* A step that leaves the backups and the chain alone.
LEMMA PlainStepKeeps ==
    ASSUME UInv, NEW s \in AllSteps, Step(s), s \notin {"backup", "commit", "record"}
    PROVE  UInv'
  <1>1. /\ run.todo # <<>> /\ Head(run.todo) = s /\ Succeeds(s) /\ Effect(s)
        /\ backups' = backups /\ chain' = chain /\ disk' = disk /\ interrupted' = interrupted
        /\ run'.cmd = run.cmd /\ run'.undo = run.undo /\ run.cmd # "none"
        /\ ~run.undo => run.cmd = "upgrade"
        /\ Recorded /\ Durable
    BY StepFacts
  <1>2. latest_eligible_backup' = latest_eligible_backup /\ Selected' = Selected
    BY <1>1 DEF latest_eligible_backup, Selected
  <1>3. Recorded'
    BY <1>1 DEF Recorded
  <1>4. Durable'
    BY <1>1, <1>2 DEF Durable, Fresh, About, Held
  <1>5. Hosted(disk, Selected, files', unit', schema')
    BY <1>1, EffectHosted
  <1>6. Hosted(disk, Selected, files, unit, schema)'
    BY <1>1, <1>2, <1>5 DEF Hosted, Within, About, Held
  <1>7. ~interrupted' /\ ~run'.undo => Straight(disk, files, unit, schema)'
    <2>1. ~interrupted /\ ~run.undo => Straight(disk, files', unit', schema')
      BY <1>1, EffectStraight
    <2> QED BY <1>1, <2>1 DEF Straight
  <1>8. RunType'
    BY StepRunType
  <1>9. Running'
    <2>1. ~run.undo => Forward'
      BY ForwardSteps
    <2>2. run.undo => Undoing'
      BY <1>2, UndoingSteps
    <2> QED BY <1>1, <2>1, <2>2 DEF Running
  <1> QED BY <1>3, <1>4, <1>6, <1>7, <1>8, <1>9 DEF UInv

\* A record of the chain is appended, or is there already.
LEMMA ChainGrows ==
    ASSUME Recorded, NEW b \in DOMAIN backups, NEW kind \in {"Backup", "Rollback"},
           chain' = Appended(b, kind)
    PROVE  /\ chain' \in Seq([id : DOMAIN backups, kind : {"Backup", "Rollback"}])
           /\ \/ chain' = chain /\ ~Fresh(b)
              \/ /\ kind = "Rollback" => latest_eligible_backup' = latest_eligible_backup
                 /\ kind = "Backup" => latest_eligible_backup' = b
  <1> DEFINE D == DOMAIN backups
             S == {i \in DOMAIN chain : chain[i].id = b}
             c == [id |-> b, kind |-> kind]
  <1>1. chain \in Seq(Links(D)) /\ c \in Links(D)
    BY DEF Recorded, Links
  <1>2. \/ chain' = chain /\ S # {}
        \/ chain' = Append(chain, c)
    BY DEF Appended
  <1>3. CASE chain' = chain /\ S # {}
    <2>1. ~Fresh(b)
      BY <1>3 DEF Fresh
    <2> QED BY <1>1, <1>3, <2>1 DEF Links
  <1>4. CASE chain' = Append(chain, c)
    <2>1. /\ kind = "Rollback" => latest_eligible_backup' = latest_eligible_backup
          /\ kind = "Backup" => latest_eligible_backup' = b
      <3> HIDE DEF D
      <3> QED BY <1>1, <1>4, LatestAppended
    <2>2. chain' \in Seq(Links(D))
      <3> DEFINE L == Links(D)
      <3>1. chain \in Seq(L) /\ c \in L
        BY <1>1
      <3> HIDE DEF L, c
      <3>2. chain' \in Seq(L)
        BY <1>4, <3>1
      <3> QED BY <3>2 DEF L
    <2> QED BY <2>1, <2>2 DEF Links
  <1> QED BY <1>2, <1>3, <1>4

\* The commit.
LEMMA CommitKeeps ==
    ASSUME UInv, Step("commit")
    PROVE  UInv'
  <1> DEFINE b == disk.backup
  <1>0. "commit" \in AllSteps
    BY StepNames
  <1>1. /\ run.todo # <<>> /\ Head(run.todo) = "commit" /\ Effect("commit") /\ "commit" \in In(run.todo)
        /\ backups' = backups /\ chain' = Appended(run.backup, "Backup")
        /\ disk' = disk /\ interrupted' = interrupted
        /\ run'.cmd = run.cmd /\ run'.undo = run.undo /\ run.cmd # "none"
        /\ run'.phase = run.phase /\ run'.backup = run.backup
        /\ In(run.todo) = {"commit"} \cup In(run.todo)'
        /\ Recorded /\ RunType /\ Durable /\ (run.undo => Undoing)
    BY <1>0, StepFacts
  <1>2. Forward /\ run.cmd = "upgrade" /\ ~run.undo
    <2>1. run.undo => FALSE
      <3>1. run.undo => "commit" \in UndoSteps
        BY <1>1, UndoHead
      <3> QED BY <3>1 DEF UndoSteps
    <2> QED BY <1>0, <2>1, StepFacts
  <1>3. run.phase = "Committed" /\ disk.phase = "Committed"
    BY <1>1, <1>2, ForwardAt
  <1>4. run.backup = b /\ "clear" \in In(run.todo)
    BY <1>2, <1>3 DEF Forward
  <1>5. b # 0 /\ b \in DOMAIN backups /\ (Fresh(b) \/ latest_eligible_backup = b)
    BY <1>1, <1>3, SelectedFacts DEF Durable
  <1>6. chain' \in Seq([id : DOMAIN backups, kind : {"Backup", "Rollback"}])
    BY <1>1, <1>4, <1>5, ChainGrows
  <1>7. latest_eligible_backup' = b
    <2>1. chain' = chain => latest_eligible_backup' = latest_eligible_backup
      BY DEF latest_eligible_backup
    <2>2. \/ chain' = chain /\ ~Fresh(b)
          \/ latest_eligible_backup' = b
      BY <1>1, <1>4, <1>5, ChainGrows
    <2> QED BY <1>5, <2>1, <2>2
  <1>8. Selected' = Selected
    BY <1>1, <1>5 DEF Selected
  <1>9. files' = files /\ unit' = unit /\ schema' = schema
    BY <1>0, <1>1, Effects DEF Quiet
  <1>10. Recorded'
    BY <1>1, <1>6 DEF Recorded
  <1>11. disk'.phase \notin Early \cup Late \cup {"None"} /\ ~Terminal(disk'.phase)
    BY <1>1, <1>3, PhaseKinds DEF Terminal
  <1>12. Durable'
    BY <1>1, <1>3, <1>5, <1>7, <1>11 DEF Durable, About, Held
  <1>13. Hosted(disk, Selected, files, unit, schema)'
    <2>1. Hosted(disk, Selected, files, unit, schema)
      BY DEF UInv
    <2> QED BY <1>1, <1>8, <1>9, <2>1 DEF Hosted, Within, About, Held
  <1>14. ~interrupted' /\ ~run'.undo => Straight(disk, files, unit, schema)'
    <2>1. ~interrupted /\ ~run.undo => Straight(disk, files, unit, schema)
      BY DEF UInv
    <2> QED BY <1>1, <1>9, <2>1 DEF Straight
  <1>15. RunType'
    BY <1>0, StepRunType
  <1>16. Forward'
    <2>1. "clear" \in In(run.todo)' /\ In(run.todo)' \subseteq Allowed[run.phase]
      BY <1>1, <1>2, <1>4 DEF Forward
    <2>2. run.phase \in DOMAIN Allowed
      BY <1>2 DEF Forward
    <2> QED BY <1>1, <1>3, <1>4, <1>7, <2>1, <2>2 DEF Forward
  <1>17. Running'
    BY <1>1, <1>2, <1>16 DEF Running
  <1> QED BY <1>10, <1>12, <1>13, <1>14, <1>15, <1>17 DEF UInv

\* The record of a rollback.
LEMMA RecordKeeps ==
    ASSUME UInv, Step("record")
    PROVE  UInv'
  <1>0. "record" \in AllSteps
    BY StepNames
  <1>1. /\ run.todo # <<>> /\ Head(run.todo) = "record" /\ Effect("record") /\ "record" \in In(run.todo)
        /\ backups' = backups /\ chain' = Appended(run.backup, "Rollback")
        /\ disk' = disk /\ interrupted' = interrupted
        /\ run'.cmd = run.cmd /\ run'.undo = run.undo /\ run.cmd # "none"
        /\ Recorded /\ RunType /\ Durable /\ (~run.undo => Forward)
    BY <1>0, StepFacts
  <1>2. run.undo /\ Undoing
    <2>1. Forward => FALSE
      BY <1>1, ForwardAt
    <2> QED BY <1>0, <1>1, <2>1, StepFacts
  <1>3. run.backup = Selected /\ Selected \in DOMAIN backups /\ Selected # 0
    BY <1>1, <1>2, SelectedFacts DEF Undoing
  <1>4. disk.phase = "RolledBack"
    BY <1>1, <1>2 DEF Undoing
  <1>5. chain' \in Seq([id : DOMAIN backups, kind : {"Backup", "Rollback"}])
    BY <1>1, <1>3, ChainGrows
  <1>6. latest_eligible_backup' = latest_eligible_backup
    <2>1. chain' = chain => latest_eligible_backup' = latest_eligible_backup
      BY DEF latest_eligible_backup
    <2>2. chain' = chain \/ latest_eligible_backup' = latest_eligible_backup
      BY <1>1, <1>3, ChainGrows
    <2> QED BY <2>1, <2>2
  <1>7. Selected' = Selected
    BY <1>1, <1>6 DEF Selected
  <1>8. files' = files /\ unit' = unit /\ schema' = schema
    BY <1>0, <1>1, Effects DEF Quiet
  <1>9. Recorded'
    BY <1>1, <1>5 DEF Recorded
  <1>10. disk'.phase \notin Early \cup Late \cup {"None", "Committed"}
    BY <1>1, <1>4, PhaseKinds
  <1>11. Durable'
    BY <1>1, <1>3, <1>6, <1>7, <1>10 DEF Durable, About, Held
  <1>12. Hosted(disk, Selected, files, unit, schema)'
    <2>1. Hosted(disk, Selected, files, unit, schema)
      BY DEF UInv
    <2> QED BY <1>1, <1>7, <1>8, <2>1 DEF Hosted, Within, About, Held
  <1>13. RunType'
    BY <1>0, StepRunType
  <1>14. Undoing'
    BY <1>0, <1>2, <1>7, UndoingSteps
  <1>15. Running'
    BY <1>1, <1>2, <1>14 DEF Running
  <1> QED BY <1>1, <1>2, <1>9, <1>11, <1>12, <1>13, <1>15 DEF UInv

\* The backup: it holds the one release that is installed, and no record of
\* the chain names it yet.
LEMMA BackupKeeps ==
    ASSUME UInv, Step("backup")
    PROVE  UInv'
  <1> DEFINE n == Len(backups) + 1
             R == BackupRecords
  <1>0. "backup" \in AllSteps
    BY StepNames
  <1>1. /\ run.todo # <<>> /\ Head(run.todo) = "backup" /\ Effect("backup") /\ "backup" \in In(run.todo)
        /\ backups' = Append(backups, Snapshot) /\ chain' = chain
        /\ disk' = disk /\ interrupted' = interrupted
        /\ run'.cmd = run.cmd /\ run'.undo = run.undo /\ run.cmd # "none"
        /\ run'.phase = run.phase /\ run'.backup = n
        /\ run' = [run EXCEPT !.todo = Tail(run.todo), !.backup = run'.backup]
        /\ run.todo \in Seq(AllSteps) /\ run'.todo = Tail(run.todo) /\ run'.todo \in Seq(AllSteps)
        /\ In(run.todo) = {"backup"} \cup In(run.todo)'
        /\ Recorded /\ RunType /\ Durable /\ (run.undo => Undoing)
    BY <1>0, StepFacts
  <1>2. Forward /\ run.cmd = "upgrade" /\ ~run.undo
    <2>1. run.undo => FALSE
      <3>1. run.undo => "backup" \in UndoSteps
        BY <1>1, UndoHead
      <3> QED BY <3>1 DEF UndoSteps
    <2> QED BY <1>0, <2>1, StepFacts
  <1>3. run.phase = "BackupCreated" /\ disk.phase = "BackupCreated"
    BY <1>1, <1>2, ForwardAt
  <1>4. /\ disk.phase \in Early /\ disk.phase \notin Late \cup Installed \cup Undoable \cup {"None", "Committed"}
        /\ ~Terminal(disk.phase)
    BY <1>3, PhaseKinds DEF Early, Terminal
  <1>5. Hosted(disk, Selected, files, unit, schema)
    BY DEF UInv
  <1>6. /\ files \in [Files -> Releases] /\ Intact(files, unit, schema) /\ files["o3kd"] < disk.target
        /\ disk.backup = 0 /\ disk.target \in Releases
    BY <1>1, <1>4, <1>5 DEF Hosted, HostType, Durable
  <1>7. files' = files /\ unit' = unit /\ schema' = schema
    BY <1>0, <1>1, Effects DEF Quiet
  <1>8. PICK r \in Releases : files = [f \in Files |-> r] /\ schema = Schema[r]
    BY <1>6 DEF Intact, Whole
  <1>9. files["o3kd"] = r
    BY <1>8, StepNames
  <1>10. Snapshot \in R
    <2>1. schema \in Nat
      BY <1>8, Numbers
    <2>2. disk.source \in Nat
      BY <1>1 DEF Recorded
    <2>3. /\ Snapshot \in [source : Nat, target : Releases, files : [Files -> Releases],
                           schema : Nat, restore : BOOLEAN]
          /\ Snapshot.files = files /\ Snapshot.schema = schema /\ Snapshot.target = disk.target
          /\ Snapshot.restore = (schema # Schema[disk.target])
      BY <1>6, <2>1, <2>2 DEF Snapshot
    <2> QED BY <1>6, <1>8, <1>9, <2>3 DEF BackupRecords
  <1>11. backups \in Seq(R)
    BY <1>1 DEF Recorded
  <1> HIDE DEF R
  <1>12. /\ backups' \in Seq(R) /\ Len(backups) \in Nat /\ Len(backups') = n
         /\ DOMAIN backups = 1..Len(backups) /\ DOMAIN backups' = 1..n
         /\ backups'[n] = Snapshot
         /\ \A i \in DOMAIN backups : backups'[i] = backups[i]
    BY <1>1, <1>10, <1>11
  <1>13. /\ latest_eligible_backup' = latest_eligible_backup /\ Selected' = Selected
         /\ Selected = latest_eligible_backup
    BY <1>1, <1>6 DEF latest_eligible_backup, Selected
  <1>14. Selected # 0 => Selected \in DOMAIN backups /\ backups'[Selected] = backups[Selected]
    BY <1>1, <1>12, SelectedFacts
  <1>15. Recorded'
    <2>1. disk' \in [phase : AllPhases, source : Nat, target : Nat, backup : 0..Len(backups')]
      <3>1. disk \in [phase : AllPhases, source : Nat, target : Nat, backup : 0..Len(backups)]
        BY <1>1 DEF Recorded
      <3>2. 0..Len(backups) \subseteq 0..n
        BY <1>12
      <3> QED BY <1>1, <1>12, <3>1, <3>2
    <2>2. chain \in Seq([id : DOMAIN backups', kind : {"Backup", "Rollback"}])
      <3> DEFINE L == [id : DOMAIN backups, kind : {"Backup", "Rollback"}]
                 M == [id : DOMAIN backups', kind : {"Backup", "Rollback"}]
      <3>1. chain \in Seq(L)
        BY <1>1 DEF Recorded
      <3>2. L \subseteq M
        <4>1. DOMAIN backups \subseteq DOMAIN backups'
          BY <1>12
        <4> QED BY <4>1
      <3> HIDE DEF L, M
      <3>3. chain \in Seq(M)
        BY <3>1, <3>2
      <3> QED BY <3>3 DEF M
    <2> QED BY <1>1, <1>12, <2>1, <2>2 DEF Recorded, R
  <1>16. Durable'
    BY <1>1, <1>4, <1>6 DEF Durable
  <1>17. Hosted(disk, Selected, files, unit, schema)'
    BY <1>1, <1>5, <1>7, <1>13, <1>14 DEF Hosted, Within, About, Held
  <1>18. Straight(disk, files, unit, schema)'
    BY <1>1, <1>4, PhaseKinds DEF Straight
  <1>19. RunType'
    <2>1. run \in [cmd : {"none", "upgrade", "rollback"}, phase : AllPhases, todo : Seq(AllSteps),
                   undo : BOOLEAN, backup : 0..Len(backups)]
      BY <1>1 DEF RunType
    <2>2. n \in 0..Len(backups')
      BY <1>12
    <2> HIDE DEF n
    <2>3. run' \in [cmd : {"none", "upgrade", "rollback"}, phase : AllPhases, todo : Seq(AllSteps),
                    undo : BOOLEAN, backup : 0..Len(backups')]
      BY <1>1, <2>1, <2>2
    <2> QED BY <2>3 DEF RunType
  <1>20. run'.todo = <<>>
    <2> DEFINE todo == run.todo
    <2>1. /\ todo \in Seq(AllSteps) /\ todo # <<>> /\ Head(todo) = "backup"
          /\ \A i \in DOMAIN todo : todo[i] = "backup" => i = Len(todo)
      BY <1>1, <1>2, <1>3 DEF Forward
    <2> HIDE DEF todo
    <2>2. 1 \in DOMAIN todo /\ todo[1] = "backup"
      BY <2>1
    <2>3. Len(todo) = 1
      BY <2>1, <2>2
    <2>4. Tail(todo) = <<>>
      <3> DEFINE q == Tail(todo)
      <3>1. q \in Seq(AllSteps) /\ Len(q) = 0
        BY <2>1, <2>3
      <3> HIDE DEF q
      <3>2. q = <<>>
        BY <3>1
      <3> QED BY <3>2 DEF q
    <2> QED BY <1>1, <2>4 DEF todo
  <1>21. Forward'
    <2>1. In(run.todo)' = {}
      BY <1>20, InTuples DEF In
    <2>2. Fresh(run.backup)'
      <3>1. ASSUME NEW i \in DOMAIN chain PROVE chain[i].id # n
        <4> DEFINE L == [id : DOMAIN backups, kind : {"Backup", "Rollback"}]
        <4>1. chain \in Seq(L)
          BY <1>1 DEF Recorded
        <4>2. chain[i] \in L
          <5> HIDE DEF L
          <5> QED BY <4>1, Element
        <4>3. chain[i].id \in 1..Len(backups)
          BY <1>12, <4>2
        <4> QED BY <1>12, <4>3
      <3> QED BY <1>1, <3>1 DEF Fresh
    <2>3. backups'[run'.backup].files = files' /\ backups'[run'.backup].target = disk'.target
      BY <1>1, <1>7, <1>12 DEF Snapshot
    <2>4. run'.backup # 0
      BY <1>1, <1>12
    <2>5. run'.phase = "BackupCreated" /\ disk'.phase = "BackupCreated"
      BY <1>1, <1>3
    <2>6. "BackupCreated" \in DOMAIN Allowed
      BY DEF Allowed
    <2>7. \A i \in DOMAIN run'.todo : run'.todo[i] = "backup" => i = Len(run'.todo)
      BY <1>20
    <2> QED BY <2>1, <2>2, <2>3, <2>4, <2>5, <2>6, <2>7 DEF Forward
  <1>22. Running'
    BY <1>1, <1>2, <1>21 DEF Running
  <1> QED BY <1>15, <1>16, <1>17, <1>18, <1>19, <1>22 DEF UInv

-----------------------------------------------------------------------------
(***************************************************************************)
(* The theorems.                                                            *)
(***************************************************************************)
\* The invariant is inductive.
LEMMA UInvNext == UInv /\ [Next]_vars => UInv'
  <1> SUFFICES ASSUME UInv, [Next]_vars PROVE UInv'
    OBVIOUS
  <1>1. ASSUME NEW r \in Releases, discover(r) PROVE UInv'
    BY <1>1, DiscoverKeeps
  <1>2. CASE Resume
    BY <1>2, ResumeKeeps
  <1>3. CASE run_rollback
    BY <1>3, RollbackKeeps
  <1>4. ASSUME NEW s \in AllSteps, Step(s) PROVE UInv'
    BY <1>4, PlainStepKeeps, BackupKeeps, CommitKeeps, RecordKeeps
  <1>5. ASSUME NEW s \in AllSteps, StepRefused(s) PROVE UInv'
    BY <1>5, RefusedKeeps
  <1>6. CASE Advance
    BY <1>6, AdvanceKeeps
  <1>7. CASE Clear
    BY <1>7, ClearKeeps
  <1>8. ASSUME NEW s \in AllSteps, StepFails(s) PROVE UInv'
    BY <1>8, FailsKeeps
  <1>9. CASE Crash
    BY <1>9, CrashKeeps
  <1>10. CASE Reboot
    BY <1>10, RebootKeeps
  <1>11. CASE UNCHANGED vars
    <2>1. /\ disk' = disk /\ backups' = backups /\ chain' = chain /\ interrupted' = interrupted
          /\ files' = files /\ unit' = unit /\ schema' = schema /\ run' = run
      BY <1>11 DEF vars
    <2>2. /\ Recorded' /\ Durable' /\ Hosted(disk, Selected, files, unit, schema)'
          /\ latest_eligible_backup' = latest_eligible_backup /\ Selected' = Selected
          /\ ~interrupted' /\ ~run.undo => Straight(disk, files, unit, schema)'
      BY <2>1, SameRecords
    <2>3. RunType'
      BY <2>1 DEF UInv, RunType
    <2>4. Running /\ (Forward => Forward') /\ (Undoing => Undoing')
      <3>1. Running
        BY DEF UInv
      <3>2. Forward => Forward'
        BY <2>1, <2>2 DEF Forward, In, Fresh, Intact, Whole
      <3>3. Undoing => Undoing'
        BY <2>1, <2>2 DEF Undoing, In, Sorted, Held
      <3> QED BY <3>1, <3>2, <3>3
    <2>5. Running'
      BY <2>1, <2>4 DEF Running
    <2> QED BY <2>1, <2>2, <2>3, <2>5 DEF UInv
  <1> QED BY <1>1, <1>2, <1>3, <1>4, <1>5, <1>6, <1>7, <1>8, <1>9, <1>10, <1>11 DEF Next, Proceed

\* The invariant holds in every state.
LEMMA UInvAlways == Spec => []UInv
  BY InitKeeps, UInvNext, PTL DEF Spec

\* TypeOK: the host, the state file, the chain and the list of an invocation
\* are always what engine.rs and state.rs can hold.
THEOREM UpgradeTypeCorrect == Spec => []TypeOK
  <1>1. UInv => TypeOK
    <2> SUFFICES ASSUME UInv PROVE TypeOK
      OBVIOUS
    <2>1. Recorded /\ RunType /\ Hosted(disk, Selected, files, unit, schema)
      BY DEF UInv
    <2>2. /\ files \in [Files -> Releases] /\ unit \in [Units -> UnitStates]
          /\ schema \in {Schema[r] : r \in Releases}
      BY <2>1 DEF Hosted, HostType
    <2>3. disk.phase \in {"None"} \cup {Phases[i] : i \in DOMAIN Phases}
      <3>1. disk.phase \in AllPhases
        BY <2>1 DEF Recorded
      <3>2. \A p \in AllPhases \ {"None"} : p \in {Phases[i] : i \in DOMAIN Phases}
        <4>1. DOMAIN Phases = 1..14
          BY DEF Phases
        <4>2. /\ Phases[1] = "Discovered" /\ Phases[2] = "ReleaseDownloaded" /\ Phases[3] = "ReleaseVerified"
              /\ Phases[4] = "PreflightPassed" /\ Phases[5] = "BackupCreated" /\ Phases[6] = "ServicesStopped"
              /\ Phases[7] = "BinariesInstalled" /\ Phases[8] = "MigrationsApplied"
              /\ Phases[9] = "ServicesStarted" /\ Phases[10] = "HealthVerified"
              /\ Phases[11] = "DoctorPassed" /\ Phases[12] = "Committed"
              /\ Phases[13] = "FailedUpgrade" /\ Phases[14] = "RolledBack"
          BY DEF Phases
        <4>3. \A p \in AllPhases \ {"None"} : \E i \in 1..14 : Phases[i] = p
          BY <4>2 DEF AllPhases, Early, Late, Undoable
        <4> QED BY <4>1, <4>3
      <3> QED BY <3>1, <3>2
    <2>4. disk.backup \in 0..Len(backups) /\ run.backup \in 0..Len(backups)
      BY <2>1 DEF Recorded, RunType
    <2>5. \A i \in DOMAIN chain : chain[i].id \in DOMAIN backups
      <3> DEFINE L == [id : DOMAIN backups, kind : {"Backup", "Rollback"}]
      <3>1. chain \in Seq(L)
        BY <2>1 DEF Recorded
      <3>2. \A i \in DOMAIN chain : chain[i] \in L
        <4> HIDE DEF L
        <4> QED BY <3>1, Element
      <3> QED BY <3>2
    <2>6. \A i \in DOMAIN run.todo : run.todo[i] \in AllSteps
      <3> DEFINE todo == run.todo
                 A == AllSteps
      <3>1. todo \in Seq(A)
        BY <2>1 DEF RunType
      <3> HIDE DEF todo, A
      <3>2. \A i \in DOMAIN todo : todo[i] \in A
        BY <3>1, Element
      <3> QED BY <3>2 DEF todo, A
    <2> QED BY <2>2, <2>3, <2>4, <2>5, <2>6 DEF TypeOK
  <1> QED BY <1>1, UInvAlways, PTL

\* ClosedIsWhole: whatever failed or died on the way, an attempt whose state
\* file is gone has left one release, complete, and its services running.
THEOREM ClosedWhole == Spec => []ClosedIsWhole
  <1>1. UInv => ClosedIsWhole
    <2> SUFFICES ASSUME UInv, disk = NoState
                 PROVE  Whole(files, schema) /\ \A u \in Units : unit[u].is = "active"
      BY DEF ClosedIsWhole
    <2>1. disk.phase = "None" /\ Hosted(disk, Selected, files, unit, schema)
      BY DEF UInv, NoState
    <2>2. Intact(files, unit, schema)
      BY <2>1 DEF Hosted
    <2> QED BY <2>2 DEF Intact
  <1> QED BY <1>1, UInvAlways, PTL

\* RollbackIsPossible: while the files and the database of the host are not of
\* one release, the backup run_rollback would select holds a whole one.
THEOREM RollbackPossible == Spec => []RollbackIsPossible
  <1>1. UInv => RollbackIsPossible
    <2> SUFFICES ASSUME UInv, Selected = 0 PROVE Whole(files, schema)
      <3>1. ASSUME UInv, Selected # 0
            PROVE  Whole(backups[Selected].files, backups[Selected].schema)
        <4>1. Recorded
          BY <3>1 DEF UInv
        <4>2. Selected \in DOMAIN backups
          BY <3>1, <4>1, SelectedFacts
        <4> QED BY <4>1, <4>2, BackupFacts DEF Whole
      <3> QED BY <3>1 DEF RollbackIsPossible
    <2>1. Recorded /\ Durable /\ Hosted(disk, Selected, files, unit, schema)
      BY DEF UInv
    <2>2. disk.phase \in {"None", "Committed"} \cup Early
      <3>1. disk.phase \in AllPhases
        BY <2>1 DEF Recorded
      <3>2. disk.phase \notin Late
        BY <2>1, LateFacts
      <3>3. ~Terminal(disk.phase)
        BY <2>1 DEF Durable
      <3> QED BY <3>1, <3>2, <3>3 DEF AllPhases, Terminal
    <2>3. Intact(files, unit, schema)
      BY <2>1, <2>2 DEF Hosted
    <2> QED BY <2>3 DEF Intact
  <1> QED BY <1>1, UInvAlways, PTL

\* CommittedIsTarget: the commit of an upgrade writes its record of the chain
\* only with the target installed and running, unless an automatic rollback of
\* the attempt was cut off.
THEOREM CommittedTarget == Spec => CommittedIsTarget
  <1>1. UInv /\ [Next]_vars =>
           [chain' # chain /\ run.phase = "Committed" /\ ~interrupted => HostIs(disk.target)]_vars
    <2> SUFFICES ASSUME UInv, [Next]_vars, chain' # chain, run.phase = "Committed", ~interrupted
                 PROVE  HostIs(disk.target)
      OBVIOUS
    <2>1. PICK s \in AllSteps : Step(s)
      BY DEF Next, Proceed, discover, Resume, run_rollback, StepRefused, Advance, Clear,
             StepFails, Crash, Reboot, Died, vars
    <2>2. run.cmd # "none" /\ (~run.undo => Forward) /\ (run.undo => Undoing)
      BY <2>1, StepFacts
    <2>3. ~run.undo
      <3>1. Undoing => run.phase \in Undoable \cup {"RolledBack"}
        BY DEF Undoing
      <3> QED BY <2>2, <3>1, PhaseKinds
    <2>4. disk.phase = "Committed"
      BY <2>2, <2>3 DEF Forward
    <2>5. Straight(disk, files, unit, schema)
      BY <2>3 DEF UInv
    <2> QED BY <2>4, <2>5 DEF Straight, HostIs
  <1> QED BY <1>1, UInvAlways, PTL DEF Spec, CommittedIsTarget
=============================================================================
