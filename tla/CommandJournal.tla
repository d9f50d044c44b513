---------------------------- MODULE CommandJournal ----------------------------
(***************************************************************************)
(* The compute agent's durable command journal (CommandJournal) and the     *)
(* loop that executes commands (AgentClient::connect_once), both in         *)
(* crates/o3k-compute-agent/src/lib.rs.                                     *)
(*                                                                          *)
(* One agent process keeps a snapshot of the journal in memory and rewrites *)
(* the whole snapshot to disk (temporary file, fsync, rename, fsync of the  *)
(* directory) at every transition.  The control plane may send any command  *)
(* any number of times.  A command stands for its deterministic identity    *)
(* (command id, operation, idempotency key, fingerprint); a duplicate with  *)
(* another fingerprint is refused without touching the journal and is left  *)
(* out.  All commands here concern one server, whose domain state is `host'.*)
(***************************************************************************)
EXTENDS Naturals, FiniteSets, FiniteSetsExt, Functions

CONSTANTS
    Commands,    \* command identities
    NoCommand,   \* the loop is idle
    Effect,      \* [Commands -> DomainStates]: what executing a command does
    MaxEntries,  \* MAX_COMMAND_JOURNAL_ENTRIES
    WriteFaults, \* how a snapshot write may fail: subset of {"lost", "late"}
    MaxRuns      \* bound on the execution counter of one command

DomainStates == {"Running", "Stopped", "Deleted"}

ASSUME CommandsAssumption == NoCommand \notin Commands
ASSUME EffectAssumption == Effect \in [Commands -> DomainStates]
ASSUME WriteFaultsAssumption == WriteFaults \subseteq {"lost", "late"}
ASSUME FiniteAssumption == IsFiniteSet(Commands)
ASSUME BoundAssumption == MaxRuns \in Nat

VARIABLES
    up,        \* the agent process runs
    linked,    \* its control stream is open
    entries,   \* the snapshot in memory
    next_sequence,
    disk,      \* the snapshot on disk
    handling,  \* the command in hand and how far its handling is
    runs,      \* history: how often each command was executed
    host,      \* the state the server's domain was left in
    sent,      \* history: evidence put on the control stream
    faulted    \* history: a snapshot write has failed

vars == <<up, linked, entries, next_sequence, disk, handling, runs, host, sent,
          faulted>>

-----------------------------------------------------------------------------
Absent == [state |-> "Absent", accepted |-> 0, last |-> 0, result |-> "None"]
Idle == [cmd |-> NoCommand, step |-> "Idle", result |-> "None"]

Recorded(j) == {c \in Commands : j[c].state # "Absent"}
InFlight(j) == {c \in Commands : j[c].state \in {"Accepted", "Running"}}
Reportable(j) == {c \in Commands : j[c].state \in {"Terminal", "Unknown"}}

Evidence(c, e) == [cmd |-> c, state |-> e.state, seq |-> e.last]

\* A snapshot write succeeds, fails before the rename (lost), or fails in the
\* directory sync after it (late): the new snapshot is there all the same.
Writes == {"ok"} \cup WriteFaults
Persist(j, w) ==
    /\ disk' = IF w = "lost" THEN disk ELSE j
    /\ faulted' = (faulted \/ w # "ok")

Init ==
    /\ up = FALSE
    /\ linked = FALSE
    /\ entries = [c \in Commands |-> Absent]
    /\ next_sequence = 1
    /\ disk = [c \in Commands |-> Absent]
    /\ handling = Idle
    /\ runs = [c \in Commands |-> 0]
    /\ host = "Deleted"
    /\ sent = {}
    /\ faulted = FALSE

(***************************************************************************)
(* CommandJournal::open.  Whatever was in flight becomes Unknown under a    *)
(* fresh sequence; the entries are visited in hash order.  A failed write   *)
(* ends the process.                                                        *)
(***************************************************************************)
NextAfter(j) == 1 + Max({0} \cup {j[c].last : c \in Commands})

\* Mutant: the restarted agent forgets that it had accepted the command.
Recover_Forget(j, seq) ==
    [c \in Commands |-> IF c \in InFlight(j) THEN Absent ELSE j[c]]

\* Mutant: the in-flight entries keep the sequence they had.
Recover_KeepSequence(j, seq) ==
    [c \in Commands |-> IF c \in InFlight(j) THEN [j[c] EXCEPT !.state = "Unknown"]
                        ELSE j[c]]

Recover(j, seq) ==
    [c \in Commands |->
        IF c \in InFlight(j)
        THEN [j[c] EXCEPT !.state = "Unknown", !.result = "None", !.last = seq[c]]
        ELSE j[c]]

open(w) ==
    /\ ~up
    /\ LET n == NextAfter(disk)
           m == Cardinality(InFlight(disk))
       IN  \E seq \in Injection(InFlight(disk), n..(n + m - 1)) :
              LET j == Recover(disk, seq) IN
              /\ m = 0 => w = "ok"
              /\ Persist(j, w)
              /\ up' = (w = "ok")
              /\ entries' = IF w = "ok" THEN j ELSE entries
              /\ next_sequence' = IF w = "ok" THEN n + m ELSE next_sequence
    /\ UNCHANGED <<linked, handling, runs, host, sent>>

(***************************************************************************)
(* The control stream.  Registration is followed by the replay of every     *)
(* entry that has something to report.                                      *)
(***************************************************************************)
\* Mutant: only terminal entries are replayed.
Replay_TerminalOnly ==
    {Evidence(c, entries[c]) : c \in {d \in Commands : entries[d].state = "Terminal"}}

replay_journal_entries == {Evidence(c, entries[c]) : c \in Reportable(entries)}

Connect ==
    /\ up
    /\ ~linked
    /\ handling = Idle
    /\ linked' = TRUE
    /\ sent' = sent \cup replay_journal_entries
    /\ UNCHANGED <<up, entries, next_sequence, disk, handling, runs, host, faulted>>

Disconnect ==
    /\ linked
    /\ linked' = FALSE
    /\ UNCHANGED <<up, entries, next_sequence, disk, handling, runs, host, sent, faulted>>

\* A closed stream makes the next send fail: the handler returns an error.
Abort ==
    /\ handling' = Idle
    /\ linked' = FALSE

Crash ==
    /\ up
    /\ up' = FALSE
    /\ linked' = FALSE
    /\ handling' = Idle
    /\ UNCHANGED <<entries, next_sequence, disk, runs, host, sent, faulted>>

(***************************************************************************)
(* A command arrives.  accept journals a new one before anything is done    *)
(* about it; when the write fails the entry and its sequence are taken      *)
(* back and the stream is dropped, or kept when the snapshot was refused    *)
(* for its size.  A full journal refuses the command.  An identity that is  *)
(* already journaled is answered from its entry, which says nothing while   *)
(* it is in flight.                                                         *)
(***************************************************************************)
\* Mutant: the duplicate check looks at finished entries only.
KnownCommand_Finished(c) == entries[c].state \in {"Terminal", "Unknown"}

\* Mutant: a command of unknown outcome is tried again.
KnownCommand_RetryUnknown(c) == entries[c].state \in {"Accepted", "Running", "Terminal"}

KnownCommand(c) == entries[c].state # "Absent"

accept(c, w) ==
    /\ linked
    /\ handling = Idle
    /\ ~KnownCommand(c)
    /\ Cardinality(Recorded(entries)) < MaxEntries
    /\ LET j == [entries EXCEPT ![c] =
                    [state |-> "Accepted", accepted |-> next_sequence,
                     last |-> next_sequence, result |-> "None"]]
       IN  /\ Persist(j, w)
           /\ IF w = "ok"
              THEN /\ entries' = j
                   /\ next_sequence' = next_sequence + 1
                   /\ handling' = [cmd |-> c, step |-> "Accepted", result |-> "None"]
                   /\ UNCHANGED linked
              ELSE /\ linked' \in IF w = "lost" THEN {TRUE, FALSE} ELSE {FALSE}
                   /\ UNCHANGED <<entries, next_sequence, handling>>
    /\ UNCHANGED <<up, runs, host, sent>>

Duplicate(c) ==
    /\ linked
    /\ handling = Idle
    /\ KnownCommand(c)
    /\ sent' = sent \cup {Evidence(d, entries[d]) : d \in {c} \cap Reportable(entries)}
    /\ UNCHANGED <<up, linked, entries, next_sequence, disk, handling, runs, host, faulted>>

(***************************************************************************)
(* The handling of a new command: announce it, mark it running, execute it, *)
(* complete it, report it.                                                  *)
(***************************************************************************)
At(c, step) == handling.cmd = c /\ handling.step = step

send_command_accepted(c) ==
    /\ At(c, "Accepted")
    /\ IF linked
       THEN /\ sent' = sent \cup {Evidence(c, entries[c])}
            /\ handling' = [handling EXCEPT !.step = "Announced"]
            /\ UNCHANGED linked
       ELSE /\ Abort
            /\ UNCHANGED sent
    /\ UNCHANGED <<up, entries, next_sequence, disk, runs, host, faulted>>

mark_running(c, w) ==
    /\ At(c, "Announced")
    /\ LET j == [entries EXCEPT ![c] = [@ EXCEPT !.state = "Running"]]
       IN  /\ Persist(j, w)
           /\ entries' = j
    /\ IF w = "ok"
       THEN /\ handling' = [handling EXCEPT !.step = "Running"]
            /\ UNCHANGED linked
       ELSE Abort
    /\ UNCHANGED <<up, next_sequence, runs, host, sent>>

\* The executor does what was asked, or fails at some point of it.
execute(c) ==
    /\ At(c, "Running")
    /\ runs[c] < MaxRuns
    /\ runs' = [runs EXCEPT ![c] = @ + 1]
    /\ \/ /\ host' = Effect[c]
          /\ handling' = [handling EXCEPT !.step = "Executed", !.result = Effect[c]]
       \/ /\ host' \in {host, Effect[c]}
          /\ handling' = [handling EXCEPT !.step = "Executed", !.result = "Error"]
    /\ UNCHANGED <<up, linked, entries, next_sequence, disk, sent, faulted>>

\* A failed write takes back the sequence but not the terminal entry.  The
\* executors' results are within the bounds validate_execution_result checks.
complete(c, w) ==
    /\ At(c, "Executed")
    /\ LET j == [entries EXCEPT ![c] = [@ EXCEPT !.state = "Terminal",
                     !.last = next_sequence, !.result = handling.result]]
       IN  /\ Persist(j, w)
           /\ entries' = j
    /\ IF w = "ok"
       THEN /\ next_sequence' = next_sequence + 1
            /\ handling' = [handling EXCEPT !.step = "Completed"]
            /\ UNCHANGED linked
       ELSE /\ Abort
            /\ UNCHANGED next_sequence
    /\ UNCHANGED <<up, runs, host, sent>>

replay_journal_entry(c) ==
    /\ At(c, "Completed")
    /\ IF linked
       THEN /\ sent' = sent \cup {Evidence(c, entries[c])}
            /\ handling' = Idle
            /\ UNCHANGED linked
       ELSE /\ Abort
            /\ UNCHANGED sent
    /\ UNCHANGED <<up, entries, next_sequence, disk, runs, host, faulted>>

Handle(c) ==
    \/ send_command_accepted(c)
    \/ \E w \in Writes : mark_running(c, w)
    \/ execute(c)
    \/ \E w \in Writes : complete(c, w)
    \/ replay_journal_entry(c)

Next ==
    \/ \E w \in Writes : open(w)
    \/ Connect
    \/ Disconnect
    \/ Crash
    \/ \E c \in Commands, w \in Writes : accept(c, w)
    \/ \E c \in Commands : Duplicate(c)
    \/ \E c \in Commands : send_command_accepted(c)
    \/ \E c \in Commands, w \in Writes : mark_running(c, w)
    \/ \E c \in Commands : execute(c)
    \/ \E c \in Commands, w \in Writes : complete(c, w)
    \/ \E c \in Commands : replay_journal_entry(c)

Spec == Init /\ [][Next]_vars

(***************************************************************************)
(* Fairness.  The handler of a command runs on once started (its awaits are *)
(* not cancelled); an agent that keeps being restarted eventually opens its *)
(* journal and reconnects (the supervisor restarts it, run_with_executor    *)
(* retries for ever with bounded backoff).  No fairness on crashes, lost    *)
(* connections or failing writes.  RedeliverySpec adds the most helpful     *)
(* control plane, one that sends every command again and again.             *)
(***************************************************************************)
Fairness ==
    /\ \A c \in Commands : WF_vars(Handle(c))
    /\ SF_vars(open("ok"))
    /\ SF_vars(Connect)

Redelivery == \A c \in Commands : SF_vars(accept(c, "ok")) /\ SF_vars(Duplicate(c))

FairSpec == Spec /\ Fairness
RedeliverySpec == FairSpec /\ Redelivery

-----------------------------------------------------------------------------
\* What the startup restore starts from: the recorded state of the mutation
\* accepted last, if that one is terminal.

\* Mutant: an unfinished last mutation falls back to the one before it.
LastState_SkipsInFlight(j) ==
    LET S == {c \in Commands : j[c].state = "Terminal"}
    IN  {j[c].result : c \in {d \in S : \A b \in S : j[b].accepted <= j[d].accepted}}

last_lifecycle_resource_states(j) ==
    LET S == Recorded(j)
        latest == {c \in S : \A b \in S : j[b].accepted <= j[c].accepted}
    IN  {j[c].result : c \in {d \in latest : j[d].state = "Terminal"}}

-----------------------------------------------------------------------------
Sequences == 0..(2 * Cardinality(Commands) + 1)
Results == DomainStates \cup {"Error", "None"}
EntryStates == {"Absent", "Accepted", "Running", "Terminal", "Unknown"}
Snapshots == [Commands -> [state : EntryStates, accepted : Sequences,
                           last : Sequences, result : Results]]

\* Type correctness; a command never needs more than two sequence numbers.
TypeOK ==
    /\ up \in BOOLEAN
    /\ linked \in BOOLEAN
    /\ entries \in Snapshots
    /\ next_sequence \in Sequences \ {0}
    /\ disk \in Snapshots
    /\ handling \in [cmd : Commands \cup {NoCommand},
                     step : {"Idle", "Accepted", "Announced", "Running",
                             "Executed", "Completed"}, result : Results]
    /\ runs \in [Commands -> 0..MaxRuns]
    /\ host \in DomainStates
    /\ sent \subseteq [cmd : Commands, state : EntryStates, seq : Sequences]
    /\ faulted \in BOOLEAN

\* A mutation is executed at most once, however often it is delivered and
\* wherever between journaling, executing and completing the agent crashes or
\* its disk fails ("Duplicate delivery is therefore safe").
ExecutedAtMostOnce == \A c \in Commands : runs[c] <= 1

\* Terminal evidence is sent only for a command that was executed, and once
\* a command has been reported Unknown it is never executed: the control
\* plane may observe the host and act on what it sees.
EvidenceIsTrue ==
    [][/\ \A e \in sent' \ sent : e.state = "Terminal" => runs[e.cmd] > 0
       /\ \A e \in sent : e.state = "Unknown" => runs'[e.cmd] = runs[e.cmd]]_vars

\* After a crash of agent or host the journal on disk never claims that the
\* last mutation left the domain in a state it was not left in, so the startup
\* restore starts no domain that a later, unfinished stop or delete touched.
RestoreIsSound == \A s \in last_lifecycle_resource_states(disk) : s \in DomainStates => s = host

\* As long as the snapshot writes work, a sequence number identifies one piece
\* of evidence of the agent, across crashes and the renumbering that open does.
\* A failed write gives its number back: the next evidence uses it again.
SequenceNamesOneEvidence == faulted \/ \A e, f \in sent : e.seq = f.seq => e = f

(***************************************************************************)
(* The journal as an at-most-once executor.  A command may still change the *)
(* host while the agent's memory does not know it, or while its handling    *)
(* has not come to the execution; after a crash only what the disk does not *)
(* know can be accepted again.                                              *)
(***************************************************************************)
MayRun(c) ==
    \/ handling.cmd = c /\ handling.step \in {"Accepted", "Announced", "Running"}
    \/ up /\ entries[c].state = "Absent"
    \/ ~up /\ disk[c].state = "Absent"

Told ==
    {<<e.cmd, "Executed">> : e \in {f \in sent : f.state = "Terminal"}}
        \cup {<<e.cmd, "Unknown">> : e \in {f \in sent : f.state = "Unknown"}}

Once == INSTANCE OnceExecutor
    WITH Operations <- Commands, pending <- {c \in Commands : MayRun(c)}, told <- Told

\* The journal and its command loop implement the at-most-once executor: in
\* particular nothing that was reported Unknown is executed afterwards, and
\* only executed commands are reported terminal.
ImplementsOnceExecutor == Once!Spec

\* Whatever was executed is eventually reported, terminal or unknown.
ExecutedIsReported ==
    \A c \in Commands :
        runs[c] > 0 ~> \E e \in sent : e.cmd = c /\ e.state \in {"Terminal", "Unknown"}

\* Whatever was accepted is eventually answered from the journal ("equivalent
\* duplicate is acknowledged from the durable record").
AcceptedIsAnswered ==
    \A c \in Commands :
        (up /\ c \in InFlight(entries)) ~>
            \E e \in sent : e.cmd = c /\ e.state \in {"Terminal", "Unknown"}
=============================================================================
