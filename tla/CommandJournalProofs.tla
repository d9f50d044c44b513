------------------------ MODULE CommandJournalProofs ------------------------
(***************************************************************************)
(* What the command journal guarantees for any set of commands, any journal *)
(* size and any pattern of crashes, lost streams and failing writes.        *)
(***************************************************************************)
EXTENDS CommandJournal, FiniteSetTheorems, TLAPS

Steps == {"Idle", "Accepted", "Announced", "Running", "Executed", "Completed"}
BeforeExecution == {"Accepted", "Announced", "Running"}

Present(j, c) == j[c].state \in {"Accepted", "Running", "Terminal", "Unknown"}

\* The part of a snapshot's shape that the argument needs.
IsSnapshot(j) ==
    /\ DOMAIN j = Commands
    /\ \A c \in Commands : "state" \in DOMAIN j[c] /\ j[c].state \in EntryStates

Shape ==
    /\ up \in BOOLEAN
    /\ linked \in BOOLEAN
    /\ linked => up
    /\ IsSnapshot(entries)
    /\ IsSnapshot(disk)
    /\ handling \in [cmd : Commands \cup {NoCommand}, step : Steps, result : Results]
    /\ handling.step # "Idle" => up
    /\ runs \in [Commands -> 0..1]
    /\ \A e \in sent : e.cmd \in Commands

\* Journal before effect: what was executed is in the snapshot on disk and,
\* while the process runs, in the one in memory, which holds nothing the disk
\* has not heard of.
Journaled ==
    \A c \in Commands :
        /\ runs[c] = 1 => Present(disk, c)
        /\ up /\ runs[c] = 1 => Present(entries, c)
        /\ up /\ Present(entries, c) => Present(disk, c)

\* A terminal entry was executed.
TerminalRan ==
    \A c \in Commands :
        /\ disk[c].state = "Terminal" => runs[c] = 1
        /\ entries[c].state = "Terminal" => runs[c] = 1

\* What is known of the command in hand at each step of its handling.
InHand ==
    handling.step # "Idle" =>
        LET c == handling.cmd IN
        /\ c \in Commands
        /\ Present(disk, c)
        /\ entries[c].state \in IF handling.step = "Completed" THEN {"Terminal"}
                                 ELSE {"Accepted", "Running"}
        /\ runs[c] = IF handling.step \in BeforeExecution THEN 0 ELSE 1

\* A command reported Unknown is in both snapshots and not in hand.
UnknownSettled ==
    \A e \in sent : e.state = "Unknown" =>
        /\ Present(disk, e.cmd)
        /\ up => Present(entries, e.cmd)
        /\ handling.step # "Idle" => handling.cmd # e.cmd

\* Terminal evidence on the stream is about an executed command.
TerminalSent == \A e \in sent : e.state = "Terminal" => runs[e.cmd] = 1

\* The inductive invariant.
JournalInv == Shape /\ Journaled /\ TerminalRan /\ InHand /\ UnknownSettled /\ TerminalSent

USE CommandsAssumption, EffectAssumption

-----------------------------------------------------------------------------
\* Rewriting the record of one journaled command by a present state keeps the
\* snapshot's shape, and changes what is present nowhere else.
LEMMA WriteEntry ==
    ASSUME NEW j, IsSnapshot(j), NEW c \in Commands, NEW r, "state" \in DOMAIN r,
           r.state \in EntryStates
    PROVE  LET i == [j EXCEPT ![c] = r] IN
           /\ IsSnapshot(i)
           /\ i[c] = r
           /\ \A d \in Commands : d # c => i[d] = j[d]
  BY DEF IsSnapshot

\* Recovery keeps every journaled command present, turns none terminal and
\* leaves none in flight.
LEMMA RecoverSnapshot ==
    ASSUME NEW j, IsSnapshot(j), NEW seq
    PROVE  LET i == Recover(j, seq) IN
           /\ IsSnapshot(i)
           /\ \A c \in Commands : /\ Present(i, c) <=> Present(j, c)
                                  /\ i[c].state = "Terminal" => j[c].state = "Terminal"
  BY DEF IsSnapshot, Recover, InFlight, Present, EntryStates

\* The record that mark_running or complete writes over an entry.
LEMMA RewriteState ==
    ASSUME NEW r, "state" \in DOMAIN r, NEW s, NEW n, NEW x
    PROVE  /\ LET q == [r EXCEPT !.state = s] IN q.state = s /\ "state" \in DOMAIN q
           /\ LET q == [r EXCEPT !.state = s, !.last = n, !.result = x]
              IN  q.state = s /\ "state" \in DOMAIN q
  OBVIOUS

-----------------------------------------------------------------------------
\* Initially the journal, the history and the stream are empty.
LEMMA JournalInit == Init => JournalInv
  <1> SUFFICES ASSUME Init PROVE JournalInv
    OBVIOUS
  <1>1. /\ DOMAIN entries = Commands /\ DOMAIN disk = Commands
        /\ \A c \in Commands : /\ entries[c] = Absent /\ disk[c] = Absent
                               /\ runs[c] = 0
    BY DEF Init
  <1>2. Absent.state = "Absent" /\ "state" \in DOMAIN Absent
    BY DEF Absent
  <1>3. handling \in [cmd : Commands \cup {NoCommand}, step : Steps, result : Results]
        /\ handling.step = "Idle"
    BY DEF Init, Idle, Steps, Results
  <1>4. /\ up = FALSE /\ linked = FALSE /\ sent = {}
        /\ runs \in [Commands -> 0..1]
    BY DEF Init
  <1>5. Shape
    BY <1>1, <1>2, <1>3, <1>4 DEF Shape, IsSnapshot, EntryStates
  <1> QED
    BY <1>1, <1>2, <1>3, <1>4, <1>5
    DEF JournalInv, Journaled, TerminalRan, InHand, UnknownSettled, TerminalSent, Present

USE DEF Present, EntryStates, Steps, BeforeExecution

\* Opening the journal.
LEMMA OpenStep == ASSUME JournalInv, NEW w \in Writes, open(w) PROVE JournalInv'
  <1>1. PICK seq : LET j == Recover(disk, seq) IN
                     /\ Persist(j, w)
                     /\ up' = (w = "ok")
                     /\ entries' = IF w = "ok" THEN j ELSE entries
    BY DEF open
  <1> DEFINE j == Recover(disk, seq)
  <1>2. /\ IsSnapshot(j)
        /\ \A c \in Commands : /\ Present(j, c) <=> Present(disk, c)
                               /\ j[c].state = "Terminal" => disk[c].state = "Terminal"
    BY RecoverSnapshot DEF JournalInv, Shape
  <1>3. /\ ~up
        /\ UNCHANGED <<linked, handling, runs, sent>>
    BY DEF open
  <1>4. handling.step = "Idle" BY <1>3 DEF JournalInv, Shape
  <1> HIDE DEF j
  <1>5. disk' \in {disk, j} /\ entries' \in {entries, j} /\ (up' => entries' = j)
    BY <1>1 DEF Persist, j
  <1>6. up' \in BOOLEAN /\ ~linked BY <1>1, <1>3 DEF JournalInv, Shape
  <1> QED
    BY <1>2, <1>3, <1>4, <1>5, <1>6
    DEF JournalInv, Shape, Journaled, TerminalRan, InHand, UnknownSettled, TerminalSent, IsSnapshot

\* Steps of the stream: replay, loss, crash.
LEMMA StreamStep ==
    ASSUME JournalInv, Connect \/ Disconnect \/ Crash \/ \E c \in Commands : Duplicate(c)
    PROVE  JournalInv'
  <1>1. CASE Connect
    <2>1. \A e \in sent' \ sent :
            \E c \in Commands : e.cmd = c /\ e.state = entries[c].state
      BY <1>1 DEF Connect, replay_journal_entries, Evidence, Reportable
    <2> QED
      BY <1>1, <2>1
      DEF Connect, JournalInv, Shape, IsSnapshot, Journaled, TerminalRan, InHand,
          UnknownSettled, TerminalSent, replay_journal_entries, Evidence, Reportable, Idle
  <1>2. CASE Disconnect
    BY <1>2 DEF Disconnect, JournalInv, Shape, IsSnapshot, Journaled, TerminalRan, InHand,
                UnknownSettled, TerminalSent
  <1>3. CASE Crash
    BY <1>3 DEF Crash, JournalInv, Shape, IsSnapshot, Journaled, TerminalRan, InHand,
                UnknownSettled, TerminalSent, Idle, Results
  <1>4. CASE \E c \in Commands : Duplicate(c)
    BY <1>4 DEF Duplicate, JournalInv, Shape, IsSnapshot, Journaled, TerminalRan, InHand,
                UnknownSettled, TerminalSent, Evidence, Reportable, Idle
  <1> QED BY <1>1, <1>2, <1>3, <1>4

\* A command is journaled.  It has not been executed, because what was executed
\* is in memory and the identity is not.
LEMMA AcceptStep ==
    ASSUME JournalInv, NEW c \in Commands, NEW w \in Writes, accept(c, w)
    PROVE  JournalInv'
  <1> DEFINE r == [state |-> "Accepted", accepted |-> next_sequence,
                   last |-> next_sequence, result |-> "None"]
             j == [entries EXCEPT ![c] = r]
  <1>1. r.state = "Accepted" /\ "state" \in DOMAIN r
    OBVIOUS
  <1>2. /\ handling = Idle /\ entries[c].state = "Absent"
        /\ disk' \in {disk, j}
        /\ UNCHANGED <<up, runs, sent>>
        /\ \/ /\ entries' = j /\ disk' = j
              /\ handling' = [cmd |-> c, step |-> "Accepted", result |-> "None"]
           \/ entries' = entries /\ handling' = Idle
    BY DEF accept, Persist, KnownCommand
  <1>3. linked /\ linked' \in {linked, FALSE}
    BY DEF accept
  <1> HIDE DEF r
  <1>4. /\ IsSnapshot(j) /\ j[c] = r
        /\ \A d \in Commands : d # c => j[d] = entries[d]
    BY <1>1, WriteEntry DEF JournalInv, Shape
  <1> HIDE DEF j
  <1>5. up /\ runs[c] = 0 /\ \A e \in sent : e.state = "Unknown" => e.cmd # c
    BY <1>2, <1>3 DEF JournalInv, Shape, Journaled, UnknownSettled, Idle
  <1>6. Shape'
    <2>1. handling' \in [cmd : Commands \cup {NoCommand}, step : Steps, result : Results]
      BY <1>2 DEF Idle, Results
    <2>2. IsSnapshot(entries') /\ IsSnapshot(disk')
      BY <1>2, <1>4 DEF JournalInv, Shape
    <2>3. linked' \in BOOLEAN
      BY <1>3 DEF JournalInv, Shape
    <2> QED
      BY <1>2, <1>5, <2>1, <2>2, <2>3 DEF JournalInv, Shape, IsSnapshot
  <1>7. Journaled'
    BY <1>1, <1>2, <1>4, <1>5 DEF JournalInv, Shape, Journaled
  <1>8. TerminalRan'
    BY <1>1, <1>2, <1>4, <1>5 DEF JournalInv, TerminalRan
  <1>9. InHand'
    BY <1>1, <1>2, <1>4, <1>5 DEF JournalInv, InHand, Idle
  <1>10. UnknownSettled'
    BY <1>1, <1>2, <1>4, <1>5 DEF JournalInv, Shape, UnknownSettled, Idle
  <1> QED
    BY <1>2, <1>6, <1>7, <1>8, <1>9, <1>10 DEF JournalInv, TerminalSent

\* The acceptance or the terminal entry is reported.
LEMMA ReportStep ==
    ASSUME JournalInv, NEW c \in Commands,
           send_command_accepted(c) \/ replay_journal_entry(c)
    PROVE  JournalInv'
  <1>1. CASE send_command_accepted(c)
    <2>1. /\ handling.cmd = c /\ handling.step = "Accepted"
          /\ UNCHANGED <<up, entries, disk, runs>>
          /\ linked' \in {linked, FALSE}
          /\ \/ sent' = sent \cup {[cmd |-> c, state |-> entries[c].state, seq |-> entries[c].last]}
                /\ handling' = [handling EXCEPT !.step = "Announced"]
             \/ sent' = sent /\ handling' = Idle
      BY <1>1 DEF send_command_accepted, At, Abort, Evidence
    <2>2. \A e \in sent' : e \in sent \/ (e.cmd = c /\ e.state = entries[c].state)
      BY <2>1
    <2>3. Shape'
      <3>1. handling' \in [cmd : Commands \cup {NoCommand}, step : Steps, result : Results]
        BY <2>1 DEF Idle, Results, JournalInv, Shape
      <3>2. linked' \in BOOLEAN /\ up
        BY <2>1 DEF JournalInv, Shape
      <3>3. \A e \in sent' : e.cmd \in Commands
        BY <2>2 DEF JournalInv, Shape
      <3> QED
        BY <2>1, <3>1, <3>2, <3>3 DEF JournalInv, Shape, IsSnapshot
    <2>4. Journaled' /\ TerminalRan'
      BY <2>1 DEF JournalInv, Journaled, TerminalRan
    <2>5. InHand'
      BY <2>1 DEF JournalInv, Shape, InHand, Idle
    <2>6. UnknownSettled' /\ TerminalSent'
      BY <2>1, <2>2 DEF JournalInv, Shape, InHand, UnknownSettled, TerminalSent, Idle
    <2> QED BY <2>3, <2>4, <2>5, <2>6 DEF JournalInv
  <1>2. CASE replay_journal_entry(c)
    <2>1. /\ handling.cmd = c /\ handling.step = "Completed"
          /\ UNCHANGED <<up, entries, disk, runs>>
          /\ linked' \in {linked, FALSE}
          /\ \/ sent' = sent \cup {[cmd |-> c, state |-> entries[c].state, seq |-> entries[c].last]}
                /\ handling' = Idle
             \/ sent' = sent /\ handling' = Idle
      BY <1>2 DEF replay_journal_entry, At, Abort, Evidence
    <2>2. \A e \in sent' : e \in sent \/ (e.cmd = c /\ e.state = entries[c].state)
      BY <2>1
    <2>3. Shape'
      <3>1. handling' \in [cmd : Commands \cup {NoCommand}, step : Steps, result : Results]
        BY <2>1 DEF Idle, Results, JournalInv, Shape
      <3>2. linked' \in BOOLEAN /\ up
        BY <2>1 DEF JournalInv, Shape
      <3>3. \A e \in sent' : e.cmd \in Commands
        BY <2>2 DEF JournalInv, Shape
      <3> QED
        BY <2>1, <3>1, <3>2, <3>3 DEF JournalInv, Shape, IsSnapshot
    <2>4. Journaled' /\ TerminalRan'
      BY <2>1 DEF JournalInv, Journaled, TerminalRan
    <2>5. InHand'
      BY <2>1 DEF JournalInv, Shape, InHand, Idle
    <2>6. UnknownSettled' /\ TerminalSent'
      BY <2>1, <2>2 DEF JournalInv, Shape, InHand, UnknownSettled, TerminalSent, Idle
    <2> QED BY <2>3, <2>4, <2>5, <2>6 DEF JournalInv
  <1> QED BY <1>1, <1>2

\* The entry in hand is rewritten, durably or not.
LEMMA RewriteStep ==
    ASSUME JournalInv, NEW c \in Commands, NEW w \in Writes,
           mark_running(c, w) \/ complete(c, w)
    PROVE  JournalInv'
  <1>1. CASE mark_running(c, w)
    <2> DEFINE r == [entries[c] EXCEPT !.state = "Running"]
               j == [entries EXCEPT ![c] = r]
    <2>1. r.state = "Running" /\ "state" \in DOMAIN r
      BY RewriteState DEF JournalInv, Shape, IsSnapshot
    <2>2. /\ handling.cmd = c /\ handling.step = "Announced"
          /\ disk' \in {disk, j} /\ entries' = j
          /\ UNCHANGED <<up, runs, sent>>
          /\ \/ linked' = linked /\ handling' = [handling EXCEPT !.step = "Running"]
                 /\ disk' = j
             \/ linked' = FALSE /\ handling' = Idle
      BY <1>1 DEF mark_running, At, Persist, Abort
    <2> HIDE DEF r
    <2>3. /\ IsSnapshot(j) /\ j[c] = r
          /\ \A d \in Commands : d # c => j[d] = entries[d]
      BY <2>1, WriteEntry DEF JournalInv, Shape
    <2> HIDE DEF j
    <2>4. up /\ runs[c] = 0 /\ Present(disk, c)
      BY <2>2 DEF JournalInv, Shape, InHand
    <2>5. Shape'
      <3>1. handling' \in [cmd : Commands \cup {NoCommand}, step : Steps, result : Results]
        BY <2>2 DEF Idle, Results, JournalInv, Shape
      <3>2. IsSnapshot(entries') /\ IsSnapshot(disk')
        BY <2>2, <2>3 DEF JournalInv, Shape
      <3>3. linked' \in BOOLEAN
        BY <2>2 DEF JournalInv, Shape
      <3> QED
        BY <2>2, <2>4, <3>1, <3>2, <3>3 DEF JournalInv, Shape, IsSnapshot
    <2>6. Journaled' /\ TerminalRan'
      BY <2>1, <2>2, <2>3, <2>4 DEF JournalInv, Journaled, TerminalRan
    <2>7. InHand' /\ UnknownSettled'
      BY <2>1, <2>2, <2>3, <2>4 DEF JournalInv, Shape, InHand, UnknownSettled, Idle
    <2> QED BY <2>2, <2>5, <2>6, <2>7 DEF JournalInv, TerminalSent
  <1>2. CASE complete(c, w)
    <2> DEFINE r == [entries[c] EXCEPT !.state = "Terminal", !.last = next_sequence,
                                       !.result = handling.result]
               j == [entries EXCEPT ![c] = r]
    <2>1. r.state = "Terminal" /\ "state" \in DOMAIN r
      BY RewriteState DEF JournalInv, Shape, IsSnapshot
    <2>2. /\ handling.cmd = c /\ handling.step = "Executed"
          /\ disk' \in {disk, j} /\ entries' = j
          /\ UNCHANGED <<up, runs, sent>>
          /\ \/ linked' = linked /\ handling' = [handling EXCEPT !.step = "Completed"]
                 /\ disk' = j
             \/ linked' = FALSE /\ handling' = Idle
      BY <1>2 DEF complete, At, Persist, Abort
    <2> HIDE DEF r
    <2>3. /\ IsSnapshot(j) /\ j[c] = r
          /\ \A d \in Commands : d # c => j[d] = entries[d]
      BY <2>1, WriteEntry DEF JournalInv, Shape
    <2> HIDE DEF j
    <2>4. up /\ runs[c] = 1 /\ Present(disk, c)
      BY <2>2 DEF JournalInv, Shape, InHand
    <2>5. Shape'
      <3>1. handling' \in [cmd : Commands \cup {NoCommand}, step : Steps, result : Results]
        BY <2>2 DEF Idle, Results, JournalInv, Shape
      <3>2. IsSnapshot(entries') /\ IsSnapshot(disk')
        BY <2>2, <2>3 DEF JournalInv, Shape
      <3>3. linked' \in BOOLEAN
        BY <2>2 DEF JournalInv, Shape
      <3> QED
        BY <2>2, <2>4, <3>1, <3>2, <3>3 DEF JournalInv, Shape, IsSnapshot
    <2>6. Journaled' /\ TerminalRan'
      BY <2>1, <2>2, <2>3, <2>4 DEF JournalInv, Journaled, TerminalRan
    <2>7. InHand' /\ UnknownSettled'
      BY <2>1, <2>2, <2>3, <2>4 DEF JournalInv, Shape, InHand, UnknownSettled, Idle
    <2> QED BY <2>2, <2>5, <2>6, <2>7 DEF JournalInv, TerminalSent
  <1> QED BY <1>1, <1>2

\* The one step that executes finds the command journaled and never run.
LEMMA ExecuteStep ==
    ASSUME JournalInv, NEW c \in Commands, execute(c)
    PROVE  JournalInv' /\ runs[c] = 0
  <1>1. /\ handling.cmd = c /\ handling.step = "Running"
        /\ runs' = [runs EXCEPT ![c] = @ + 1]
        /\ UNCHANGED <<up, linked, entries, disk, sent>>
        /\ \E x \in Results : handling' = [handling EXCEPT !.step = "Executed", !.result = x]
    BY DEF execute, At, Results
  <1>2. /\ up /\ runs[c] = 0 /\ Present(disk, c)
        /\ entries[c].state \in {"Accepted", "Running"}
    BY <1>1 DEF JournalInv, Shape, InHand
  <1>3. runs' = [runs EXCEPT ![c] = 1] /\ runs' \in [Commands -> 0..1]
    BY <1>1, <1>2 DEF JournalInv, Shape
  <1>4. Shape'
    <2>1. handling' \in [cmd : Commands \cup {NoCommand}, step : Steps, result : Results]
      BY <1>1 DEF JournalInv, Shape
    <2> QED
      BY <1>1, <1>2, <1>3, <2>1 DEF JournalInv, Shape, IsSnapshot
  <1>5. Journaled' /\ TerminalRan' /\ TerminalSent'
    BY <1>1, <1>2, <1>3 DEF JournalInv, Shape, Journaled, TerminalRan, TerminalSent
  <1>6. InHand' /\ UnknownSettled'
    BY <1>1, <1>2, <1>3 DEF JournalInv, Shape, InHand, UnknownSettled
  <1> QED BY <1>2, <1>4, <1>5, <1>6 DEF JournalInv

\* Every step of the journal preserves the invariant.
LEMMA JournalStep == JournalInv /\ [Next]_vars => JournalInv'
  <1> SUFFICES ASSUME JournalInv, [Next]_vars PROVE JournalInv'
    OBVIOUS
  <1>1. CASE \E w \in Writes : open(w)
    BY <1>1, OpenStep
  <1>2. CASE Connect \/ Disconnect \/ Crash \/ \E c \in Commands : Duplicate(c)
    BY <1>2, StreamStep
  <1>3. CASE \E c \in Commands, w \in Writes : accept(c, w)
    BY <1>3, AcceptStep
  <1>4. CASE \E c \in Commands : send_command_accepted(c) \/ replay_journal_entry(c)
    BY <1>4, ReportStep
  <1>5. CASE \E c \in Commands, w \in Writes : mark_running(c, w) \/ complete(c, w)
    BY <1>5, RewriteStep
  <1>6. CASE \E c \in Commands : execute(c)
    <2>1. PICK c \in Commands : execute(c) BY <1>6
    <2> QED BY <2>1, ExecuteStep
  <1>7. CASE UNCHANGED vars
    <2>1. Shape' BY <1>7 DEF vars, JournalInv, Shape, IsSnapshot
    <2>2. Journaled' /\ TerminalRan' BY <1>7 DEF vars, JournalInv, Journaled, TerminalRan
    <2>3. InHand' BY <1>7 DEF vars, JournalInv, InHand
    <2>4. UnknownSettled' /\ TerminalSent'
      BY <1>7 DEF vars, JournalInv, UnknownSettled, TerminalSent
    <2> QED BY <2>1, <2>2, <2>3, <2>4 DEF JournalInv
  <1> QED BY <1>1, <1>2, <1>3, <1>4, <1>5, <1>6, <1>7 DEF Next

-----------------------------------------------------------------------------
\* JournalInv holds in every reachable state.
THEOREM JournalInvariant == Spec => []JournalInv
  BY JournalInit, JournalStep, PTL DEF Spec

\* No mutation is executed twice, for any number of commands, deliveries,
\* crashes, lost streams and failing journal writes of connect_once.
THEOREM AtMostOnce == Spec => []ExecutedAtMostOnce
  <1>1. JournalInv => ExecutedAtMostOnce
    BY DEF JournalInv, Shape, ExecutedAtMostOnce
  <1> QED BY <1>1, JournalInvariant, PTL

\* What replay_journal_entry puts on the stream is true of the host: terminal
\* evidence is about an executed command, and a command reported Unknown is
\* never executed afterwards.
THEOREM EvidenceTrue == Spec => EvidenceIsTrue
  <1> DEFINE True ==
        /\ \A e \in sent' \ sent : e.state = "Terminal" => runs[e.cmd] > 0
        /\ \A e \in sent : e.state = "Unknown" => runs'[e.cmd] = runs[e.cmd]
  <1>1. JournalInv /\ [Next]_vars => [True]_vars
    <2> SUFFICES ASSUME JournalInv, Next, JournalInv' PROVE True
      BY JournalStep
    <2>1. CASE \E c \in Commands : execute(c)
      <3>1. PICK c \in Commands : execute(c) BY <2>1
      <3>2. runs' = [runs EXCEPT ![c] = @ + 1] /\ sent' = sent /\ handling.cmd = c
            /\ handling.step = "Running"
        BY <3>1 DEF execute, At
      <3> QED BY <3>2 DEF JournalInv, Shape, UnknownSettled
    <2>2. CASE ~ \E c \in Commands : execute(c)
      <3>1. runs' = runs
        BY <2>2 DEF Next, open, Connect, Disconnect, Crash, accept, Duplicate,
                    send_command_accepted, mark_running, complete, replay_journal_entry
      <3>2. \A e \in sent' : e.state = "Terminal" => runs[e.cmd] = 1
        BY <3>1 DEF JournalInv, TerminalSent
      <3> QED BY <3>1, <3>2
    <2> QED BY <2>1, <2>2
  <1> QED BY <1>1, JournalInvariant, PTL DEF Spec, EvidenceIsTrue
-----------------------------------------------------------------------------
(***************************************************************************)
(* The refinement.  Every step of the journal executes one pending command, *)
(* ends some, or reports; the three lemmas say so per group of actions.     *)
(***************************************************************************)
PendingNow == {c \in Commands : MayRun(c)}

\* Steps that say nothing and execute nothing only end commands.
LEMMA CloseStep ==
    ASSUME JournalInv,
           \/ \E w \in Writes : open(w)
           \/ Crash \/ Disconnect
           \/ \E c \in Commands, w \in Writes :
                 accept(c, w) \/ mark_running(c, w) \/ complete(c, w)
    PROVE  Once!Close
  <1>1. runs' = runs /\ sent' = sent
    BY DEF open, Crash, Disconnect, accept, mark_running, complete
  <1>2. ASSUME NEW d \in Commands, MayRun(d)' PROVE MayRun(d)
    <2>1. CASE \E w \in Writes : open(w)
      <3>1. PICK w \in Writes : open(w) BY <2>1
      <3>2. PICK seq : LET j == Recover(disk, seq) IN
                     /\ Persist(j, w)
                     /\ up' = (w = "ok")
                     /\ entries' = IF w = "ok" THEN j ELSE entries
        BY <3>1 DEF open
      <3>3. Present(Recover(disk, seq), d) <=> Present(disk, d)
        BY RecoverSnapshot DEF JournalInv, Shape
      <3>4. IsSnapshot(Recover(disk, seq))
        BY RecoverSnapshot DEF JournalInv, Shape
      <3>5. ~up /\ handling' = handling /\ handling.step = "Idle"
        BY <3>1 DEF open, JournalInv, Shape
      <3> QED
        BY <1>2, <3>2, <3>3, <3>4, <3>5 DEF MayRun, Persist, IsSnapshot, JournalInv, Shape
    <2>2. CASE Crash
      BY <1>2, <2>2 DEF MayRun, Crash, Idle, JournalInv, Shape, IsSnapshot, Journaled
    <2>3. CASE Disconnect
      BY <1>2, <2>3 DEF MayRun, Disconnect
    <2>4. ASSUME NEW c \in Commands, NEW w \in Writes, accept(c, w) PROVE MayRun(d)
      <3> DEFINE r == [state |-> "Accepted", accepted |-> next_sequence,
                       last |-> next_sequence, result |-> "None"]
      <3>1. /\ up /\ up' = up /\ handling = Idle /\ entries[c].state = "Absent"
            /\ \/ /\ entries' = [entries EXCEPT ![c] = r]
                  /\ handling' = [cmd |-> c, step |-> "Accepted", result |-> "None"]
               \/ entries' = entries /\ handling' = handling
        BY <2>4 DEF accept, KnownCommand, JournalInv, Shape
      <3> HIDE DEF r
      <3>2. CASE d = c BY <3>1, <3>2 DEF MayRun
      <3>3. CASE d # c BY <1>2, <3>1, <3>3 DEF MayRun, JournalInv, Shape, IsSnapshot
      <3> QED BY <3>2, <3>3
    <2>5. ASSUME NEW c \in Commands, NEW w \in Writes, mark_running(c, w) PROVE MayRun(d)
      <3> DEFINE r == [entries[c] EXCEPT !.state = "Running"]
      <3>1. /\ up' = up /\ handling.cmd = c /\ handling.step = "Announced"
            /\ entries' = [entries EXCEPT ![c] = r]
            /\ handling' = [handling EXCEPT !.step = "Running"] \/ handling' = Idle
        BY <2>5 DEF mark_running, At, Abort
      <3>2. up BY <3>1 DEF JournalInv, Shape
      <3> HIDE DEF r
      <3>3. CASE d = c BY <3>1, <3>3 DEF MayRun
      <3>4. CASE d # c BY <1>2, <3>1, <3>2, <3>4 DEF MayRun, JournalInv, Shape, IsSnapshot, Idle
      <3> QED BY <3>3, <3>4
    <2>6. ASSUME NEW c \in Commands, NEW w \in Writes, complete(c, w) PROVE MayRun(d)
      <3> DEFINE r == [entries[c] EXCEPT !.state = "Terminal", !.last = next_sequence,
                                         !.result = handling.result]
                 j == [entries EXCEPT ![c] = r]
      <3>1. /\ up' = up /\ handling.cmd = c /\ handling.step = "Executed"
            /\ entries' = j
            /\ handling' = [handling EXCEPT !.step = "Completed"] \/ handling' = Idle
        BY <2>6 DEF complete, At, Abort
      <3>2. up /\ r.state = "Terminal" /\ "state" \in DOMAIN r
        BY <3>1, RewriteState DEF JournalInv, Shape, IsSnapshot
      <3> HIDE DEF r
      <3>3. /\ IsSnapshot(j) /\ j[c] = r
            /\ \A b \in Commands : b # c => j[b] = entries[b]
        BY <3>2, WriteEntry DEF JournalInv, Shape
      <3> HIDE DEF j
      <3>4. handling'.step \in {"Completed", "Idle"}
        BY <3>1 DEF JournalInv, Shape, Idle
      <3> QED BY <1>2, <3>1, <3>2, <3>3, <3>4 DEF MayRun
    <2> QED BY <2>1, <2>2, <2>3, <2>4, <2>5, <2>6
  <1>3. PendingNow' \in SUBSET PendingNow
    BY <1>2 DEF PendingNow
  <1>4. Told' = Told
    BY <1>1 DEF Told
  <1> QED BY <1>1, <1>3, <1>4 DEF Once!Close, PendingNow

\* Steps that report say what is true, and end nothing.
LEMMA TellStep ==
    ASSUME JournalInv,
           Connect \/ \E c \in Commands : Duplicate(c) \/ replay_journal_entry(c)
    PROVE  Once!Tell
  <1>1. /\ runs' = runs /\ UNCHANGED <<up, entries, disk>> /\ sent \subseteq sent'
    BY DEF Connect, Duplicate, replay_journal_entry
  <1>2. /\ handling.step \in {"Idle", "Completed"} /\ handling'.step = "Idle"
        /\ handling'.cmd \in {handling.cmd, NoCommand}
    BY DEF Connect, Duplicate, replay_journal_entry, At, Abort, Idle
  <1>3. PendingNow' = PendingNow
    BY <1>1, <1>2 DEF PendingNow, MayRun
  <1>4. ASSUME NEW e \in sent' \ sent
        PROVE  /\ e.cmd \in Commands /\ up
               /\ e.state = "Terminal" => runs[e.cmd] = 1
               /\ e.state = "Unknown" => entries[e.cmd].state = "Unknown"
    <2>1. e.cmd \in Commands /\ e.state = entries[e.cmd].state
      BY DEF Connect, Duplicate, replay_journal_entry, replay_journal_entries, Evidence,
             Reportable
    <2>2. up
      BY DEF Connect, Duplicate, replay_journal_entry, At, JournalInv, Shape
    <2> QED BY <2>1, <2>2 DEF JournalInv, TerminalRan
  <1>5. Told \subseteq Told'
    BY <1>1 DEF Told
  <1>6. ASSUME NEW t \in Told' \ Told
        PROVE  t \in Commands \X Once!Outcomes /\ Once!True(t[1], t[2])
    <2>1. PICK e \in sent' \ sent :
              \/ e.state = "Terminal" /\ t = <<e.cmd, "Executed">>
              \/ e.state = "Unknown" /\ t = <<e.cmd, "Unknown">>
      BY <1>6 DEF Told
    <2>2. e.state = "Unknown" => ~MayRun(e.cmd)
      BY <1>2, <1>4 DEF MayRun
    <2>3. e.cmd \in Commands /\ runs[e.cmd] \in 0..1
      BY <1>4 DEF JournalInv, Shape
    <2> QED BY <1>4, <2>1, <2>2, <2>3 DEF Once!True, Once!Outcomes
  <1>7. Told \subseteq Commands \X Once!Outcomes
    BY DEF Told, Once!Outcomes, JournalInv, Shape
  <1> QED BY <1>1, <1>3, <1>5, <1>6, <1>7 DEF Once!Tell, PendingNow

\* The announcement of an acceptance is no outcome.
LEMMA AnnounceStep ==
    ASSUME JournalInv, NEW c \in Commands, send_command_accepted(c)
    PROVE  Once!Close
  <1>1. /\ UNCHANGED <<up, entries, disk, runs>>
        /\ handling.cmd = c /\ handling.step = "Accepted"
        /\ handling' = [handling EXCEPT !.step = "Announced"] \/ handling' = Idle
        /\ \/ sent' = sent
           \/ sent' = sent \cup {[cmd |-> c, state |-> entries[c].state, seq |-> entries[c].last]}
    BY DEF send_command_accepted, At, Abort, Evidence
  <1>2. entries[c].state \in {"Accepted", "Running"}
    BY <1>1 DEF JournalInv, InHand
  <1>3. \A e \in sent' \ sent : e.state \notin {"Terminal", "Unknown"}
    BY <1>1, <1>2
  <1>4. sent \subseteq sent' BY <1>1
  <1>5. Told' = Told BY <1>3, <1>4 DEF Told
  <1>6. \A d \in Commands : MayRun(d)' => MayRun(d)
    BY <1>1 DEF MayRun, Idle, JournalInv, Shape
  <1>7. PendingNow' \in SUBSET PendingNow BY <1>6 DEF PendingNow
  <1> QED BY <1>1, <1>5, <1>7 DEF Once!Close, PendingNow

\* The execution of a command is one Run of the abstract executor.
LEMMA RunStep ==
    ASSUME JournalInv, NEW c \in Commands, execute(c)
    PROVE  Once!Run(c)
  <1>1. /\ handling.cmd = c /\ handling.step = "Running"
        /\ runs' = [runs EXCEPT ![c] = @ + 1]
        /\ UNCHANGED <<up, linked, entries, disk, sent>>
        /\ \E x \in Results : handling' = [handling EXCEPT !.step = "Executed", !.result = x]
    BY DEF execute, At, Results
  <1>2. /\ up /\ entries[c].state \in {"Accepted", "Running"}
    BY <1>1 DEF JournalInv, Shape, InHand
  <1>3. handling'.cmd = c /\ handling'.step = "Executed"
    BY <1>1 DEF JournalInv, Shape
  <1>4. MayRun(c) /\ ~MayRun(c)' /\ \A d \in Commands \ {c} : MayRun(d)' <=> MayRun(d)
    BY <1>1, <1>2, <1>3 DEF MayRun
  <1>5. c \in PendingNow /\ PendingNow' = PendingNow \ {c}
    BY <1>4 DEF PendingNow
  <1>6. Told' = Told BY <1>1 DEF Told
  <1> QED BY <1>1, <1>5, <1>6 DEF Once!Run, PendingNow

\* The compute agent's journal and command loop implement the at-most-once
\* executor that the control plane relies on, for any commands, journal size,
\* crashes, lost streams and failing snapshot writes.
THEOREM JournalImplementsOnceExecutor == Spec => ImplementsOnceExecutor
  <1>1. Init => Once!Init
    <2> SUFFICES ASSUME Init PROVE Once!Init
      OBVIOUS
    <2>1. ~up /\ runs = [c \in Commands |-> 0] /\ sent = {}
      BY DEF Init
    <2>2. \A c \in Commands : disk[c].state = "Absent"
      BY DEF Init, Absent
    <2>3. PendingNow = Commands BY <2>1, <2>2 DEF PendingNow, MayRun
    <2>4. Told = {} BY <2>1 DEF Told
    <2> QED BY <2>1, <2>3, <2>4 DEF Once!Init, PendingNow
  <1>2. JournalInv /\ [Next]_vars => [Once!Next]_(Once!vars)
    <2> SUFFICES ASSUME JournalInv, [Next]_vars PROVE Once!Next \/ UNCHANGED Once!vars
      OBVIOUS
    <2>1. CASE \/ \E w \in Writes : open(w)
               \/ Crash \/ Disconnect
               \/ \E c \in Commands, w \in Writes :
                     accept(c, w) \/ mark_running(c, w) \/ complete(c, w)
      BY <2>1, CloseStep DEF Once!Next
    <2>2. CASE Connect \/ \E c \in Commands : Duplicate(c) \/ replay_journal_entry(c)
      BY <2>2, TellStep DEF Once!Next
    <2>3. CASE \E c \in Commands : send_command_accepted(c)
      BY <2>3, AnnounceStep DEF Once!Next
    <2>4. CASE \E c \in Commands : execute(c)
      BY <2>4, RunStep DEF Once!Next
    <2>5. CASE UNCHANGED vars
      <3>1. UNCHANGED <<runs, sent, up, entries, disk, handling>> BY <2>5 DEF vars
      <3>2. PendingNow' = PendingNow BY <3>1 DEF PendingNow, MayRun
      <3>3. Told' = Told BY <3>1 DEF Told
      <3> QED BY <3>1, <3>2, <3>3 DEF Once!vars, PendingNow
    <2> QED BY <2>1, <2>2, <2>3, <2>4, <2>5 DEF Next
  <1> QED BY <1>1, <1>2, JournalInvariant, PTL DEF Spec, ImplementsOnceExecutor, Once!Spec

-----------------------------------------------------------------------------
(***************************************************************************)
(* Type correctness.  A command takes one sequence number when it is        *)
(* accepted and one when its outcome is known, and the numbers that failed  *)
(* writes give back are used again: the numbers stay below twice the size   *)
(* of the journal, whatever open renumbers.                                 *)
(***************************************************************************)
USE FiniteAssumption, BoundAssumption

Entry == [state : EntryStates, accepted : Sequences, last : Sequences, result : Results]

\* How many numbers the entries of a snapshot have taken.
Span(j) == Cardinality(Recorded(j)) + Cardinality(Reportable(j))

Within(j) == \A c \in Commands : j[c].last <= Span(j)

NumbersInv ==
    /\ TypeOK
    /\ Within(entries)
    /\ Within(disk)
    /\ next_sequence <= 1 + Span(entries)

\* A snapshot takes at most two numbers per command.
LEMMA SpanType ==
    ASSUME NEW j
    PROVE  /\ IsFiniteSet(Recorded(j)) /\ IsFiniteSet(Reportable(j)) /\ IsFiniteSet(InFlight(j))
           /\ Cardinality(Recorded(j)) \in Nat /\ Cardinality(Reportable(j)) \in Nat
           /\ Cardinality(InFlight(j)) \in Nat
           /\ Span(j) \in Sequences /\ Span(j) \in Nat /\ Span(j) + 1 \in Sequences
  <1>1. Recorded(j) \in SUBSET Commands /\ Reportable(j) \in SUBSET Commands
        /\ InFlight(j) \in SUBSET Commands
    BY DEF Recorded, Reportable, InFlight
  <1>2. /\ IsFiniteSet(Recorded(j)) /\ IsFiniteSet(Reportable(j)) /\ IsFiniteSet(InFlight(j))
        /\ Cardinality(Recorded(j)) <= Cardinality(Commands)
        /\ Cardinality(Reportable(j)) <= Cardinality(Commands)
    BY <1>1, FS_Subset
  <1>3. /\ Cardinality(Recorded(j)) \in Nat /\ Cardinality(Reportable(j)) \in Nat
        /\ Cardinality(InFlight(j)) \in Nat /\ Cardinality(Commands) \in Nat
    BY <1>2, FS_CardinalityType
  <1> QED BY <1>2, <1>3 DEF Span, Sequences

\* One more number is taken by an acceptance,
LEMMA SpanAccepts ==
    ASSUME NEW i, NEW j, NEW c \in Commands, j[c].state = "Absent", i[c].state = "Accepted",
           \A d \in Commands \ {c} : i[d].state = j[d].state
    PROVE  Span(i) = Span(j) + 1
  <1>1. Recorded(i) = Recorded(j) \cup {c} /\ c \notin Recorded(j) /\ Reportable(i) = Reportable(j)
    BY DEF Recorded, Reportable
  <1>2. Cardinality(Recorded(i)) = Cardinality(Recorded(j)) + 1
    BY <1>1, SpanType, FS_AddElement
  <1> QED BY <1>1, <1>2, SpanType DEF Span

\* one by a completion,
LEMMA SpanCompletes ==
    ASSUME NEW i, NEW j, NEW c \in Commands, j[c].state \in {"Accepted", "Running"},
           i[c].state = "Terminal", \A d \in Commands \ {c} : i[d].state = j[d].state
    PROVE  Span(i) = Span(j) + 1
  <1>1. Reportable(i) = Reportable(j) \cup {c} /\ c \notin Reportable(j) /\ Recorded(i) = Recorded(j)
    BY DEF Recorded, Reportable
  <1>2. Cardinality(Reportable(i)) = Cardinality(Reportable(j)) + 1
    BY <1>1, SpanType, FS_AddElement
  <1> QED BY <1>1, <1>2, SpanType DEF Span

\* and one for each command in flight by a recovery.
LEMMA SpanRecovers ==
    ASSUME NEW i, NEW j, Recorded(i) = Recorded(j), Reportable(i) = Reportable(j) \cup InFlight(j)
    PROVE  Span(i) = Span(j) + Cardinality(InFlight(j))
  <1>1. Reportable(j) \cap InFlight(j) = {}
    BY DEF Reportable, InFlight
  <1>2. Cardinality({}) = 0
    BY FS_EmptySet
  <1>3. Cardinality(Reportable(i)) = Cardinality(Reportable(j)) + Cardinality(InFlight(j)) - 0
    BY <1>1, <1>2, SpanType, FS_Union
  <1> QED BY <1>3, SpanType DEF Span

\* The largest number of a snapshot is the least bound of its numbers.
LEMMA LastOf ==
    ASSUME NEW j \in Snapshots
    PROVE  LET n == NextAfter(j) IN
           /\ n \in Nat \ {0}
           /\ \A c \in Commands : j[c].last < n
           /\ \A b \in Nat : (\A c \in Commands : j[c].last <= b) => n <= b + 1
  <1> DEFINE L == {0} \cup {j[c].last : c \in Commands}
             B == {b \in Nat : \A x \in L : x <= b}
  <1>1. \A c \in Commands : j[c].last \in Sequences
    BY DEF Snapshots
  <1>2. Cardinality(Commands) \in Nat
    BY FS_CardinalityType
  <1>3. L \subseteq Nat /\ 2 * Cardinality(Commands) + 1 \in B
    BY <1>1, <1>2 DEF Sequences
  <1> HIDE DEF L
  <1>4. PICK m \in B : \A y \in B : ~(<<y, m>> \in OpToRel(<, Nat))
    <2>1. B \subseteq Nat /\ B # {}
      BY <1>3
    <2> HIDE DEF B
    <2> QED BY <2>1, NatLessThanWellFounded, WFMin, Zenon
  <1>5. \A y \in B : ~(y < m)
    BY <1>4 DEF OpToRel
  <1>6. m \in L
    <2> SUFFICES ASSUME m \notin L PROVE FALSE
      OBVIOUS
    <2>1. 0 \in L
      BY DEF L
    <2>2. m \in Nat /\ m # 0 /\ \A x \in L : x < m
      BY <1>3, <2>1
    <2>3. m - 1 \in B
      BY <1>3, <2>2
    <2> QED BY <1>5, <2>2, <2>3
  <1>7. Max(L) \in L /\ \A y \in L : Max(L) >= y
    <2>1. \E x \in L : \A y \in L : x >= y
      BY <1>3, <1>6
    <2> QED BY <2>1 DEF Max
  <1>8. NextAfter(j) = 1 + Max(L)
    BY DEF NextAfter, L
  <1>9. \A c \in Commands : j[c].last \in L
    BY DEF L
  <1>10. \A x \in L : x = 0 \/ \E c \in Commands : x = j[c].last
    BY DEF L
  <1>11. Max(L) \in Nat /\ \A c \in Commands : j[c].last \in Nat /\ j[c].last <= Max(L)
    BY <1>3, <1>7, <1>9
  <1>12. ASSUME NEW b \in Nat, \A c \in Commands : j[c].last <= b PROVE Max(L) <= b
    BY <1>7, <1>10, <1>11, <1>12
  <1> QED BY <1>8, <1>11, <1>12

\* The steps that write no snapshot.
LEMMA NumbersOthers ==
    ASSUME NumbersInv, JournalInv,
           \/ Connect \/ Disconnect \/ Crash \/ UNCHANGED vars
           \/ \E c \in Commands : \/ Duplicate(c) \/ send_command_accepted(c) \/ execute(c)
                                  \/ replay_journal_entry(c)
    PROVE  NumbersInv'
  <1>1. UNCHANGED <<entries, disk, next_sequence, faulted>>
    BY Zenon DEF Connect, Disconnect, Crash, vars, Duplicate, send_command_accepted, execute,
                 replay_journal_entry
  <1>2. Within(entries)' /\ Within(disk)' /\ (next_sequence <= 1 + Span(entries))'
    BY <1>1 DEF NumbersInv, Within, Span, Recorded, Reportable
  <1>3. up' \in BOOLEAN /\ linked' \in BOOLEAN
    BY Zenon DEF Connect, Disconnect, Crash, vars, Duplicate, send_command_accepted, execute,
                 replay_journal_entry, Abort, NumbersInv, TypeOK
  <1>4. \A c \in Commands : Evidence(c, entries[c]) \in [cmd : Commands, state : EntryStates, seq : Sequences]
    BY DEF Evidence, NumbersInv, TypeOK, Snapshots
  <1>5. sent' \subseteq [cmd : Commands, state : EntryStates, seq : Sequences]
    <2>1. \A e \in sent' : e \in sent \/ \E c \in Commands : e = Evidence(c, entries[c])
      BY DEF Connect, Disconnect, Crash, vars, Duplicate, send_command_accepted, execute,
             replay_journal_entry, replay_journal_entries, Reportable
    <2>2. sent \subseteq [cmd : Commands, state : EntryStates, seq : Sequences]
      BY DEF NumbersInv, TypeOK
    <2> QED BY <2>1, <2>2, <1>4
  <1>6. CASE \E c \in Commands : execute(c)
    <2>1. PICK c \in Commands : execute(c)
      BY <1>6
    <2>2. runs' \in [Commands -> 0..MaxRuns]
      <3>1. runs \in [Commands -> 0..MaxRuns] /\ runs[c] < MaxRuns
            /\ runs' = [runs EXCEPT ![c] = runs[c] + 1]
        BY <2>1 DEF execute, NumbersInv, TypeOK
      <3>2. runs[c] + 1 \in 0..MaxRuns
        BY <3>1
      <3> QED BY <3>1, <3>2
    <2>3. Effect[c] \in DomainStates /\ host' \in DomainStates
      <3>1. Effect[c] \in DomainStates /\ host \in DomainStates
        BY DEF NumbersInv, TypeOK
      <3>2. host' \in {host, Effect[c]}
        BY <2>1 DEF execute
      <3> QED BY <3>1, <3>2
    <2>4. handling' \in [cmd : Commands \cup {NoCommand},
                     step : {"Idle", "Accepted", "Announced", "Running",
                             "Executed", "Completed"}, result : Results]
      BY <2>1, <2>3 DEF execute, NumbersInv, TypeOK, Results
    <2> QED BY <1>1, <1>2, <1>3, <1>5, <2>2, <2>3, <2>4 DEF NumbersInv, TypeOK
  <1>7. CASE ~\E c \in Commands : execute(c)
    <2>1. UNCHANGED <<runs, host>>
      BY <1>7, Zenon DEF Connect, Disconnect, Crash, vars, Duplicate, send_command_accepted,
                         replay_journal_entry
    <2>2. \/ handling' \in {handling, Idle} \/ handling' = [handling EXCEPT !.step = "Announced"]
      BY <1>7 DEF Connect, Disconnect, Crash, vars, Duplicate, send_command_accepted,
                         replay_journal_entry, Abort
    <2>3. handling' \in [cmd : Commands \cup {NoCommand},
                     step : {"Idle", "Accepted", "Announced", "Running",
                             "Executed", "Completed"}, result : Results]
      BY <2>2 DEF Idle, NumbersInv, TypeOK, Results
    <2> QED BY <1>1, <1>2, <1>3, <1>5, <2>1, <2>3 DEF NumbersInv, TypeOK
  <1> QED BY <1>6, <1>7

\* The steps that write one entry.
LEMMA NumbersWrite ==
    ASSUME NumbersInv, JournalInv, NEW c \in Commands, NEW w \in Writes,
           accept(c, w) \/ mark_running(c, w) \/ complete(c, w)
    PROVE  NumbersInv'
  <1> DEFINE HandlingType == [cmd : Commands \cup {NoCommand},
                     step : {"Idle", "Accepted", "Announced", "Running",
                             "Executed", "Completed"}, result : Results]
  <1>0. UNCHANGED <<up, runs, host, sent>> /\ linked' \in BOOLEAN /\ faulted' \in BOOLEAN
    <2>1. UNCHANGED <<up, runs, host, sent>> /\ linked' \in BOOLEAN
      BY DEF accept, mark_running, complete, Abort, NumbersInv, TypeOK
    <2>2. faulted' \in BOOLEAN
      BY Zenon DEF accept, mark_running, complete, Persist, NumbersInv, TypeOK
    <2> QED BY <2>1, <2>2
  <1>1. /\ entries \in Snapshots /\ disk \in Snapshots /\ handling \in HandlingType
        /\ next_sequence \in Sequences \ {0} /\ next_sequence \in Nat
        /\ Within(entries) /\ Within(disk) /\ next_sequence <= 1 + Span(entries)
        /\ Cardinality(Commands) \in Nat
    BY FS_CardinalityType DEF NumbersInv, TypeOK, Sequences
  <1>2. entries[c] \in Entry
    BY <1>1 DEF Snapshots, Entry
  <1>3. ASSUME NEW r \in Entry, NEW j, j = [entries EXCEPT ![c] = r],
               Span(j) >= Span(entries), r.last <= Span(j)
        PROVE  j \in Snapshots /\ Within(j)
    <2>1. j \in Snapshots
      BY <1>1, <1>3 DEF Snapshots, Entry
    <2>2. \A d \in Commands : entries[d].last \in Nat /\ j[d].last = IF d = c THEN r.last ELSE entries[d].last
      BY <1>1, <1>3 DEF Snapshots, Sequences
    <2>3. \A d \in Commands : j[d].last <= Span(j)
      <3>1. Span(j) \in Nat /\ Span(entries) \in Nat
        BY SpanType
      <3>2. \A d \in Commands : entries[d].last <= Span(entries)
        BY <1>1 DEF Within
      <3> QED BY <1>3, <2>2, <3>1, <3>2
    <2> QED BY <2>1, <2>3 DEF Within
  <1>4. CASE accept(c, w)
    <2> DEFINE r == [state |-> "Accepted", accepted |-> next_sequence,
                     last |-> next_sequence, result |-> "None"]
               j == [entries EXCEPT ![c] = r]
    <2>1. r \in Entry
      BY <1>1 DEF Entry, Results
    <2>2. Span(j) = Span(entries) + 1
      <3>1. j[c].state = "Accepted" /\ entries[c].state = "Absent"
            /\ \A d \in Commands \ {c} : j[d].state = entries[d].state
        BY <1>1, <1>4 DEF accept, KnownCommand, Snapshots
      <3> QED BY <3>1, SpanAccepts
    <2>3. j \in Snapshots /\ Within(j)
      BY <1>1, <1>3, <2>1, <2>2, SpanType
    <2>4. next_sequence + 1 \in Sequences \ {0}
      BY <1>1, <2>2, SpanType DEF Sequences
    <2>5. /\ entries' \in {entries, j} /\ disk' \in {disk, j}
          /\ \/ entries' = entries /\ next_sequence' = next_sequence /\ handling' = handling
             \/ /\ entries' = j /\ next_sequence' = next_sequence + 1
                /\ handling' = [cmd |-> c, step |-> "Accepted", result |-> "None"]
      BY <1>4 DEF accept, Persist
    <2> HIDE DEF j
    <2>6. handling' \in HandlingType
      BY <1>1, <2>5 DEF Results
    <2>7. Within(entries)' /\ Within(disk)' /\ entries' \in Snapshots /\ disk' \in Snapshots
      BY <1>1, <2>3, <2>5 DEF Within
    <2>8. next_sequence' \in Sequences \ {0} /\ next_sequence' <= 1 + Span(entries')
      BY <1>1, <2>2, <2>4, <2>5, SpanType
    <2> QED BY <1>0, <2>6, <2>7, <2>8 DEF NumbersInv, TypeOK
  <1>5. CASE mark_running(c, w)
    <2> DEFINE r == [entries[c] EXCEPT !.state = "Running"]
               j == [entries EXCEPT ![c] = r]
    <2>1. r \in Entry /\ r.last = entries[c].last /\ r.state = "Running"
      BY <1>2 DEF Entry
    <2>2. Span(j) = Span(entries)
      <3>1. entries[c].state \in {"Accepted", "Running"}
        BY <1>5 DEF mark_running, At, JournalInv, InHand
      <3>2. \A d \in Commands : j[d] = IF d = c THEN r ELSE entries[d]
        BY <1>1 DEF Snapshots
      <3>3. Recorded(j) = Recorded(entries) /\ Reportable(j) = Reportable(entries)
        BY <2>1, <3>1, <3>2 DEF Recorded, Reportable
      <3> QED BY <3>3 DEF Span
    <2>3. j \in Snapshots /\ Within(j)
      <3>1. r.last <= Span(entries)
        BY <1>1, <2>1 DEF Within
      <3>2. j = [entries EXCEPT ![c] = r] /\ Span(j) \in Nat
        BY SpanType
      <3> HIDE DEF r, j
      <3>3. Span(j) >= Span(entries) /\ r.last <= Span(j)
        BY <2>2, <3>1, <3>2
      <3> QED BY <1>3, <2>1, <3>2, <3>3, Zenon
    <2>4. entries' = j /\ disk' \in {disk, j} /\ UNCHANGED next_sequence
          /\ handling' \in {Idle, [handling EXCEPT !.step = "Running"]}
      BY <1>5 DEF mark_running, Persist, Abort
    <2> HIDE DEF j
    <2>5. handling' \in HandlingType
      BY <1>1, <2>4 DEF Results, Idle
    <2>6. Within(entries)' /\ Within(disk)' /\ entries' \in Snapshots /\ disk' \in Snapshots
      BY <1>1, <2>3, <2>4 DEF Within
    <2> QED BY <1>0, <1>1, <2>2, <2>4, <2>5, <2>6 DEF NumbersInv, TypeOK
  <1>6. CASE complete(c, w)
    <2> DEFINE r == [entries[c] EXCEPT !.state = "Terminal", !.last = next_sequence,
                                       !.result = handling.result]
               j == [entries EXCEPT ![c] = r]
    <2>1. r \in Entry /\ r.last = next_sequence /\ r.state = "Terminal"
      BY <1>1, <1>2 DEF Entry
    <2>2. Span(j) = Span(entries) + 1
      <3>1. entries[c].state \in {"Accepted", "Running"}
        BY <1>6 DEF complete, At, JournalInv, InHand
      <3>2. \A d \in Commands : j[d] = IF d = c THEN r ELSE entries[d]
        BY <1>1 DEF Snapshots
      <3>3. j[c].state = "Terminal" /\ \A d \in Commands \ {c} : j[d].state = entries[d].state
        BY <2>1, <3>2
      <3> QED BY <3>1, <3>3, SpanCompletes
    <2>3. j \in Snapshots /\ Within(j)
      <3>1. j = [entries EXCEPT ![c] = r] /\ Span(j) \in Nat /\ Span(entries) \in Nat
        BY SpanType
      <3> HIDE DEF r, j
      <3>2. Span(j) >= Span(entries) /\ r.last <= Span(j)
        BY <1>1, <2>1, <2>2, <3>1
      <3> QED BY <1>3, <2>1, <3>1, <3>2, Zenon
    <2>4. next_sequence + 1 \in Sequences \ {0}
      BY <1>1, <2>2, SpanType DEF Sequences
    <2>5. entries' = j /\ disk' \in {disk, j} /\ next_sequence' \in {next_sequence, next_sequence + 1}
          /\ handling' \in {Idle, [handling EXCEPT !.step = "Completed"]}
      BY <1>6 DEF complete, Persist, Abort
    <2> HIDE DEF j
    <2>6. handling' \in HandlingType
      BY <1>1, <2>5 DEF Results, Idle
    <2>7. Within(entries)' /\ Within(disk)' /\ entries' \in Snapshots /\ disk' \in Snapshots
      BY <1>1, <2>3, <2>5 DEF Within
    <2>8. next_sequence' \in Sequences \ {0} /\ next_sequence' <= 1 + Span(entries')
      BY <1>1, <2>2, <2>4, <2>5, SpanType
    <2> QED BY <1>0, <2>6, <2>7, <2>8 DEF NumbersInv, TypeOK
  <1> QED BY <1>4, <1>5, <1>6

\* Recovery: the numbers it gives out are the next ones, as many as it needs.
LEMMA RecoverNumbers ==
    ASSUME NEW j \in Snapshots, Within(j), NEW seq,
           seq \in [InFlight(j) ->
                    NextAfter(j)..(NextAfter(j) + Cardinality(InFlight(j)) - 1)]
    PROVE  LET i == Recover(j, seq)
               n == NextAfter(j) + Cardinality(InFlight(j))
           IN  /\ i \in Snapshots
               /\ Within(i)
               /\ n \in Sequences \ {0}
               /\ n <= 1 + Span(i)
               /\ \A c \in Commands : i[c].last < n
  <1> DEFINE i == Recover(j, seq)
             m == Cardinality(InFlight(j))
             n == NextAfter(j) + m
  <1>1. m \in Nat /\ Span(j) \in Nat /\ Span(i) \in Nat /\ Span(i) + 1 \in Sequences
    BY SpanType
  <1>2. /\ NextAfter(j) \in Nat \ {0} /\ NextAfter(j) <= Span(j) + 1
        /\ \A c \in Commands : j[c].last < NextAfter(j)
    BY <1>1, LastOf DEF Within
  <1>3. \A c \in Commands : i[c] = IF c \in InFlight(j)
              THEN [j[c] EXCEPT !.state = "Unknown", !.result = "None", !.last = seq[c]]
              ELSE j[c]
    BY DEF Recover
  <1>4. \A c \in Commands : j[c] \in Entry
    BY DEF Snapshots, Entry
  <1>5. \A c \in InFlight(j) : i[c].state = "Unknown" /\ i[c].last = seq[c] /\ c \in Commands
    BY <1>3, <1>4 DEF InFlight, Entry
  <1>6. Span(i) = Span(j) + m
    <2>1. Recorded(i) = Recorded(j) /\ Reportable(i) = Reportable(j) \cup InFlight(j)
      BY <1>3, <1>5 DEF Recorded, Reportable, InFlight
    <2> QED BY <2>1, SpanRecovers
  <1>7. n \in Sequences \ {0} /\ n <= 1 + Span(i) /\ n \in Nat
    <2> HIDE DEF m, i
    <2>1. n \in Nat /\ n <= 1 + Span(i) /\ n # 0
      BY <1>1, <1>2, <1>6
    <2> HIDE DEF n
    <2>2. Cardinality(Commands) \in Nat
      BY FS_CardinalityType
    <2> QED BY <1>1, <2>1, <2>2 DEF Sequences
  <1>8. \A c \in Commands : i[c].last \in Sequences /\ i[c].last < n
    <2> SUFFICES ASSUME NEW c \in Commands PROVE i[c].last \in Sequences /\ i[c].last < n
      OBVIOUS
    <2>0. Cardinality(Commands) \in Nat
      BY FS_CardinalityType
    <2>1. CASE c \in InFlight(j)
      <3>1. i[c].last \in NextAfter(j)..(n - 1)
        <4> DEFINE T == NextAfter(j)..(n - 1)
        <4>1. seq[c] \in T
          <5>1. seq \in [InFlight(j) -> T]
            <6>1. NextAfter(j) + (Cardinality(InFlight(j)) - 1) = n - 1
              BY <1>1, <1>2
            <6> QED BY <6>1, Zenon
          <5> HIDE DEF T
          <5> QED BY <2>1, <5>1
        <4> HIDE DEF i, m, n
        <4> QED BY <1>5, <2>1, <4>1
      <3> HIDE DEF n, i
      <3> QED BY <1>2, <1>7, <2>0, <3>1 DEF Sequences
    <2>2. CASE c \notin InFlight(j)
      <3>1. i[c].last = j[c].last /\ j[c].last \in Sequences /\ j[c].last < NextAfter(j)
        BY <1>2, <1>3, <1>4, <2>2 DEF Entry
      <3> QED BY <1>1, <1>2, <2>0, <3>1 DEF Sequences
    <2> QED BY <2>1, <2>2
  <1>9. i \in Snapshots
    <2>1. \A c \in Commands : i[c] \in Entry
      <3> SUFFICES ASSUME NEW c \in Commands PROVE i[c] \in Entry
        OBVIOUS
      <3>1. CASE c \in InFlight(j)
        <4>1. seq[c] \in Sequences
          BY <1>5, <1>8, <3>1
        <4> QED BY <1>3, <1>4, <3>1, <4>1 DEF Entry, Results
      <3>2. CASE c \notin InFlight(j)
        BY <1>3, <1>4, <3>2
      <3> QED BY <3>1, <3>2
    <2> QED BY <2>1 DEF Snapshots, Entry, Recover
  <1>10. Within(i)
    <2>1. \A c \in Commands : i[c].last \in Nat
      <3>1. Cardinality(Commands) \in Nat
        BY FS_CardinalityType
      <3> QED BY <1>8, <3>1 DEF Sequences
    <2> HIDE DEF i, n
    <2> QED BY <1>1, <1>7, <1>8, <2>1 DEF Within
  <1> QED BY <1>7, <1>8, <1>9, <1>10

\* Opening the journal file keeps the numbering of its entries.
LEMMA NumbersOpen ==
    ASSUME NumbersInv, NEW w \in Writes, open(w)
    PROVE  NumbersInv'
  <1> DEFINE n == NextAfter(disk)
             m == Cardinality(InFlight(disk))
  <1>1. PICK seq \in Injection(InFlight(disk), n..(n + m - 1)) :
              LET j == Recover(disk, seq) IN
              /\ Persist(j, w)
              /\ up' = (w = "ok")
              /\ entries' = IF w = "ok" THEN j ELSE entries
              /\ next_sequence' = IF w = "ok" THEN n + m ELSE next_sequence
    BY DEF open
  <1> DEFINE j == Recover(disk, seq)
  <1>2. seq \in [InFlight(disk) -> n..(n + m - 1)]
    BY DEF Injection
  <1>3. j \in Snapshots /\ Within(j) /\ n + m \in Sequences \ {0} /\ n + m <= 1 + Span(j)
    BY <1>2, RecoverNumbers DEF NumbersInv, TypeOK
  <1>4. /\ disk' \in {disk, j}
        /\ \/ entries' = entries /\ next_sequence' = next_sequence
           \/ entries' = j /\ next_sequence' = n + m
    BY <1>1 DEF Persist
  <1>5. up' \in BOOLEAN /\ faulted' \in BOOLEAN /\ UNCHANGED <<linked, handling, runs, host, sent>>
    <2>1. UNCHANGED <<linked, handling, runs, host, sent>>
      BY DEF open
    <2>2. up' \in BOOLEAN /\ faulted' \in BOOLEAN
      BY <1>1, Zenon DEF Persist
    <2> QED BY <2>1, <2>2
  <1> HIDE DEF j, n, m
  <1>6. Within(entries)' /\ Within(disk)' /\ entries' \in Snapshots /\ disk' \in Snapshots
    BY <1>3, <1>4 DEF NumbersInv, TypeOK, Within
  <1>7. next_sequence' \in Sequences \ {0} /\ next_sequence' <= 1 + Span(entries')
    BY <1>3, <1>4 DEF NumbersInv, TypeOK
  <1> QED BY <1>5, <1>6, <1>7 DEF NumbersInv, TypeOK

\* It holds of an empty journal.
LEMMA NumbersInit == ASSUME Init PROVE NumbersInv
  <1>1. Cardinality(Commands) \in Nat
    BY FS_CardinalityType
  <1>2. Absent \in Entry /\ 1 \in Sequences
    BY <1>1 DEF Absent, Entry, Results, Sequences
  <1>3. entries \in Snapshots /\ disk \in Snapshots
    BY <1>2 DEF Init, Snapshots, Entry
  <1>4. \A c \in Commands : entries[c].last = 0 /\ disk[c].last = 0
    BY DEF Init, Absent
  <1>5. Within(entries) /\ Within(disk) /\ next_sequence <= 1 + Span(entries)
    BY <1>4, SpanType DEF Within, Init
  <1>6. handling \in [cmd : Commands \cup {NoCommand},
                     step : {"Idle", "Accepted", "Announced", "Running",
                             "Executed", "Completed"}, result : Results]
    BY DEF Init, Idle, Results
  <1>7. host \in DomainStates /\ sent = {} /\ runs \in [Commands -> 0..MaxRuns]
    BY DEF Init, DomainStates
  <1>8. up \in BOOLEAN /\ linked \in BOOLEAN /\ faulted \in BOOLEAN /\ next_sequence = 1
    BY DEF Init
  <1> QED BY <1>2, <1>3, <1>5, <1>6, <1>7, <1>8 DEF NumbersInv, TypeOK

\* Every step keeps the numbering.
LEMMA NumbersStep == ASSUME JournalInv, NumbersInv, [Next]_vars PROVE NumbersInv'
  BY NumbersOpen, NumbersWrite, NumbersOthers DEF Next

\* Every variable keeps its type; in particular the sequence counter of the
\* journal never needs more than two numbers per command, for any set of commands
\* and any pattern of failing writes, crashes and recoveries.
THEOREM JournalTypeCorrect == Spec => []TypeOK
  <1>1. Init => JournalInv /\ NumbersInv
    BY JournalInit, NumbersInit
  <1>2. (JournalInv /\ NumbersInv) /\ [Next]_vars => (JournalInv /\ NumbersInv)'
    BY JournalStep, NumbersStep
  <1>3. NumbersInv => TypeOK
    BY DEF NumbersInv
  <1> QED BY <1>1, <1>2, <1>3, PTL DEF Spec

-----------------------------------------------------------------------------
(***************************************************************************)
(* The startup restore.  The command in hand was accepted after all others  *)
(* that either snapshot knows, so that the disk says nothing about the host *)
(* from its acceptance until its completion is written.                     *)
(***************************************************************************)
NewestIn(j, d) ==
    /\ d \in Recorded(j)
    /\ \A b \in Recorded(j) \ {d} : j[b].accepted < j[d].accepted

\* Entries are stamped when they are accepted, before their last number, and the
\* disk knows the stamps of all that is in memory.
Ordered(j) == \A c \in Commands : j[c].accepted <= j[c].last

Stamped ==
    /\ Ordered(entries)
    /\ Ordered(disk)
    /\ up => \A c \in Recorded(entries) :
                /\ entries[c].accepted < next_sequence
                /\ disk[c].accepted = entries[c].accepted

\* The command in hand is the newest, on disk too, where it is still unfinished.
Newest ==
    handling.step \notin {"Idle", "Completed"} =>
        LET d == handling.cmd IN
        /\ NewestIn(entries, d)
        /\ Recorded(disk) \subseteq Recorded(entries)
        /\ disk[d].state \in {"Accepted", "Running"}
        /\ handling.step = "Executed" /\ handling.result \in DomainStates =>
              host = handling.result

RestoreInv == Stamped /\ Newest /\ RestoreIsSound

\* Only the newest entry counts for the restore.
LEMMA LatestOnly ==
    ASSUME NEW j \in Snapshots, NEW d, NewestIn(j, d), NEW s \in last_lifecycle_resource_states(j)
    PROVE  j[d].state = "Terminal" /\ s = j[d].result
  <1>1. \A c \in Commands : j[c].accepted \in Nat
    <2>1. Cardinality(Commands) \in Nat
      BY FS_CardinalityType
    <2> QED BY <2>1 DEF Snapshots, Sequences
  <1>2. PICK c \in Recorded(j) : /\ \A b \in Recorded(j) : j[b].accepted <= j[c].accepted
                                 /\ j[c].state = "Terminal" /\ s = j[c].result
    BY DEF last_lifecycle_resource_states
  <1>3. c = d
    BY <1>1, <1>2 DEF NewestIn, Recorded
  <1> QED BY <1>2, <1>3

\* What the proofs below use of the types.
LEMMA Typed ==
    ASSUME NumbersInv
    PROVE  /\ entries \in Snapshots /\ disk \in Snapshots /\ next_sequence \in Nat
           /\ \A c \in Commands : /\ entries[c] \in Entry /\ disk[c] \in Entry
                                  /\ entries[c].accepted \in Nat /\ entries[c].last \in Nat
                                  /\ disk[c].accepted \in Nat /\ disk[c].last \in Nat
  <1>1. Cardinality(Commands) \in Nat
    BY FS_CardinalityType
  <1>2. entries \in Snapshots /\ disk \in Snapshots /\ next_sequence \in Sequences
    BY DEF NumbersInv, TypeOK
  <1> QED BY <1>1, <1>2 DEF Snapshots, Entry, Sequences

\* Recovery keeps the stamps and what is terminal.
LEMMA RestoreOpen ==
    ASSUME JournalInv, NumbersInv, RestoreInv, NEW w \in Writes, open(w)
    PROVE  RestoreInv'
  <1> DEFINE n == NextAfter(disk)
             m == Cardinality(InFlight(disk))
  <1>1. PICK seq \in Injection(InFlight(disk), n..(n + m - 1)) :
              LET j == Recover(disk, seq) IN
              /\ Persist(j, w)
              /\ up' = (w = "ok")
              /\ entries' = IF w = "ok" THEN j ELSE entries
              /\ next_sequence' = IF w = "ok" THEN n + m ELSE next_sequence
    BY DEF open
  <1> DEFINE j == Recover(disk, seq)
  <1>2. seq \in [InFlight(disk) -> n..(n + m - 1)]
    BY DEF Injection
  <1>3. j \in Snapshots /\ \A c \in Commands : j[c].last < n + m
    BY <1>2, RecoverNumbers DEF NumbersInv, TypeOK
  <1>4. \A c \in Commands : /\ j[c].accepted = disk[c].accepted
                            /\ c \in InFlight(disk) => j[c].last = seq[c] /\ j[c].state = "Unknown"
                            /\ c \notin InFlight(disk) => j[c] = disk[c]
    BY Typed DEF Recover, Entry
  <1>5. m \in Nat /\ n \in Nat /\ \A c \in Commands : disk[c].last < n
    BY SpanType, LastOf, Typed
  <1>6. \A c \in InFlight(disk) : seq[c] >= n
    <2>1. \A c \in InFlight(disk) : seq[c] \in n..(n + m - 1)
      BY <1>2
    <2> HIDE DEF m, n
    <2> QED BY <1>5, <2>1
  <1>7. Ordered(j)
    <2> HIDE DEF j, m, n
    <2>1. \A c \in Commands : /\ j[c].accepted = disk[c].accepted
                              /\ j[c].last >= disk[c].last
                              /\ j[c].last \in Nat
      <3>1. \A c \in Commands : j[c].last \in Nat
        <4>1. Cardinality(Commands) \in Nat
          BY FS_CardinalityType
        <4> QED BY <1>3, <4>1 DEF Snapshots, Sequences
      <3> QED BY <1>4, <1>5, <1>6, <3>1, Typed
    <2>2. \A c \in Commands : disk[c].accepted <= disk[c].last
      BY DEF RestoreInv, Stamped, Ordered
    <2> QED BY <2>1, <2>2, Typed DEF Ordered
  <1>8. last_lifecycle_resource_states(j) \subseteq last_lifecycle_resource_states(disk)
    <2>1. Recorded(j) = Recorded(disk)
      BY <1>4 DEF Recorded, InFlight
    <2>2. \A c \in Commands : j[c].state = "Terminal" =>
                 disk[c].state = "Terminal" /\ j[c].result = disk[c].result
      BY <1>4
    <2> HIDE DEF j
    <2> QED BY <1>4, <2>1, <2>2 DEF last_lifecycle_resource_states, Recorded
  <1>9. UNCHANGED <<handling, host>> /\ handling.step = "Idle" /\ disk' \in {disk, j}
    BY <1>1 DEF open, Persist, JournalInv, Shape
  <1>10. RestoreIsSound'
    BY <1>8, <1>9 DEF RestoreInv, RestoreIsSound
  <1>11. Newest'
    BY <1>9 DEF Newest
  <1>12. Stamped'
    <2>1. CASE w = "ok"
      <3>1. entries' = j /\ disk' = j /\ next_sequence' = n + m
        BY <1>1, <2>1 DEF Persist
      <3>2. \A c \in Commands : j[c].accepted < n + m
        <4>1. \A c \in Commands : j[c].accepted \in Nat /\ j[c].last \in Nat
          <5>1. Cardinality(Commands) \in Nat
            BY FS_CardinalityType
          <5> QED BY <1>3, <5>1 DEF Snapshots, Sequences
        <4> HIDE DEF j, m, n
        <4> QED BY <1>3, <1>5, <1>7, <4>1 DEF Ordered
      <3> HIDE DEF j, m, n
      <3> QED BY <1>7, <3>1, <3>2 DEF Stamped, Ordered, Recorded
    <2>2. CASE w # "ok"
      <3>1. up' = FALSE /\ entries' = entries
        BY <1>1, <2>2
      <3> HIDE DEF j
      <3> QED BY <1>7, <1>9, <3>1 DEF Stamped, Ordered, RestoreInv
    <2> QED BY <2>1, <2>2
  <1> QED BY <1>10, <1>11, <1>12 DEF RestoreInv

\* The steps that write no snapshot; execution finds the disk silent.
LEMMA RestoreOthers ==
    ASSUME JournalInv, NumbersInv, RestoreInv,
           \/ Connect \/ Disconnect \/ Crash \/ UNCHANGED vars
           \/ \E c \in Commands : \/ Duplicate(c) \/ send_command_accepted(c) \/ execute(c)
                                  \/ replay_journal_entry(c)
    PROVE  RestoreInv'
  <1>1. UNCHANGED <<entries, disk, next_sequence>> /\ (up' => up)
    <2>1. UNCHANGED <<entries, disk, next_sequence>> /\ (up' = up \/ up' = FALSE)
      BY Zenon DEF Connect, Disconnect, Crash, vars, Duplicate, send_command_accepted, execute,
                   replay_journal_entry
    <2> QED BY <2>1
  <1>2. Stamped'
    BY <1>1 DEF RestoreInv, Stamped, Ordered, Recorded
  <1>3. CASE \E c \in Commands : execute(c)
    <2>1. PICK c \in Commands : execute(c)
      BY <1>3
    <2>2. handling.cmd = c /\ handling.step = "Running" /\ up
      BY <2>1 DEF execute, At, JournalInv, Shape
    <2>3. NewestIn(disk, c) /\ disk[c].state \in {"Accepted", "Running"}
      BY <2>2, Typed DEF RestoreInv, Newest, NewestIn, Stamped, Recorded
    <2>4. RestoreIsSound'
      BY <1>1, <2>3, LatestOnly, Typed DEF RestoreIsSound
    <2>5. handling'.cmd = c /\ handling'.step = "Executed"
          /\ (handling'.result \in DomainStates => host' = handling'.result)
      <3>1. handling \in [cmd : Commands \cup {NoCommand}, step : Steps, result : Results]
        BY DEF JournalInv, Shape
      <3>2. "Error" \notin DomainStates
        BY DEF DomainStates
      <3> QED BY <2>1, <2>2, <3>1, <3>2 DEF execute
    <2>6. Newest'
      BY <1>1, <2>2, <2>5 DEF RestoreInv, Newest, NewestIn, Recorded
    <2> QED BY <1>2, <2>4, <2>6 DEF RestoreInv
  <1>4. CASE ~\E c \in Commands : execute(c)
    <2>1. UNCHANGED host
      BY <1>4, Zenon DEF Connect, Disconnect, Crash, vars, Duplicate, send_command_accepted,
                         replay_journal_entry
    <2>2. \/ handling' \in {handling, Idle}
          \/ handling.step = "Accepted" /\ handling' = [handling EXCEPT !.step = "Announced"]
      BY <1>4 DEF Connect, Disconnect, Crash, vars, Duplicate, send_command_accepted,
                         replay_journal_entry, Abort, At
    <2>3. Newest'
      <3>1. CASE handling' = handling
        BY <1>1, <2>1, <3>1 DEF RestoreInv, Newest, NewestIn, Recorded
      <3>2. CASE handling' = Idle
        BY <3>2 DEF Idle, Newest
      <3>3. CASE handling.step = "Accepted" /\ handling' = [handling EXCEPT !.step = "Announced"]
        <4>1. handling'.step = "Announced" /\ handling'.cmd = handling.cmd
          BY <3>3 DEF JournalInv, Shape
        <4> QED BY <1>1, <2>1, <3>3, <4>1 DEF RestoreInv, Newest, NewestIn, Recorded
      <3> QED BY <2>2, <3>1, <3>2, <3>3
    <2>4. RestoreIsSound'
      BY <1>1, <2>1 DEF RestoreInv, RestoreIsSound
    <2> QED BY <1>2, <2>3, <2>4 DEF RestoreInv
  <1> QED BY <1>3, <1>4

\* A snapshot that rewrites the entry of the newest command knows all other stamps.
LEMMA NewestWritten ==
    ASSUME NumbersInv, Stamped, NEW c \in Commands, NEW r \in Entry, r.state # "Absent",
           r.accepted <= r.last, NEW j, j[c] = r,
           \A b \in Commands \ {c} : j[b] = entries[b],
           \A b \in Recorded(entries) \ {c} : entries[b].accepted < r.accepted
    PROVE  /\ NewestIn(j, c) /\ Ordered(j)
           /\ Recorded(j) = Recorded(entries) \cup {c}
  <1>1. Recorded(j) = Recorded(entries) \cup {c}
    BY DEF Recorded
  <1> QED BY <1>1 DEF Ordered, NewestIn, Recorded, Stamped

\* A journal write keeps what a restored journal means, however it fails.
LEMMA RestoreWrite ==
    ASSUME JournalInv, NumbersInv, NumbersInv', RestoreInv, NEW c \in Commands, NEW w \in Writes,
           accept(c, w) \/ mark_running(c, w) \/ complete(c, w)
    PROVE  RestoreInv'
  <1>0. UNCHANGED host /\ up /\ up'
    BY DEF accept, mark_running, complete, At, JournalInv, Shape
  <1>1. CASE accept(c, w)
    <2> DEFINE r == [state |-> "Accepted", accepted |-> next_sequence,
                     last |-> next_sequence, result |-> "None"]
               j == [entries EXCEPT ![c] = r]
    <2>1. r \in Entry /\ r.state = "Accepted" /\ r.accepted = next_sequence /\ r.last = next_sequence
      BY DEF Entry, Results, NumbersInv, TypeOK
    <2>2. c \notin Recorded(entries)
      BY <1>1 DEF accept, KnownCommand, Recorded
    <2>3. /\ disk' \in {disk, j} /\ handling.step = "Idle"
          /\ \/ entries' = entries /\ next_sequence' = next_sequence /\ handling' = handling
             \/ /\ entries' = j /\ next_sequence' = next_sequence + 1 /\ disk' = j
                /\ handling'.cmd = c /\ handling'.step = "Accepted"
      <3>1. handling = Idle /\ disk' = IF w = "lost" THEN disk ELSE j
        BY <1>1 DEF accept, Persist
      <3>2. IF w = "ok"
            THEN /\ entries' = j
                 /\ next_sequence' = next_sequence + 1
                 /\ handling' = [cmd |-> c, step |-> "Accepted", result |-> "None"]
            ELSE UNCHANGED <<entries, next_sequence, handling>>
        BY <1>1 DEF accept
      <3> HIDE DEF j
      <3> QED BY <3>1, <3>2 DEF Idle
    <2>4. /\ j[c] = r /\ (\A b \in Commands \ {c} : j[b] = entries[b])
          /\ r.accepted <= r.last /\ r.state # "Absent"
      BY <2>1, Typed DEF Snapshots
    <2>5. \A b \in Recorded(entries) : entries[b].accepted < next_sequence /\ disk[b].accepted = entries[b].accepted
      BY <1>0 DEF RestoreInv, Stamped
    <2> HIDE DEF r, j
    <2>6. /\ NewestIn(j, c) /\ Ordered(j) /\ j[c] = r
          /\ \A b \in Commands \ {c} : j[b] = entries[b]
          /\ Recorded(j) = Recorded(entries) \cup {c}
      <3>1. \A b \in Recorded(entries) \ {c} : entries[b].accepted < r.accepted
        BY <2>1, <2>5
      <3> QED BY <2>1, <2>4, <3>1, NewestWritten DEF RestoreInv
    <2>7. Stamped'
      <3>1. Ordered(entries') /\ Ordered(disk')
        BY <2>3, <2>6 DEF RestoreInv, Stamped
      <3>2. \A b \in Recorded(entries) : disk'[b].accepted = entries[b].accepted /\ b \in Commands \ {c}
        BY <2>2, <2>3, <2>5, <2>6 DEF Recorded
      <3>3. CASE entries' = entries /\ next_sequence' = next_sequence
        BY <2>5, <3>1, <3>2, <3>3 DEF Stamped, Ordered, Recorded
      <3>4. CASE entries' = j /\ next_sequence' = next_sequence + 1 /\ disk' = j
        <4>1. \A b \in Recorded(j) : j[b].accepted < next_sequence + 1
          <5>1. \A b \in Recorded(j) : b = c \/ (b \in Recorded(entries) /\ j[b] = entries[b] /\ b \in Commands)
            BY <2>6 DEF Recorded
          <5> QED BY <2>1, <2>5, <2>6, <5>1, Typed
        <4> QED BY <3>1, <3>4, <4>1 DEF Stamped, Ordered, Recorded
      <3> QED BY <2>3, <3>3, <3>4
    <2>8. Newest'
      BY <2>1, <2>3, <2>6 DEF Newest, NewestIn, Recorded
    <2>9. RestoreIsSound'
      <3>1. CASE disk' = disk
        BY <1>0, <3>1 DEF RestoreInv, RestoreIsSound
      <3>2. CASE disk' = j
        <4>1. j \in Snapshots
          BY <3>2 DEF NumbersInv, TypeOK
        <4> QED BY <2>1, <2>6, <3>2, <4>1, LatestOnly DEF RestoreIsSound
      <3> QED BY <2>3, <3>1, <3>2
    <2> QED BY <2>7, <2>8, <2>9 DEF RestoreInv
  <1>2. CASE mark_running(c, w) \/ complete(c, w)
    <2>1. /\ handling.cmd = c /\ handling.step \notin {"Idle", "Completed"}
          /\ entries[c].state \in {"Accepted", "Running"} /\ entries[c] \in Entry
      BY <1>2, Typed DEF mark_running, complete, At, JournalInv, InHand
    <2>2. NewestIn(entries, c) /\ Recorded(disk) \subseteq Recorded(entries)
          /\ disk[c].state \in {"Accepted", "Running"}
      BY <2>1 DEF RestoreInv, Newest
    <2>3. \A b \in Recorded(entries) : entries[b].accepted < next_sequence /\ disk[b].accepted = entries[b].accepted
      BY <1>0 DEF RestoreInv, Stamped
    <2>4. PICK r \in Entry :
            /\ entries' = [entries EXCEPT ![c] = r] /\ disk' \in {disk, entries'}
            /\ r.accepted = entries[c].accepted /\ r.accepted <= r.last
            /\ \/ /\ r.state = "Running" /\ next_sequence' = next_sequence
                  /\ handling' \in {Idle, [handling EXCEPT !.step = "Running"]}
               \/ /\ r.state = "Terminal" /\ r.result = handling.result
                  /\ handling.step = "Executed"
                  /\ next_sequence' \in {next_sequence, next_sequence + 1}
                  /\ handling' \in {Idle, [handling EXCEPT !.step = "Completed"]}
      <3>1. CASE mark_running(c, w)
        <4> DEFINE r == [entries[c] EXCEPT !.state = "Running"]
        <4>1. /\ r \in Entry /\ r.state = "Running" /\ r.accepted = entries[c].accepted
              /\ r.last = entries[c].last
          BY <2>1 DEF Entry
        <4>2. r.accepted <= r.last
          BY <4>1 DEF RestoreInv, Stamped, Ordered
        <4>3. entries' = [entries EXCEPT ![c] = r] /\ disk' \in {disk, entries'}
              /\ next_sequence' = next_sequence
              /\ handling' \in {Idle, [handling EXCEPT !.step = "Running"]}
          BY <3>1 DEF mark_running, Persist, Abort
        <4> HIDE DEF r
        <4> QED BY <4>1, <4>2, <4>3
      <3>2. CASE complete(c, w)
        <4> DEFINE r == [entries[c] EXCEPT !.state = "Terminal", !.last = next_sequence,
                                           !.result = handling.result]
        <4>1. /\ r \in Entry /\ r.state = "Terminal" /\ r.accepted = entries[c].accepted
              /\ r.last = next_sequence /\ r.result = handling.result
          BY <2>1 DEF Entry, NumbersInv, TypeOK
        <4>2. r.accepted <= r.last
          <5>1. entries[c].accepted < next_sequence
            BY <2>2, <2>3 DEF NewestIn
          <5> QED BY <4>1, <5>1, Typed
        <4>3. entries' = [entries EXCEPT ![c] = r] /\ disk' \in {disk, entries'}
              /\ next_sequence' \in {next_sequence, next_sequence + 1}
              /\ handling' \in {Idle, [handling EXCEPT !.step = "Completed"]}
              /\ handling.step = "Executed"
          BY <3>2 DEF complete, Persist, Abort, At
        <4> HIDE DEF r
        <4> QED BY <4>1, <4>2, <4>3
      <3> QED BY <1>2, <3>1, <3>2
    <2>5. /\ NewestIn(entries', c) /\ Ordered(entries') /\ entries'[c] = r
          /\ \A b \in Commands \ {c} : entries'[b] = entries[b]
          /\ Recorded(entries') = Recorded(entries) \cup {c}
      <3>1. \A b \in Recorded(entries) \ {c} : entries[b].accepted < r.accepted
        BY <2>2, <2>4 DEF NewestIn
      <3>2. r.state # "Absent"
        BY <2>4
      <3>3. entries'[c] = r /\ \A b \in Commands \ {c} : entries'[b] = entries[b]
        BY <2>4, Typed DEF Snapshots
      <3>4. Stamped /\ r \in Entry /\ r.accepted <= r.last
        BY <2>4 DEF RestoreInv
      <3>5. NewestIn(entries', c) /\ Ordered(entries') /\ Recorded(entries') = Recorded(entries) \cup {c}
        BY <3>1, <3>2, <3>3, <3>4, NewestWritten, Zenon
      <3> QED BY <3>3, <3>5
    <2>6. c \in Recorded(entries) /\ Recorded(entries') = Recorded(entries)
      BY <2>2, <2>5 DEF NewestIn
    <2>7. Stamped'
      <3>1. Ordered(disk')
        BY <2>4, <2>5 DEF RestoreInv, Stamped
      <3>2. \A b \in Recorded(entries') :
               entries'[b].accepted = entries[b].accepted /\ disk'[b].accepted = entries[b].accepted
        BY <2>3, <2>4, <2>5, <2>6 DEF Recorded
      <3>3. \A b \in Recorded(entries') : entries'[b].accepted < next_sequence'
        BY <2>3, <2>4, <2>6, <3>2, Typed DEF Recorded
      <3> QED BY <2>5, <3>1, <3>2, <3>3 DEF Stamped, Ordered, Recorded
    <2>8. Newest'
      <3>1. \/ handling'.step \in {"Idle", "Completed"}
            \/ handling'.step = "Running" /\ handling'.cmd = c /\ r.state = "Running"
        BY <2>1, <2>4 DEF Idle, JournalInv, Shape
      <3> QED BY <2>2, <2>4, <2>5, <2>6, <3>1 DEF Newest, NewestIn, Recorded
    <2>9. RestoreIsSound'
      <3>1. CASE disk' = disk
        BY <1>0, <3>1 DEF RestoreInv, RestoreIsSound
      <3>2. CASE disk' = entries'
        <4>1. disk' \in Snapshots /\ NewestIn(disk', c) /\ disk'[c] = r
          BY <2>5, <3>2 DEF NumbersInv, TypeOK
        <4>2. \A s \in last_lifecycle_resource_states(disk') : r.state = "Terminal" /\ s = r.result
          BY <4>1, LatestOnly
        <4>3. r.state = "Terminal" /\ r.result \in DomainStates => r.result = host
          BY <2>1, <2>4 DEF RestoreInv, Newest
        <4> QED BY <1>0, <4>2, <4>3 DEF RestoreIsSound
      <3> QED BY <2>4, <3>1, <3>2
    <2> QED BY <2>7, <2>8, <2>9 DEF RestoreInv
  <1> QED BY <1>1, <1>2

\* The agent's startup restore (last_lifecycle_resource_states of the journal it
\* opens) never claims a state the last mutation did not leave the domain in: for
\* any commands and any pattern of crashes and failing writes.
THEOREM RestoreSound == Spec => []RestoreIsSound
  <1> DEFINE Inv == JournalInv /\ NumbersInv /\ RestoreInv
  <1>1. Init => Inv
    <2> SUFFICES ASSUME Init PROVE RestoreInv
      BY JournalInit, NumbersInit
    <2>1. \A c \in Commands : entries[c] = Absent /\ disk[c] = Absent
      BY DEF Init
    <2>2. Stamped
      BY <2>1 DEF Init, Stamped, Ordered, Absent, Recorded
    <2>3. Newest
      BY DEF Init, Idle, Newest
    <2>4. RestoreIsSound
      BY <2>1 DEF RestoreIsSound, last_lifecycle_resource_states, Recorded, Absent
    <2> QED BY <2>2, <2>3, <2>4 DEF RestoreInv
  <1>2. Inv /\ [Next]_vars => Inv'
    <2> SUFFICES ASSUME Inv, [Next]_vars PROVE Inv'
      OBVIOUS
    <2>1. JournalInv' /\ NumbersInv'
      BY JournalStep, NumbersStep
    <2>2. RestoreInv'
      BY <2>1, RestoreOpen, RestoreOthers, RestoreWrite DEF Next
    <2> QED BY <2>1, <2>2
  <1>3. Inv => RestoreIsSound
    BY DEF RestoreInv
  <1> QED BY <1>1, <1>2, <1>3, PTL DEF Spec

-----------------------------------------------------------------------------
(***************************************************************************)
(* Sequence numbers.  While no write has failed, memory and disk agree, no  *)
(* two journaled commands share a number, and what was sent of a command is *)
(* its acceptance or its outcome, each under a number of its own.           *)
(***************************************************************************)
Apart(j) ==
    /\ \A c \in Recorded(j) : /\ c \in InFlight(j) => j[c].last = j[c].accepted
                              /\ c \in Reportable(j) => j[c].last > j[c].accepted
    /\ \A c, d \in Recorded(j) : c # d => /\ j[c].accepted # j[d].accepted
                                          /\ j[c].accepted # j[d].last
                                          /\ j[c].last # j[d].last

Outcome(e, j) ==
    /\ e.cmd \in Recorded(j)
    /\ \/ e.state = "Accepted" /\ e.seq = j[e.cmd].accepted
       \/ e.state \in {"Terminal", "Unknown"} /\ e.state = j[e.cmd].state /\ e.seq = j[e.cmd].last

InStep ==
    /\ up => entries = disk /\ \A c \in Recorded(disk) : disk[c].last < next_sequence
    /\ Apart(disk)
    /\ \A e \in sent : Outcome(e, disk)

EvidenceInv ==
    /\ handling.step = "Accepted" => entries[handling.cmd].state = "Accepted"
    /\ faulted = FALSE => InStep

\* Numbers that are fresh stay apart from the old ones.
LEMMA EvidenceOpen ==
    ASSUME JournalInv, NumbersInv, EvidenceInv, NEW w \in Writes, open(w)
    PROVE  EvidenceInv'
  <1> DEFINE n == NextAfter(disk)
             m == Cardinality(InFlight(disk))
  <1>1. PICK seq \in Injection(InFlight(disk), n..(n + m - 1)) :
              LET j == Recover(disk, seq) IN
              /\ Persist(j, w)
              /\ up' = (w = "ok")
              /\ entries' = IF w = "ok" THEN j ELSE entries
              /\ next_sequence' = IF w = "ok" THEN n + m ELSE next_sequence
    BY DEF open
  <1> DEFINE j == Recover(disk, seq)
  <1>2. UNCHANGED <<handling, sent>> /\ handling.step = "Idle"
    BY DEF open, JournalInv, Shape
  <1> SUFFICES ASSUME faulted' = FALSE PROVE InStep'
    BY <1>2 DEF EvidenceInv
  <1>3. w = "ok" /\ faulted = FALSE
    <2>1. faulted' = (faulted \/ w # "ok") /\ faulted \in BOOLEAN
      BY <1>1, Zenon DEF Persist, NumbersInv, TypeOK
    <2> QED BY <2>1
  <1>4. entries' = j /\ disk' = j /\ next_sequence' = n + m
    BY <1>1, <1>3 DEF Persist
  <1>5. seq \in [InFlight(disk) -> n..(n + m - 1)]
        /\ \A c, d \in InFlight(disk) : seq[c] = seq[d] => c = d
    BY DEF Injection, IsInjective
  <1>6. j \in Snapshots /\ \A c \in Commands : j[c].last < n + m
    BY <1>5, RecoverNumbers DEF NumbersInv, TypeOK
  <1>7. \A c \in Commands : /\ j[c].accepted = disk[c].accepted
                            /\ c \in InFlight(disk) => j[c].last = seq[c] /\ j[c].state = "Unknown"
                            /\ c \notin InFlight(disk) => j[c] = disk[c]
    BY Typed DEF Recover, Entry
  <1>8. m \in Nat /\ n \in Nat /\ \A c \in Commands : disk[c].last < n
    BY SpanType, LastOf, Typed
  <1>9. \A c \in InFlight(disk) : seq[c] >= n /\ seq[c] \in Nat
    <2>1. \A c \in InFlight(disk) : seq[c] \in n..(n + m - 1)
      BY <1>5
    <2> HIDE DEF m, n
    <2> QED BY <1>8, <2>1
  <1>10. InStep
    BY <1>3 DEF EvidenceInv
  <1>11. Recorded(j) = Recorded(disk) /\ Reportable(j) = Recorded(disk) /\ InFlight(j) = {}
    <2>1. \A c \in Commands : disk[c].state \in EntryStates
      BY Typed DEF Entry
    <2> QED BY <1>7, <2>1 DEF Recorded, Reportable, InFlight
  <1> HIDE DEF j, m, n
  <1>12. \A c \in Recorded(disk) : /\ c \in Commands /\ disk[c].accepted \in Nat /\ disk[c].last \in Nat
                                   /\ disk[c].accepted <= disk[c].last
                                   /\ c \in InFlight(disk) \/ c \in Reportable(disk)
    <2>1. \A c \in Commands : disk[c].state \in EntryStates
      BY Typed DEF Entry
    <2> QED BY <1>10, <2>1, Typed DEF InStep, Apart, Recorded, InFlight, Reportable
  <1>13. Apart(j)
    <2>1. \A c \in Recorded(disk) : j[c].last > j[c].accepted
      <3> SUFFICES ASSUME NEW c \in Recorded(disk) PROVE j[c].last > j[c].accepted
        OBVIOUS
      <3>1. CASE c \in InFlight(disk)
        BY <1>7, <1>8, <1>9, <1>12, <3>1
      <3>2. CASE c \notin InFlight(disk)
        BY <1>7, <1>10, <1>12, <3>2 DEF InStep, Apart
      <3> QED BY <3>1, <3>2
    <2>2. ASSUME NEW c \in Recorded(disk), NEW d \in Recorded(disk), c # d
          PROVE  /\ j[c].accepted # j[d].accepted
                 /\ j[c].accepted # j[d].last
                 /\ j[c].last # j[d].last
      <3>1. /\ disk[c].accepted # disk[d].accepted /\ disk[c].accepted # disk[d].last
            /\ disk[c].last # disk[d].last
        BY <1>10, <2>2 DEF InStep, Apart
      <3>2. j[c].accepted = disk[c].accepted /\ j[d].accepted = disk[d].accepted
            /\ disk[c].accepted < n /\ disk[d].accepted < n
        BY <1>7, <1>8, <1>12
      <3>3. j[d].last = disk[d].last \/ j[d].last >= n
        BY <1>7, <1>9, <1>12
      <3>4. j[c].last # j[d].last
        BY <1>5, <1>7, <1>8, <1>9, <1>12, <2>2, <3>1
      <3> QED BY <1>8, <1>12, <3>1, <3>2, <3>3, <3>4
    <2> QED BY <1>11, <2>1, <2>2 DEF Apart
  <1>14. \A e \in sent : Outcome(e, j)
    <2>1. \A e \in sent : Outcome(e, disk)
      BY <1>10 DEF InStep
    <2> QED BY <1>7, <1>11, <2>1 DEF Outcome, Recorded, InFlight
  <1> QED BY <1>2, <1>4, <1>6, <1>13, <1>14 DEF InStep, Recorded

\* Evidence is taken from the journal as it is.
LEMMA EvidenceOthers ==
    ASSUME JournalInv, NumbersInv, EvidenceInv,
           \/ Connect \/ Disconnect \/ Crash \/ UNCHANGED vars
           \/ \E c \in Commands : \/ Duplicate(c) \/ send_command_accepted(c) \/ execute(c)
                                  \/ replay_journal_entry(c)
    PROVE  EvidenceInv'
  <1>1. UNCHANGED <<entries, disk, next_sequence, faulted>> /\ (up' = up \/ up' = FALSE)
    BY Zenon DEF Connect, Disconnect, Crash, vars, Duplicate, send_command_accepted, execute,
                 replay_journal_entry
  <1>2. handling'.step = "Accepted" => handling' = handling
    <2>1. \/ handling' \in {handling, Idle}
          \/ handling' = [handling EXCEPT !.step = "Announced"]
          \/ \E x \in Results : handling' = [handling EXCEPT !.step = "Executed", !.result = x]
      <3>1. "Error" \in Results /\ \A c \in Commands : Effect[c] \in Results
        BY DEF Results
      <3> QED BY <3>1 DEF Connect, Disconnect, Crash, vars, Duplicate, send_command_accepted,
                         replay_journal_entry, execute, Abort
    <2>2. handling \in [cmd : Commands \cup {NoCommand}, step : Steps, result : Results]
      BY DEF JournalInv, Shape
    <2>3. Idle.step = "Idle"
      BY DEF Idle
    <2> QED BY <2>1, <2>2, <2>3
  <1> DEFINE Current(e) ==
        /\ up
        /\ \E c \in Commands : /\ e = Evidence(c, entries[c])
                               /\ entries[c].state \in {"Accepted", "Terminal", "Unknown"}
  <1>3. \A e \in sent' \ sent : Current(e)
    <2>1. CASE Connect \/ \E c \in Commands : Duplicate(c)
      BY <2>1 DEF Connect, Duplicate, replay_journal_entries, Reportable, JournalInv, Shape
    <2>2. ASSUME NEW c \in Commands, send_command_accepted(c) \/ replay_journal_entry(c)
          PROVE  \A e \in sent' \ sent : Current(e)
      <3>1. entries[c].state \in {"Accepted", "Terminal"} /\ up
        BY <2>2 DEF send_command_accepted, replay_journal_entry, At, EvidenceInv, JournalInv, InHand, Shape
      <3> QED BY <2>2, <3>1 DEF send_command_accepted, replay_journal_entry
    <2>3. CASE Disconnect \/ Crash \/ UNCHANGED vars \/ \E c \in Commands : execute(c)
      BY <2>3 DEF Disconnect, Crash, vars, execute
    <2> QED BY <2>1, <2>2, <2>3
  <1>4. faulted' = FALSE => InStep'
    <2> SUFFICES ASSUME faulted = FALSE PROVE InStep'
      BY <1>1
    <2>1. InStep
      BY DEF EvidenceInv
    <2>2. ASSUME NEW e \in sent' PROVE Outcome(e, disk)
      <3>1. CASE e \in sent
        BY <2>1, <3>1 DEF InStep
      <3>2. CASE e \notin sent
        <4>1. PICK c \in Commands : /\ e = Evidence(c, entries[c]) /\ up
                                    /\ entries[c].state \in {"Accepted", "Terminal", "Unknown"}
          BY <1>3, <3>2
        <4>2. disk[c] = entries[c] /\ c \in Recorded(disk)
          BY <2>1, <4>1 DEF InStep, Recorded
        <4>3. entries[c].state = "Accepted" => disk[c].last = disk[c].accepted
          BY <2>1, <4>2 DEF InStep, Apart, InFlight, Recorded
        <4> QED BY <4>1, <4>2, <4>3 DEF Outcome, Evidence
      <3> QED BY <3>1, <3>2
    <2> QED BY <1>1, <2>1, <2>2 DEF InStep, Apart, Recorded, InFlight, Reportable
  <1> QED BY <1>1, <1>2, <1>4 DEF EvidenceInv

\* A snapshot with one entry rewritten under a fresh number, or under its old one.
LEMMA ApartWritten ==
    ASSUME NumbersInv, Apart(entries), \A b \in Recorded(entries) : entries[b].last < next_sequence,
           NEW c \in Commands, NEW j, \A b \in Commands \ {c} : j[b] = entries[b],
           NEW r \in Entry, j[c] = r,
           \/ /\ c \notin Recorded(entries) /\ r.state = "Accepted"
              /\ r.accepted = next_sequence /\ r.last = next_sequence
           \/ /\ c \in InFlight(entries) /\ r.state = "Running"
              /\ r.accepted = entries[c].accepted /\ r.last = entries[c].last
           \/ /\ c \in InFlight(entries) /\ r.state = "Terminal"
              /\ r.accepted = entries[c].accepted /\ r.last = next_sequence
    PROVE  Apart(j)
  <1>1. Recorded(j) = Recorded(entries) \cup {c} /\ InFlight(entries) \subseteq Recorded(entries)
    BY DEF Recorded, InFlight
  <1>2. \A b \in Recorded(entries) : /\ b \in Commands
                                     /\ entries[b].accepted \in Nat /\ entries[b].last \in Nat
                                     /\ entries[b].accepted <= entries[b].last
                                     /\ b \in InFlight(entries) \/ b \in Reportable(entries)
    <2>1. \A b \in Commands : entries[b].state \in EntryStates
      BY Typed DEF Entry
    <2> QED BY <2>1, Typed DEF Apart, Recorded, InFlight, Reportable
  <1>3. next_sequence \in Nat
    BY Typed
  <1>4. \A b \in Recorded(j) : /\ b \in InFlight(j) => j[b].last = j[b].accepted
                               /\ b \in Reportable(j) => j[b].last > j[b].accepted
    <2> SUFFICES ASSUME NEW b \in Recorded(j)
                 PROVE  /\ b \in InFlight(j) => j[b].last = j[b].accepted
                        /\ b \in Reportable(j) => j[b].last > j[b].accepted
      OBVIOUS
    <2>1. CASE b = c
      BY <1>1, <1>2, <1>3, <2>1 DEF Apart, InFlight, Reportable
    <2>2. CASE b # c
      BY <1>1, <2>2 DEF Apart, InFlight, Reportable, Recorded
    <2> QED BY <2>1, <2>2
  <1>5. ASSUME NEW b \in Recorded(entries), b # c
        PROVE  /\ j[b].accepted # r.accepted /\ j[b].accepted # r.last
               /\ j[b].last # r.accepted /\ j[b].last # r.last
    BY <1>1, <1>2, <1>3, <1>5 DEF Apart
  <1>6. ASSUME NEW b \in Recorded(j), NEW d \in Recorded(j), b # d
        PROVE  /\ j[b].accepted # j[d].accepted
               /\ j[b].accepted # j[d].last
               /\ j[b].last # j[d].last
    <2>1. CASE b = c
      BY <1>1, <1>5, <1>6, <2>1
    <2>2. CASE d = c
      BY <1>1, <1>5, <1>6, <2>2
    <2>3. CASE b # c /\ d # c
      BY <1>1, <1>2, <1>6, <2>3 DEF Apart
    <2> QED BY <2>1, <2>2, <2>3
  <1> QED BY <1>4, <1>6 DEF Apart

\* A journal write keeps the evidence behind each sequence number.
LEMMA EvidenceWrite ==
    ASSUME JournalInv, NumbersInv, EvidenceInv, NEW c \in Commands, NEW w \in Writes,
           accept(c, w) \/ mark_running(c, w) \/ complete(c, w)
    PROVE  EvidenceInv'
  <1>0. UNCHANGED <<up, sent>> /\ up /\ faulted' = (faulted \/ w # "ok") /\ faulted \in BOOLEAN
    <2>1. UNCHANGED <<up, sent>> /\ up
      BY DEF accept, mark_running, complete, At, JournalInv, Shape
    <2>2. faulted' = (faulted \/ w # "ok") /\ faulted \in BOOLEAN
      BY Zenon DEF accept, mark_running, complete, Persist, NumbersInv, TypeOK
    <2> QED BY <2>1, <2>2
  <1>1. handling \in [cmd : Commands \cup {NoCommand}, step : Steps, result : Results]
    BY DEF JournalInv, Shape
  <1>2. handling'.step = "Accepted" => entries'[handling'.cmd].state = "Accepted"
    <2>1. CASE accept(c, w)
      <3>1. CASE w = "ok"
        <4>1. handling'.cmd = c /\ entries'[c].state = "Accepted"
          BY <2>1, <3>1, Typed DEF accept, Snapshots
        <4> QED BY <4>1
      <3>2. CASE w # "ok"
        <4>1. handling' = Idle
          BY <2>1, <3>2 DEF accept
        <4> QED BY <4>1 DEF Idle
      <3> QED BY <3>1, <3>2
    <2>2. CASE mark_running(c, w) \/ complete(c, w)
      <3>1. handling' = Idle \/ \E x \in {"Running", "Completed"} : handling' = [handling EXCEPT !.step = x]
        BY <2>2 DEF mark_running, complete, Abort
      <3>2. Idle.step = "Idle"
        BY DEF Idle
      <3> QED BY <1>1, <3>1, <3>2
    <2> QED BY <2>1, <2>2
  <1>3. ASSUME faulted' = FALSE PROVE InStep'
    <2>1. w = "ok" /\ faulted = FALSE
      BY <1>0, <1>3
    <2>2. InStep /\ entries = disk
      BY <1>0, <2>1 DEF EvidenceInv, InStep
    <2>3. PICK r \in Entry :
            /\ entries' = [entries EXCEPT ![c] = r] /\ disk' = entries'
            /\ \/ /\ c \notin Recorded(entries) /\ r.state = "Accepted"
                  /\ r.accepted = next_sequence /\ r.last = next_sequence
                  /\ next_sequence' = next_sequence + 1
               \/ /\ c \in InFlight(entries) /\ r.state = "Running"
                  /\ r.accepted = entries[c].accepted /\ r.last = entries[c].last
                  /\ next_sequence' = next_sequence
               \/ /\ c \in InFlight(entries) /\ r.state = "Terminal"
                  /\ r.accepted = entries[c].accepted /\ r.last = next_sequence
                  /\ next_sequence' = next_sequence + 1
      <3>0. entries[c] \in Entry
        BY Typed
      <3>1. CASE accept(c, w)
        <4> DEFINE r == [state |-> "Accepted", accepted |-> next_sequence,
                         last |-> next_sequence, result |-> "None"]
        <4>1. r \in Entry /\ r.state = "Accepted" /\ r.accepted = next_sequence /\ r.last = next_sequence
          BY DEF Entry, Results, NumbersInv, TypeOK
        <4>2. c \notin Recorded(entries)
          BY <3>1 DEF accept, KnownCommand, Recorded
        <4>3. entries' = [entries EXCEPT ![c] = r] /\ disk' = entries' /\ next_sequence' = next_sequence + 1
          BY <2>1, <3>1 DEF accept, Persist
        <4> HIDE DEF r
        <4> QED BY <4>1, <4>2, <4>3
      <3>2. CASE mark_running(c, w)
        <4> DEFINE r == [entries[c] EXCEPT !.state = "Running"]
        <4>1. /\ r \in Entry /\ r.state = "Running" /\ r.accepted = entries[c].accepted
              /\ r.last = entries[c].last
          BY <3>0 DEF Entry
        <4>2. c \in InFlight(entries)
          BY <3>2 DEF mark_running, At, JournalInv, InHand, InFlight
        <4>3. entries' = [entries EXCEPT ![c] = r] /\ disk' = entries' /\ next_sequence' = next_sequence
          BY <2>1, <3>2 DEF mark_running, Persist
        <4> HIDE DEF r
        <4> QED BY <4>1, <4>2, <4>3
      <3>3. CASE complete(c, w)
        <4> DEFINE r == [entries[c] EXCEPT !.state = "Terminal", !.last = next_sequence,
                                           !.result = handling.result]
        <4>1. /\ r \in Entry /\ r.state = "Terminal" /\ r.accepted = entries[c].accepted
              /\ r.last = next_sequence
          BY <3>0 DEF Entry, NumbersInv, TypeOK
        <4>2. c \in InFlight(entries)
          BY <3>3 DEF complete, At, JournalInv, InHand, InFlight
        <4>3. entries' = [entries EXCEPT ![c] = r] /\ disk' = entries' /\ next_sequence' = next_sequence + 1
          BY <2>1, <3>3 DEF complete, Persist
        <4> HIDE DEF r
        <4> QED BY <4>1, <4>2, <4>3
      <3> QED BY <3>1, <3>2, <3>3
    <2>4. entries'[c] = r /\ \A b \in Commands \ {c} : entries'[b] = entries[b]
      BY <2>3, Typed DEF Snapshots
    <2>5. Apart(entries) /\ (\A b \in Recorded(entries) : entries[b].last < next_sequence)
          /\ next_sequence \in Nat
      BY <1>0, <2>2, Typed DEF InStep
    <2>6. Apart(entries')
      <3>1. \/ /\ c \notin Recorded(entries) /\ r.state = "Accepted"
               /\ r.accepted = next_sequence /\ r.last = next_sequence
            \/ /\ c \in InFlight(entries) /\ r.state = "Running"
               /\ r.accepted = entries[c].accepted /\ r.last = entries[c].last
            \/ /\ c \in InFlight(entries) /\ r.state = "Terminal"
               /\ r.accepted = entries[c].accepted /\ r.last = next_sequence
        BY <2>3
      <3> QED BY <2>4, <2>5, <3>1, ApartWritten, Zenon
    <2>7. \A b \in Recorded(entries') : entries'[b].last < next_sequence'
      <3>1. \A b \in Recorded(entries') : b = c \/ (b \in Recorded(entries) /\ entries'[b] = entries[b])
        BY <2>4 DEF Recorded
      <3>2. \A b \in Recorded(entries) : entries[b].last \in Nat
        BY Typed DEF Recorded
      <3>3. InFlight(entries) \subseteq Recorded(entries)
        BY DEF InFlight, Recorded
      <3> QED BY <2>3, <2>4, <2>5, <3>1, <3>2, <3>3
    <2>8. \A e \in sent : Outcome(e, entries')
      <3>1. \A e \in sent : Outcome(e, entries)
        BY <2>2 DEF InStep
      <3> QED BY <2>3, <2>4, <3>1 DEF Outcome, Recorded, InFlight
    <2> QED BY <1>0, <2>3, <2>6, <2>7, <2>8 DEF InStep
  <1> QED BY <1>2, <1>3 DEF EvidenceInv

\* As long as the journal's writes work, a sequence number names one piece of
\* evidence, across any number of crashes and of renumberings by open.
THEOREM SequencesNameEvidence == Spec => []SequenceNamesOneEvidence
  <1> DEFINE Inv == JournalInv /\ NumbersInv /\ EvidenceInv
  <1>1. Init => Inv
    <2> SUFFICES ASSUME Init PROVE EvidenceInv
      BY JournalInit, NumbersInit
    <2>1. \A c \in Commands : disk[c] = Absent
      BY DEF Init
    <2>2. Recorded(disk) = {}
      BY <2>1 DEF Recorded, Absent
    <2>3. up = FALSE /\ sent = {} /\ handling.step = "Idle"
      BY DEF Init, Idle
    <2> QED BY <2>2, <2>3 DEF EvidenceInv, InStep, Apart
  <1>2. Inv /\ [Next]_vars => Inv'
    <2> SUFFICES ASSUME Inv, [Next]_vars PROVE Inv'
      OBVIOUS
    <2>1. JournalInv' /\ NumbersInv'
      BY JournalStep, NumbersStep
    <2>2. EvidenceInv'
      BY EvidenceOpen, EvidenceOthers, EvidenceWrite DEF Next
    <2> QED BY <2>1, <2>2
  <1>3. Inv => SequenceNamesOneEvidence
    <2> SUFFICES ASSUME Inv, faulted = FALSE, NEW e \in sent, NEW f \in sent, e.seq = f.seq
                 PROVE  e = f
      BY DEF SequenceNamesOneEvidence, NumbersInv, TypeOK
    <2>1. Outcome(e, disk) /\ Outcome(f, disk) /\ Apart(disk)
      BY DEF EvidenceInv, InStep
    <2>2. e.cmd = f.cmd
      BY <2>1 DEF Outcome, Apart
    <2>3. \A c \in Commands : disk[c].accepted \in Nat /\ disk[c].last \in Nat
      BY Typed
    <2>4. e.state = f.state
      BY <2>1, <2>2, <2>3 DEF Outcome, Apart, Reportable, Recorded
    <2>5. e \in [cmd : Commands, state : EntryStates, seq : Sequences]
          /\ f \in [cmd : Commands, state : EntryStates, seq : Sequences]
      BY DEF NumbersInv, TypeOK
    <2> QED BY <2>2, <2>4, <2>5
  <1> QED BY <1>1, <1>2, <1>3, PTL DEF Spec
=============================================================================
