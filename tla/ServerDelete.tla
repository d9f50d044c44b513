---------------------------- MODULE ServerDelete ----------------------------
(***************************************************************************)
(* Deleting one ACTIVE server, end to end: the reconciler's lifecycle       *)
(* driver (crates/o3k-reconciler/src/lib.rs), the compute-agent provider it *)
(* dispatches through (crates/o3k-compute-agent/src/provider.rs), the store *)
(* (crates/o3k-store/src/sqlite/core.rs), the event consumer that applies   *)
(* agent evidence, and the agent with its journal (see CommandJournal).     *)
(*                                                                          *)
(* Operation 0 is the delete the API accepted and committed; operation      *)
(* o + 1 is the re-drive of operation o under a fresh command identity.     *)
(* The create that made the server is finished: its operation and command   *)
(* row are terminal and only its journal entry, replayed at every           *)
(* registration, matters.                                                   *)
(* The server, its guest and its agent are the only ones.                   *)
(*                                                                          *)
(* Agent epochs are kept as one bit per place that remembers one: whether   *)
(* it is the epoch registered now.  Resource generations likewise: `fresh'  *)
(* says that the resource was not written since this reader read it.        *)
(***************************************************************************)
EXTENDS Naturals, Sequences

CONSTANTS
    Drivers,        \* concurrent callers of reconcile_lifecycle_once
    Sweep,          \* the driver that is the convergence sweep
    MaxRedrive,     \* bound: operations 0..MaxRedrive
    MaxAttempts,    \* the reconciler's max_attempts
    MaxRequests,    \* bound: passes the API makes over operation 0
    MaxDisconnects, MaxCrashes, MaxRestarts, MaxLags, \* bounds on faults
    MaxFaults,      \* bound: the four kinds of faults together
    MaxInbox,       \* bound: the agent reads no command while more evidence waits
    LoseCommands,   \* may a stream fail while a command is unacknowledged?
    LoseLeases      \* may the controller lose its lease on the stream?

ASSUME DriversAssumption == Sweep \in Drivers
ASSUME BoundsAssumption ==
    /\ MaxRedrive \in Nat
    /\ MaxAttempts \in Nat \ {0}
    /\ LoseCommands \in BOOLEAN
    /\ LoseLeases \in BOOLEAN

Ops == 0..MaxRedrive
Create == MaxRedrive + 1  \* the create's journal entry
None == MaxRedrive + 2

VARIABLES
    op,        \* operations: state and provider_operation_id
    attempts,  \* operation_retry_state, saturating one short of the budget
    row,       \* agent_commands: state, and is the recorded epoch current
    res,       \* the resource's observed state
    registry,  \* the agent's node snapshot in the control plane
    bound,     \* the provider's in-memory binding of the server
    drv,       \* the drivers
    con,       \* the agent event consumer
    seen,      \* observation_evidence: operations observed under this epoch
    mark,      \* observation_watermarks: newest sequence applied under this epoch
    linked,    \* the control stream is open
    wire,      \* commands on the stream
    inbox,     \* evidence received and not yet consumed
    journal,   \* the agent's journal, in the order of acceptance
    replay,    \* journal entries still to be replayed on this stream
    hand,      \* the command the agent is handling
    guest,     \* the domain exists on the host
    spent      \* how much of each bound is used

control == <<op, attempts, row, res, registry, bound, drv, con, seen, mark>>
agent == <<journal, replay, hand, guest>>
vars == <<op, attempts, row, res, registry, bound, drv, con, seen, mark,
          linked, wire, inbox, journal, replay, hand, guest, spent>>

Terminal == {"Succeeded", "Failed"}
Rank == [Absent |-> 0, Pending |-> 1, Accepted |-> 2, Unknown |-> 3, Succeeded |-> 3]

IdleDriver == [pc |-> "Idle", op |-> 0, target |-> 0, pop |-> None,
               fresh |-> FALSE, result |-> "None"]
IdleConsumer == [pc |-> "Idle", op |-> 0, kind |-> "None", pop |-> None,
                 closed |-> FALSE, fresh |-> FALSE]
IdleHand == [op |-> None, step |-> "Idle", result |-> "None"]

Init ==
    /\ op = [o \in Ops |-> [state |-> IF o = 0 THEN "Pending" ELSE "Absent", pop |-> None]]
    /\ attempts = [o \in Ops |-> 0]
    /\ row = [o \in Ops |-> [state |-> "Absent", current |-> FALSE]]
    /\ res = "ACTIVE"
    /\ registry = "Available"
    /\ bound = "None"
    /\ drv = [p \in Drivers |-> IdleDriver]
    /\ con = IdleConsumer
    /\ seen = {}
    /\ mark = 0
    /\ linked = TRUE
    /\ wire = {}
    /\ inbox = <<>>
    /\ journal = <<[op |-> Create, state |-> "Succeeded"]>>
    /\ replay = <<>>
    /\ hand = IdleHand
    /\ guest = TRUE
    /\ spent = [requests |-> 0, disconnects |-> 0, crashes |-> 0, restarts |-> 0, lags |-> 0]

Spend(what, max) ==
    /\ spent[what] < max
    /\ spent' = [spent EXCEPT ![what] = @ + 1]

MayBreak == spent.disconnects + spent.crashes + spent.restarts + spent.lags < MaxFaults

(***************************************************************************)
(* The store.  A terminal operation ignores every later projection.         *)
(***************************************************************************)
\* Mutant: the late writer wins.
update_operation_Overwrites(ops, o, state, pop) == [ops EXCEPT ![o] = [state |-> state, pop |-> pop]]

\* A terminal operation ignores a later projection, except that an equal one
\* may fill in the provider operation it lacked.
update_operation(ops, o, state, pop) ==
    IF ops[o].state \notin Terminal THEN [ops EXCEPT ![o] = [state |-> state, pop |-> pop]]
    ELSE IF ops[o].state = state /\ ops[o].pop = None THEN [ops EXCEPT ![o].pop = pop]
    ELSE ops

\* Evidence of a command is ordered by its sequence; an equal or older one
\* leaves the row alone.
update_agent_command(rows, o, state) ==
    IF Rank[state] > Rank[rows[o].state] THEN [rows EXCEPT ![o].state = state] ELSE rows

\* Every write of the resource advances its generation: no reader is fresh.
WriteResource(state, drv1, con1) ==
    /\ res' = state
    /\ drv' = [p \in Drivers |-> [drv1[p] EXCEPT !.fresh = FALSE]]
    /\ con' = [con1 EXCEPT !.fresh = FALSE]

\* One transaction: the operation and the projection of a writer that is not
\* stale, or neither.
terminalize_lifecycle(o, fresh, pop, drv1, con1) ==
    \/ /\ op[o].state \notin Terminal /\ fresh
       /\ op' = update_operation(op, o, "Succeeded", pop)
       /\ WriteResource("DELETED", drv1, con1)
    \/ /\ op[o].state \in Terminal \/ ~fresh
       /\ op' = IF op[o].state \in Terminal THEN update_operation(op, o, "Succeeded", pop) ELSE op
       /\ drv' = drv1
       /\ con' = con1
       /\ UNCHANGED res

(***************************************************************************)
(* The drivers: the API request over operation 0, and the sweep over every  *)
(* operation that nothing else will advance.  The sweep works through a     *)
(* list it read earlier.                                                    *)
(***************************************************************************)
delete_server(p) ==
    /\ p # Sweep
    /\ drv[p].pc = "Idle"
    /\ op[0].state \notin Terminal
    /\ Spend("requests", MaxRequests)
    /\ \/ /\ res = "DELETED"  \* already deleted: the accepted operation is closed
          /\ op' = update_operation(op, 0, "Succeeded", None)
          /\ UNCHANGED drv
       \/ /\ res # "DELETED"
          /\ drv' = [drv EXCEPT ![p] = [IdleDriver EXCEPT !.pc = "Picked"]]
          /\ UNCHANGED op
    /\ UNCHANGED <<attempts, row, res, registry, bound, con, seen, mark, linked, wire, inbox, agent>>

\* Mutant: an operation of unknown outcome is left to the event stream.
ReDrive_KnownOnly(o) ==
    \/ op[o].state \in {"Pending", "Retryable"}
    \/ op[o].state = "Running" /\ op[o].pop = None

ReDrive(o) ==
    \/ op[o].state \in {"Pending", "Unknown", "Retryable"}
    \/ op[o].state = "Running" /\ op[o].pop = None

drive_all_lifecycle_convergence(o) ==
    /\ drv[Sweep].pc = "Idle"
    /\ ReDrive(o)
    /\ drv' = [drv EXCEPT ![Sweep] = [IdleDriver EXCEPT !.pc = "Picked", !.op = o, !.target = o]]
    /\ UNCHANGED <<op, attempts, row, res, registry, bound, con, seen, mark, linked, wire, inbox, agent, spent>>

\* reconcile_lifecycle_once reads the operation and the resource.
reconcile_lifecycle_once(p) ==
    LET o == drv[p].op IN
    /\ drv[p].pc = "Picked"
    /\ drv' = [drv EXCEPT ![p] =
          IF op[o].state \in Terminal THEN IdleDriver
          ELSE [@ EXCEPT !.pop = op[o].pop, !.fresh = TRUE,
                         !.pc = IF op[o].state = "Unknown" THEN "Observe" ELSE "Start"]]
    /\ UNCHANGED <<op, attempts, row, res, registry, bound, con, seen, mark, linked, wire, inbox, agent, spent>>

Start(p) ==
    /\ drv[p].pc = "Start"
    /\ op' = update_operation(op, drv[p].op, "Running", drv[p].pop)
    /\ drv' = [drv EXCEPT ![p].pc = "Bind"]
    /\ UNCHANGED <<attempts, row, res, registry, bound, con, seen, mark, linked, wire, inbox, agent, spent>>

(***************************************************************************)
(* The provider.  rehydrate rebuilds the binding from the ledger and the    *)
(* registry; a binding of a deleted server is left as it was.               *)
(***************************************************************************)
rehydrate == IF res = "ACTIVE" /\ registry # "Absent" THEN "Current" ELSE bound

\* Mutant: the instances of an agent that is not available are not known.
Present_Available == res = "ACTIVE" /\ registry = "Available"

\* get_instance: the instance is known when it can be rehydrated.
Present == res = "ACTIVE" /\ registry # "Absent"

finish_lifecycle(p, pop) ==
    terminalize_lifecycle(drv[p].op, drv[p].fresh, pop, [drv EXCEPT ![p] = IdleDriver], con)

\* The next identity (within the bound MaxRedrive) is recorded and dispatched
\* on behalf of the operation.
redrive_delete(p) ==
    LET o == drv[p].op IN
    /\ op' = IF o + 1 \in Ops /\ op[o + 1].state = "Absent"
             THEN [op EXCEPT ![o + 1] = [state |-> "Pending", pop |-> None]] ELSE op
    /\ drv' = [drv EXCEPT ![p] = IF o + 1 \in Ops
                  THEN [@ EXCEPT !.pc = "Bind", !.target = o + 1] ELSE IdleDriver]
    /\ UNCHANGED <<res, con>>

\* observe_lifecycle_presence: an operation of unknown outcome is finished by
\* an absent instance or a succeeded command, and re-driven otherwise.
Observe(p) ==
    LET o == drv[p].op
        done == \/ ~Present
                \/ drv[p].pop # None /\ row[drv[p].pop].state = "Succeeded"
    IN
    /\ drv[p].pc = "Observe"
    /\ bound' = rehydrate
    /\ \/ done /\ finish_lifecycle(p, IF drv[p].pop = None THEN o ELSE drv[p].pop)
       \/ ~done /\ redrive_delete(p)
    /\ UNCHANGED <<attempts, row, registry, seen, mark, linked, wire, inbox, agent, spent>>

Answer(p, r) == drv' = [drv EXCEPT ![p] = [@ EXCEPT !.pc = "Result", !.result = r]]

\* A new command is recorded, for the epoch registered now, before it is sent;
\* a recorded one is sent again as recorded.
dispatch_recorded(p) ==
    LET t == drv[p].target
        new == row[t].state = "Absent"
    IN
    /\ row' = IF new THEN [row EXCEPT ![t] = [state |-> "Pending", current |-> TRUE]] ELSE row
    /\ \/ row[t].state = "Succeeded" /\ Answer(p, "Succeeded")
       \/ /\ row[t].state # "Succeeded"
          /\ drv' = [drv EXCEPT ![p] = [@ EXCEPT !.pc = "Dispatch",
                                               !.result = IF new THEN "New" ELSE "Recorded"]]

\* delete_instance chooses the agent and records the command: the binding must
\* name the agent's registered epoch.
delete_instance(p) ==
    LET b == rehydrate IN
    /\ drv[p].pc = "Bind"
    /\ bound' = b
    /\ \/ (b = "None" \/ registry = "Absent") /\ Answer(p, "NotFound") /\ UNCHANGED row
       \/ b # "None" /\ registry = "Unavailable" /\ Answer(p, "Retryable") /\ UNCHANGED row
       \/ b = "Stale" /\ registry = "Available" /\ Answer(p, "StaleState") /\ UNCHANGED row
       \/ b = "Current" /\ registry = "Available" /\ dispatch_recorded(p)
    /\ UNCHANGED <<op, attempts, res, registry, con, seen, mark, linked, wire, inbox, agent, spent>>

\* A recorded command may have outlived its deadline; one recorded for another
\* epoch is fenced; and with controllers that coordinate, the stream's lease
\* must still be this controller's (a lost one is an invalid request).
dispatch_command(p) ==
    LET t == drv[p].target
        deliverable == row[t].current /\ registry = "Available" /\ linked
    IN
    /\ drv[p].pc = "Dispatch"
    /\ \/ drv[p].result = "Recorded" /\ Answer(p, "DeadlineExpired") /\ UNCHANGED wire
       \/ ~row[t].current /\ Answer(p, "StaleState") /\ UNCHANGED wire
       \/ row[t].current /\ ~deliverable /\ Answer(p, "Retryable") /\ UNCHANGED wire
       \/ /\ deliverable /\ LoseLeases
          /\ \E r \in {"InvalidRequest", "StaleState"} : Answer(p, r)
          /\ UNCHANGED wire
       \/ deliverable /\ Answer(p, "Accepted") /\ wire' = wire \cup {t}
    /\ UNCHANGED <<op, attempts, row, res, registry, bound, con, seen, mark, linked, inbox, agent, spent>>

\* An error that may pass is retried within the budget; when that is used up
\* the outcome is unknown.
retry_or_fail(p) ==
    LET o == drv[p].op
        exhausted == attempts[o] + 1 >= MaxAttempts
    IN
    /\ attempts' = [attempts EXCEPT ![o] = IF exhausted THEN @ ELSE @ + 1]
    /\ op' = update_operation(op, o, IF exhausted THEN "Unknown" ELSE "Retryable", None)
    /\ drv' = [drv EXCEPT ![p] = IdleDriver]
    /\ UNCHANGED <<res, con>>

handle_lifecycle_result(p) ==
    LET o == drv[p].op
        t == drv[p].target
        r == drv[p].result
    IN
    /\ drv[p].pc = "Result"
    /\ \/ /\ r \in {"Succeeded", "NotFound"}
          /\ finish_lifecycle(p, CASE r = "Succeeded" -> t
                                   [] r = "NotFound" /\ drv[p].pop # None -> drv[p].pop
                                   [] OTHER -> o)
          /\ UNCHANGED attempts
       \/ /\ r \in {"Accepted", "DeadlineExpired"}
          /\ op' = update_operation(op, o,
                IF r = "Accepted" /\ t = o THEN "Running" ELSE "Unknown", t)
          /\ drv' = [drv EXCEPT ![p] = IdleDriver]
          /\ UNCHANGED <<attempts, res, con>>
       \/ r \in {"Retryable", "StaleState"} /\ retry_or_fail(p)
       \/ /\ r = "InvalidRequest"
          /\ op' = update_operation(op, o, "Failed", None)
          /\ drv' = [drv EXCEPT ![p] = IdleDriver]
          /\ UNCHANGED <<attempts, res, con>>
    /\ UNCHANGED <<row, registry, bound, seen, mark, linked, wire, inbox, agent, spent>>

(***************************************************************************)
(* The agent event consumer.  Take reads the operation and passes the epoch *)
(* fence, holding the epoch until it is idle again; the writes that follow  *)
(* use what it read.  Every event in `inbox' is of the registered epoch.    *)
(***************************************************************************)
Evidence(o, kind) == [op |-> o, kind |-> kind]

Held(o, kind, pc) ==
    [pc |-> pc, op |-> o, kind |-> kind, fresh |-> TRUE,
     pop |-> IF o \in Ops THEN op[o].pop ELSE None,
     closed |-> o \notin Ops \/ op[o].state \in Terminal]

\* apply_agent_acceptance: an operation or command of unknown outcome does
\* not go back to being in flight.
TakeAccepted(o) ==
    LET refused == op[o].state = "Unknown" \/ row[o].state = "Unknown" \/ op[o].state \in Terminal IN
    /\ row' = IF refused THEN row ELSE update_agent_command(row, o, "Accepted")
    /\ con' = IF refused THEN IdleConsumer ELSE Held(o, "Running", "Operation")
    /\ UNCHANGED seen

\* apply_agent_update of a success closes the command row even when the
\* operation has succeeded already; it contradicts one that failed.
TakeSucceeded(o) ==
    /\ row' = IF op[o].state = "Failed" THEN row ELSE update_agent_command(row, o, "Succeeded")
    /\ con' = IF op[o].state \in Terminal THEN IdleConsumer ELSE Held(o, "Succeeded", "Finish")
    /\ UNCHANGED seen

TakeUnknown(o) ==
    LET refused == op[o].state \in Terminal IN
    /\ row' = IF refused THEN row ELSE update_agent_command(row, o, "Unknown")
    /\ con' = IF refused THEN IdleConsumer ELSE Held(o, "Unknown", "Operation")
    /\ UNCHANGED seen

\* apply_agent_observation: one observation of an operation per epoch.  The
\* create's operation is closed.
TakeObserved(o) ==
    /\ con' = IF o \in seen THEN IdleConsumer ELSE Held(o, "Succeeded", "Project")
    /\ seen' = seen \cup {o}
    /\ UNCHANGED row

\* The create's operation update finds its operation and row closed.
Take ==
    LET e == Head(inbox) IN
    /\ con.pc = "Idle"
    /\ inbox # <<>>
    /\ inbox' = Tail(inbox)
    /\ \/ e.kind = "Accepted" /\ TakeAccepted(e.op)
       \/ e.kind = "Succeeded" /\ TakeSucceeded(e.op)
       \/ e.kind = "Unknown" /\ TakeUnknown(e.op)
       \/ e.kind = "Observed" /\ TakeObserved(e.op)
    /\ UNCHANGED <<op, attempts, res, registry, bound, drv, mark, linked, wire, agent, spent>>

\* The broadcast channel overran the consumer: the event is gone.
Lag ==
    /\ con.pc = "Idle"
    /\ inbox # <<>>
    /\ MayBreak
    /\ Spend("lags", MaxLags)
    /\ inbox' = Tail(inbox)
    /\ UNCHANGED <<control, linked, wire, agent>>

ApplyOperation ==
    /\ con.pc = "Operation"
    /\ op' = update_operation(op, con.op, con.kind, con.pop)
    /\ con' = IdleConsumer
    /\ UNCHANGED <<attempts, row, res, registry, bound, drv, seen, mark, linked, wire, inbox, agent, spent>>

ApplySuccess ==
    /\ con.pc = "Finish"
    /\ terminalize_lifecycle(con.op, con.fresh, con.pop, drv, IdleConsumer)
    /\ UNCHANGED <<attempts, row, registry, bound, seen, mark, linked, wire, inbox, agent, spent>>

Position(o) == CHOOSE i \in DOMAIN journal : journal[i].op = o

\* Mutant: the state a delete reports is not one of a server.
ObservedState_Unmapped(o) == IF o = Create THEN "ACTIVE" ELSE "Deleted"

ObservedState(o) == IF o = Create THEN "ACTIVE" ELSE "DELETED"

\* update_resource_from_observation, then the operation if it was open.
ApplyObservation ==
    LET next == IF con.closed THEN IdleConsumer ELSE [con EXCEPT !.pc = "Operation"] IN
    /\ con.pc = "Project"
    /\ \/ /\ ~con.fresh
          /\ con' = IdleConsumer
          /\ UNCHANGED <<res, drv, mark>>
       \/ /\ con.fresh
          /\ Position(con.op) <= mark
          /\ con' = next
          /\ UNCHANGED <<res, drv, mark>>
       \/ /\ con.fresh
          /\ Position(con.op) > mark
          /\ mark' = Position(con.op)
          /\ WriteResource(ObservedState(con.op), drv, next)
    /\ UNCHANGED <<op, attempts, row, registry, bound, seen, linked, wire, inbox, agent, spent>>

\* apply_agent_provider_event: the provider's own receiver projects the same
\* events into the command rows and its bindings, before or while the
\* consumer does.
ProviderEvent(e) ==
    LET o == e.op
        kept == \/ e.kind = "Observed" \/ o \notin Ops
                \/ e.kind = "Accepted" /\ op[o].state \in Terminal \cup {"Unknown"}
                \/ e.kind = "Accepted" /\ row[o].state = "Unknown"
                \/ e.kind = "Unknown" /\ op[o].state \in Terminal
                \/ e.kind = "Succeeded" /\ op[o].state = "Failed"
    IN
    /\ row' = IF kept THEN row ELSE update_agent_command(row, o, e.kind)
    /\ bound' = IF e.kind = "Observed" THEN "Current" ELSE bound
    /\ UNCHANGED <<op, attempts, res, registry, drv, con, seen, mark, linked, wire, inbox, agent, spent>>

apply_agent_provider_event == \E i \in DOMAIN inbox : ProviderEvent(inbox[i])

(***************************************************************************)
(* The agent: one command at a time, journaled before it runs; CommandJournal *)
(* models the journal itself in full.                                       *)
(***************************************************************************)
Journaled(o) == \E i \in DOMAIN journal : journal[i].op = o

Mark(o, state) == [i \in DOMAIN journal |->
                      IF journal[i].op = o THEN [journal[i] EXCEPT !.state = state] ELSE journal[i]]

\* What an entry sends when it is finished or replayed.
ReplayEntry(entry) ==
    CASE entry.state = "Succeeded" /\ entry.op = Create -> <<Evidence(Create, "Observed")>>
      [] entry.state = "Succeeded" /\ entry.op # Create ->
            <<Evidence(entry.op, "Observed"), Evidence(entry.op, "Succeeded")>>
      [] entry.state = "Unknown" -> <<Evidence(entry.op, "Unknown")>>
      [] OTHER -> <<>>

Send(events) == inbox' = IF linked THEN inbox \o events ELSE inbox

\* replay_journal_entries: before it reads a command.
Replay ==
    /\ replay # <<>>
    /\ Send(ReplayEntry(Head(replay)))
    /\ replay' = Tail(replay)
    /\ UNCHANGED <<control, linked, wire, journal, hand, guest, spent>>

Deliver(o) ==
    /\ hand.step = "Idle"
    /\ replay = <<>>
    /\ o \in wire
    /\ Len(inbox) <= MaxInbox
    /\ wire' = wire \ {o}
    /\ \/ /\ Journaled(o)
          /\ Send(ReplayEntry(journal[Position(o)]))
          /\ UNCHANGED <<journal, hand>>
       \/ /\ ~Journaled(o)
          /\ journal' = Append(journal, [op |-> o, state |-> "Accepted"])
          /\ hand' = [op |-> o, step |-> "Announce", result |-> "None"]
          /\ UNCHANGED inbox
    /\ UNCHANGED <<control, linked, replay, guest, spent>>

\* A send on a stream that is closed ends the handler, with the entry left as
\* it is, or is lost in the channel.
Announce ==
    /\ hand.step = "Announce"
    /\ Send(<<Evidence(hand.op, "Accepted")>>)
    /\ \/ ~linked /\ hand' = IdleHand /\ UNCHANGED journal
       \/ /\ hand' = [hand EXCEPT !.step = "Execute"]
          /\ journal' = Mark(hand.op, "Running")
    /\ UNCHANGED <<control, linked, wire, replay, guest, spent>>

\* The executor's delete: gone and reported, or an error after any part of it.
ExecuteResults ==
    {<<"Succeeded", FALSE>>} \cup (IF spent.crashes < MaxCrashes THEN {"Unknown"} \X BOOLEAN ELSE {})

Execute ==
    /\ hand.step = "Execute"
    /\ \E r \in ExecuteResults :
          /\ hand' = [hand EXCEPT !.step = "Report", !.result = r[1]]
          /\ guest' = (guest /\ r[2])
          /\ spent' = IF r[1] = "Unknown" THEN [spent EXCEPT !.crashes = @ + 1] ELSE spent
    /\ UNCHANGED <<control, linked, wire, inbox, journal, replay>>

Report ==
    /\ hand.step = "Report"
    /\ journal' = Mark(hand.op, hand.result)
    /\ Send(ReplayEntry([op |-> hand.op, state |-> hand.result]))
    /\ hand' = IdleHand
    /\ UNCHANGED <<control, linked, wire, replay, guest, spent>>

(***************************************************************************)
(* Registration and faults.                                                 *)
(***************************************************************************)
\* A registration waits for the epoch to be released; it changes the epoch,
\* and everything that remembers the old one is stale.
Register ==
    /\ ~linked
    /\ hand.step = "Idle"
    /\ con.pc = "Idle"
    /\ linked' = TRUE
    /\ registry' = "Available"
    /\ row' = [o \in Ops |-> [row[o] EXCEPT !.current = FALSE]]
    /\ bound' = IF bound = "Current" THEN "Stale" ELSE bound
    /\ seen' = {}
    /\ mark' = 0
    /\ inbox' = <<>>
    /\ replay' = journal
    /\ UNCHANGED <<op, attempts, res, drv, con, wire, journal, hand, guest, spent>>

\* The heartbeat runs in the loop that executes commands.
mark_unavailable ==
    /\ registry = "Available"
    /\ ~linked \/ hand.step # "Idle"
    /\ registry' = "Unavailable"
    /\ UNCHANGED <<op, attempts, row, res, bound, drv, con, seen, mark, linked, wire, inbox, agent, spent>>

heartbeat ==
    /\ linked
    /\ hand.step = "Idle"
    /\ replay = <<>>
    /\ registry = "Unavailable"
    /\ registry' = "Available"
    /\ UNCHANGED <<op, attempts, row, res, bound, drv, con, seen, mark, linked, wire, inbox, agent, spent>>

\* May the stream fail now?
MayFail == LoseCommands \/ (wire = {} /\ hand.step # "Announce")

Unlink == linked' = FALSE /\ wire' = {} /\ replay' = <<>>

Disconnect ==
    /\ linked
    /\ MayFail /\ MayBreak
    /\ Spend("disconnects", MaxDisconnects)
    /\ Unlink
    /\ UNCHANGED <<control, inbox, journal, hand, guest>>

\* The agent restarts: what it was doing has an unknown outcome.
AgentCrash ==
    /\ LoseCommands \/ wire = {}
    /\ MayBreak
    /\ Spend("crashes", MaxCrashes)
    /\ Unlink
    /\ hand' = IdleHand
    /\ journal' = [i \in DOMAIN journal |->
          IF journal[i].state \in {"Accepted", "Running"}
          THEN [journal[i] EXCEPT !.state = "Unknown"] ELSE journal[i]]
    /\ UNCHANGED <<control, inbox, guest>>

\* The control plane restarts: the store is all it keeps.
ControlRestart ==
    /\ MayFail /\ MayBreak
    /\ Spend("restarts", MaxRestarts)
    /\ Unlink
    /\ drv' = [p \in Drivers |-> IdleDriver]
    /\ con' = IdleConsumer
    /\ inbox' = <<>>
    /\ registry' = "Absent"
    /\ bound' = "None"
    /\ seen' = {}
    /\ UNCHANGED <<op, attempts, row, res, mark, journal, hand, guest>>

Driver(p) ==
    \/ reconcile_lifecycle_once(p) \/ Start(p) \/ Observe(p)
    \/ delete_instance(p) \/ dispatch_command(p) \/ handle_lifecycle_result(p)

Consumer == Take \/ ApplyOperation \/ ApplySuccess \/ ApplyObservation

Agent == Replay \/ Announce \/ Execute \/ Report \/ Register \/ heartbeat

Fault == Lag \/ mark_unavailable \/ Disconnect \/ AgentCrash \/ ControlRestart

Next ==
    \/ \E p \in Drivers : delete_server(p) \/ Driver(p)
    \/ \E o \in Ops : drive_all_lifecycle_convergence(o) \/ Deliver(o)
    \/ Consumer \/ apply_agent_provider_event \/ Agent \/ Fault

Spec == Init /\ [][Next]_vars

\* Tasks that are scheduled run; the sweep lists every operation at every
\* tick; an agent whose stream failed registers again.  Nothing makes a user
\* ask again, and nothing makes a fault happen.
Fairness ==
    /\ \A p \in Drivers : WF_vars(Driver(p))
    /\ \A o \in Ops : SF_vars(drive_all_lifecycle_convergence(o)) /\ WF_vars(Deliver(o))
    /\ WF_vars(Consumer)
    /\ WF_vars(Replay \/ Announce \/ Execute \/ Report)
    /\ SF_vars(Register)
    /\ WF_vars(heartbeat)

FairSpec == Spec /\ Fairness

-----------------------------------------------------------------------------
TypeOK ==
    /\ op \in [Ops -> [state : {"Absent", "Pending", "Running", "Retryable", "Unknown"} \cup Terminal,
                       pop : Ops \cup {None}]]
    /\ attempts \in [Ops -> 0..(MaxAttempts - 1)]
    /\ row \in [Ops -> [state : DOMAIN Rank, current : BOOLEAN]]
    /\ res \in {"ACTIVE", "DELETED"}
    /\ registry \in {"Absent", "Available", "Unavailable"}
    /\ bound \in {"None", "Current", "Stale"}
    /\ drv \in [Drivers -> [pc : {"Idle", "Picked", "Start", "Observe", "Bind", "Dispatch", "Result"},
                            op : Ops, target : Ops, pop : Ops \cup {None},
                            fresh : BOOLEAN,
                            result : {"None", "New", "Recorded", "Accepted", "Succeeded", "NotFound",
                                      "Retryable", "StaleState", "DeadlineExpired", "InvalidRequest"}]]
    /\ con \in [pc : {"Idle", "Operation", "Finish", "Project"}, op : Ops \cup {Create},
                kind : {"None", "Running", "Succeeded", "Unknown"}, pop : Ops \cup {None},
                closed : BOOLEAN, fresh : BOOLEAN]
    /\ seen \subseteq Ops \cup {Create}
    /\ mark \in 0..Len(journal)
    /\ linked \in BOOLEAN
    /\ wire \subseteq Ops
    /\ inbox \in Seq([op : Ops \cup {Create}, kind : {"Accepted", "Observed", "Succeeded", "Unknown"}])
    /\ journal \in Seq([op : Ops \cup {Create}, state : {"Accepted", "Running", "Succeeded", "Unknown"}])
    /\ replay \in Seq([op : Ops \cup {Create}, state : {"Accepted", "Running", "Succeeded", "Unknown"}])
    /\ hand \in [op : Ops \cup {None}, step : {"Idle", "Announce", "Execute", "Report"},
                 result : {"None", "Succeeded", "Unknown"}]
    /\ guest \in BOOLEAN

\* While the control plane keeps running, a server is shown as DELETED, and a
\* delete as succeeded, only when its guest is gone from the host: no lost
\* answer, unavailable agent or re-drive is taken for a deletion.
DeletedIsGone ==
    guest => res = "ACTIVE" /\ \A o \in Ops : op[o].state # "Succeeded"

\* A terminal operation keeps its state, and the provider operation it names,
\* whichever driver, consumer or observation writes last.
TerminalIsFinal ==
    [][\A o \in Ops : op[o].state \in Terminal =>
          /\ op'[o].state = op[o].state
          /\ op[o].pop # None => op'[o].pop = op[o].pop]_vars

\* A server that was shown as DELETED is never shown as anything else: the
\* terminal results an agent replays when it registers again
\* (apply_agent_observation) change nothing that a later result decided.
DeletedStaysDeleted == [][res = "DELETED" => res' = "DELETED"]_vars

\* The last identity the bound allows cannot execute any more: its command was
\* recorded for a stream that is gone, or has an unknown outcome.
ChainSpent ==
    \/ row[MaxRedrive].state = "Unknown"
    \/ row[MaxRedrive].state = "Pending" /\ ~row[MaxRedrive].current

\* A delete that was accepted succeeds, with the guest gone: the sweep
\* (drive_all_lifecycle_convergence) re-drives what nothing else advances and the
\* event stream ends the rest, as long as there is a fresh identity to re-drive it
\* under.  Once the control plane has restarted the delete still ends, but maybe
\* through the false "not found" that refutes DeletedIsGone.  It holds while no
\* accepted command is lost with its stream (LoseCommands), none ends with an
\* unknown outcome (MaxCrashes), no event is overrun (MaxLags) and no stream
\* lease is lost (LoseLeases); the first two each refute it alone.
DeleteConverges ==
    <>(\/ op[0].state = "Succeeded" /\ (guest => spent.restarts > 0)
       \/ ChainSpent)
=============================
