# A TLA+ verification of O3K

O3K is a cloud operating system in Rust: a control plane (`bins/o3kd` with the
crates it composes) that owns resources, operations and reconciliation, and
agents on the hosts (`bins/o3k-compute`, `bins/o3k-network`) that change the
host and report what they observed. This directory holds models of the parts of
it that are hardest to get right by testing, the TLC runs that check them, and
TLAPS proofs of their central properties.

The models follow the source, not the documents; where a document, comment or
migration says something else, a run or section 4 shows it.

## 1. Inventory

| Part | State | Operations | Hard behaviour |
|---|---|---|---|
| Coordination (`o3k-store/src/coordination.rs`) | controller sessions, work leases, fence counters | register, heartbeat, drain, acquire, renew, release, relinquish | expiry, takeover, late calls with an old token, crashes |
| Command journal (`o3k-compute-agent/src/lib.rs`, `CommandJournal`, `AgentClient`) | journal in memory and on disk, next sequence | open, accept, mark_running, complete, replay, startup restore | crash between any two steps, failed writes, redelivery, lost streams |
| Node registry and control streams (same file, `NodeRegistry`) | node snapshots, connections, epochs, event channel | register, heartbeat, mark_unavailable, attach, detach, dispatch_command | epochs, two streams of one agent, stream lease between controllers, lagging receivers |
| Agent provider (`o3k-compute-agent/src/provider.rs`) | bindings of servers to agents, operations in memory | rehydrate, create/delete/... instance, dispatch_recorded, event projection | re-dispatch of recorded commands, stale bindings, its own event receiver beside the consumer |
| Reconciler (`o3k-reconciler/src/lib.rs`) | none of its own | reconcile_create, reconcile_lifecycle_once, observation, re-drive, apply_agent_acceptance/update/observation | decisions on values read before an await, several drivers and the consumer at once |
| Compute service (`o3k-compute`) | none of its own | create/delete/act on servers, convergence sweeps, event consumer | API request and sweep on the same operation, lost events |
| Store (`o3k-store`) | operations, agent commands, resources, retry counters, evidence and watermarks | guarded updates, `terminalize_lifecycle` | which late write wins |
| Host executor (`bins/o3k-compute`) | libvirt domains | execute, startup restore | partial execution, host reboot |
| Placement, scheduler (`o3k-placement`, `o3k-scheduler`, `sqlite/placement.rs`) | providers with states, inventories and generations, allocations, intents, quota reservations | schedule, commit, release, publish, operator states, startup reconciliation | allocation against a stale inventory, equal creates racing, a delete and a create of one key, crash between intent, allocation and row |
| Storage attachment workflow | durable attachment state | attach, detach, recovery | one of several services failing, unknown outcomes |
| Network agent (`bins/o3k-network/src/agent.rs`, `o3k-network/src/execution.rs`) | persisted controller lease, journal of plans, running set | accept_lease, execute, observe, startup | leases out of order, check and admission not under one lock, crash around the mutation, failed writes |
| Realm reconciliation (`o3kd/src/composition/network.rs`) | network plan work, realm and agent leases | reconcile a realm: settle, derive, supersede, dispatch, record | two controllers on one realm, lost leases in the middle of a pass, unknown outcomes, generation and content written apart |
| Upgrade (`bins/o3k/src/upgrade`) | state file, backups, rollback chain; binaries, units, database | upgrade, resume, rollback | death between a phase and its step, reboot, failing rollback, repeated commands |
| Identity, images, APIs, kernel, config, host adapters, migration, CLI | rows and files | request handling | mostly sequential or host I/O |

How they interact: an API request commits an operation and a resource row and
makes one reconciliation pass; the pass goes through the provider, which records
an `agent_commands` row and puts the command on the agent's control stream. The
agent journals, executes and reports. Its evidence (acceptance, operation
update, observation) reaches the control plane as events on a broadcast channel
read by the provider and by the compute service's consumer, which let the
reconciler apply it under an epoch fence. A periodic sweep re-drives operations
that nothing else advances. With several controllers, work leases decide who
may drive an operation and who owns an agent's stream. A network plan takes the
same way with a fencing token: the controller that reconciles a realm holds the
realm's lease and the agent's lease, writes the plan as durable work and sends it
to the network agent under the token of the agent's lease. Before any of this a
create reserves quota and an allocation on a provider chosen from what the
publisher wrote of the agents.

What makes each part correct: a fencing token names one owner and grows at every
handoff, a live owner is not displaced, an abandoned key is reclaimed (coordination);
a command runs at most once, evidence is true, everything executed is reported,
the startup restore trusts no stale state (journal); a terminal operation is
final, DELETED means gone and stays, an accepted delete ends (lifecycle); plans are
admitted in the order of the tokens and reach the host in the order of the
generations, what is reported as converged is there (network); no provider is
overcommitted, a live server has its allocation, nothing stays allocated to
nobody (placement); whatever happens on the way, an upgrade ends with one whole
release (upgrade).
`PROJECT.json` lists the parts left out with the reason, and the hazards.

## 2. Modules

```
WorkLease        <- MCWorkLease        <- WorkLease.cfg          WorkLeaseProofs
CommandJournal   <- MCCommandJournal   <- CommandJournal.cfg     CommandJournalProofs
ServerDelete     <- MCServerDelete     <- ServerDelete*.cfg      ServerDeleteProofs
NetworkAgent     <- MCNetworkAgent     <- NetworkAgent.cfg       NetworkAgentProofs
RealmWork        <- MCRealmWork        <- RealmWork*.cfg         RealmWorkProofs
UpgradeEngine    <- MCUpgradeEngine    <- UpgradeEngine.cfg      UpgradeEngineProofs
Placement        <- MCPlacement        <- Placement*.cfg         LedgerProofs <- PlacementProofs
OnceExecutor     implemented by CommandJournal and NetworkAgent
```

RealmWork instantiates NetworkAgent, and RealmWorkProofs instantiates
NetworkAgentProofs in the same way.

### WorkLease

The two tables and the fence counters of `0019_coordination.sql`, and what each
controller process remembers. One action per repository call; `acquire` is its
three outcomes that change something (a `Busy` answer changes nothing). A
session is one (controller id, epoch) pair, so a restarted controller is another
session; registering it again is the upsert of the code and revives it. Instead of
a clock each row keeps the ticks left until `lease_until`
(-1: expired); only comparisons with the clock matter, so time is unbounded in a
finite state space. `HandoffKeys` are the keys whose owners use
`relinquish_work_lease_preserving_fence` (network agents and fabric realms);
the others are released.

### CommandJournal

The agent's snapshot in memory (`entries`, `next_sequence`), the one on disk,
the command being handled and how far, the process and its stream, plus history
variables (`runs`, `sent`) and the host's domain state. Every write of a
snapshot may succeed, fail before the rename (`lost`) or fail in the directory
sync after it (`late`). What the code does about a failure differs from call to
call and is kept: `accept` takes the entry back, `mark_running` and `complete`
leave it changed in memory, `open` ends the process. A command stands for its
identity; deadlines and mismatched fingerprints refuse a command without
touching the journal and are left out.

### ServerDelete

The delete of one ACTIVE server through every part on its way. The state of the
drivers (the API request and the sweep) and of the event consumer are explicit
program counters with the values they read, so their steps interleave the way
the awaits allow: read, write Running, choose the agent and record the command,
send it, record the result; take an event and pass the fence, then write. Choosing
the agent (with the rehydration of bindings) and recording the command are one
step: what the registry may do between them it may as well do right after, where
the send meets it. Operation `o + 1` is the re-drive of
operation `o`. Abstractions:

* an epoch is one bit at each place that remembers one (is it the registered
  one?), and a resource generation one bit per reader (was the resource written
  since?); nothing in the code tells older values apart;
* the provider's event receiver may process any event that waits for the
  consumer, any number of times; it is not further behind than the consumer;
* a recorded command may have outlived its deadline at any time;
* the retry counter saturates just below the budget, where it decides;
* the sweep's list is read operation by operation;
* the lease on the agent's stream is there as its loss: with `LoseLeases` any
  dispatch may find it gone, as an invalid request (the operation is Failed for
  good) or as a stale state;
* this is the only way a delete fails: the agent's delete arm reports success or an
  unknown outcome, so the Failed and Retryable provider states that
  `observe_lifecycle` and `handle_lifecycle_result` also handle (reconciler
  `lib.rs` 1220, 1247) are not met by a delete, and errors of the store itself are
  left out;
* multi-controller coordination of the drivers, administrative drain, metering, placement release and
  the clean-up of network endpoints after a delete are not in this model;
* the journal here is what CommandJournal shows of it with working writes.

### OnceExecutor

What both agents promise the control plane, in three variables: an operation
changes the host at most once; after the agent has said that it does not know
the outcome the operation changes nothing any more; "executed" is only said of
what was. `CommandJournal!ImplementsOnceExecutor` maps the journal, its disk copy
and the evidence sent to it; `NetworkAgent!ImplementsOnceExecutor` maps the
network agent's journal and its lane (it reports through observation, so the
`told` of that mapping is empty).

### NetworkAgent

One action per request and per file write. The lane (the runtime mutex) is taken
by execution and observation but not by the acceptance of a lease, so that a lease
may arrive between the second authority check and the admission. Journal and lease
are files, each write succeeds, is lost or is late; the journal has no copy in
memory because every call reads the file. A lease is a token with the ticks it
has left; a token stands for one controller session, which is what
`WorkLease!HandoffFenceUnique` shows of the work keys the agents use. The plan a
command realises is one value, and `Identity` says which commands are attempts of
one operation. A plan has a realm generation (`Rank`); the Linux provider refuses
one that is older than what it holds (`StalePlan`), but an apply has written its
plan file by then (`plan_file`), and the provider does not open when plan and
ownership file disagree (`validate_loaded_state`).

### RealmWork

Controllers that reconcile one realm, composed with NetworkAgent (`A`, with
working writes and a working host) as the environment: the agent's steps are
NetworkAgent's own actions. A pass is a program counter with what it has read:
take the realm lease, ask the agent about every unresolved command and settle it,
derive the next command from the highest generation of the history, check that
nothing else is unresolved, take the agent's lease, persist (a new row, or a
successor in the transaction that supersedes the row it replaces), mark Running,
connect, send lease and command, record the answer. Realm generation and content
are two variables, because the code writes them in two transactions; a binding
that fails between them and is tried again lets the generation run ahead by any
amount. A pass reads the generation before it has the realm's lease and the content
under it, so a plan is a pair, and the host holds a pair: "older" is said of both
halves. One host, no removal of the realm.

### UpgradeEngine

One invocation at a time over the host's files, units and database. The phase is
persisted before its step, as in the code, and an invocation may die, be refused
or fail at every step; a reboot ends the invocation and lets systemd start what
lies on the disk. Steps are those that change something; a release is one value
per file, so that a half-switched host can be told from a whole one, and a
database has a schema version, which `o3kd` brings up to its own as it opens the
store and which it refuses when it is newer (`SqliteStore::open`, whose migrator is
sqlx's). Resumption, automatic rollback, requested rollback
and the chain follow `engine.rs` and `backup.rs`. Left out: the lock file,
verification and download of a bundle (they refuse, and change nothing).

### Placement

Every create is a program counter through `create_server_for_user_with_context`,
the scheduler and the ledger, one step per store transaction: look the row up for
the identity of the operation, then answer from the reservation of the key (a
canonical create) or look the row up again (a call without the canonical context);
snapshot the providers, write an intent, check it, read the provider, commit
guarded by the generation, settle the intent, reserve quota, insert or revive the
row, and when somebody was faster observe what they inserted. The releases that
follow a lost race, a replay, a conflict, a refused quota, a failed list of the
servers and a refused provider pass are kept with what they ask before they
release, and some ask nothing: a canonical create that meets a different request
or a row without a reservation (`lifecycle.rs` 780-787, 837-842), a refused quota
and a failed list. Beside the creates run deletes (terminal first, then the
releases), the inventory publisher with its read and its write apart, the
operator's states, crashes and the startup pass. The three resource classes are
one; names, ports and keypairs are left out, and so are errors of the store
between two steps, after which some paths return without releasing anything (for
instance `lifecycle.rs` 983): `NothingLeaked` says nothing about them.

## 3. Runs

| Run | Instance | Result |
|---|---|---|
| `worklease` | 2 sessions, a relinquished and a released key, TTL 1, tokens to 2; fair clock and claimants | tokens of the relinquished key name one session and advance at each handoff; a live owner is undisturbed; abandoned leases reclaimed; crashed sessions delisted |
| `journal` | create, stop, delete of a server, room for two entries, all write faults; fair | implements OnceExecutor; at most once; restore sound; a sequence names one piece of evidence; what ran is reported |
| `delete` | API + sweep, one attempt, any two of a disconnection, a crash of the agent and an overrun event channel; lost commands and stream leases | DELETED only when gone |
| `delete_live` | sweep, one re-drive, two attempts, a disconnection or a restart of the control plane; nothing is lost; fair | the delete ends; terminal operations are final |
| `netagent` | 3 commands (two attempts of one operation), 2 tokens, crashes, write and host faults | implements OnceExecutor; Succeeded means realised; admissions follow the tokens |
| `realm` | 2 controllers (symmetric), 2 generations, 3 tokens, two tasks in the agent's queue, one fault of any kind | plans advance in generation and content; reported is held; one unresolved command; superseded commands are not admitted; "not found" fences out older controllers |
| `upgrade` | 3 releases, 2 upgrades, chain of 4, 3 faults; fair | closed hosts are whole; rollback stays possible; committed means target; unfinished attempts can be closed |
| `placement` | 3 creates of 2 servers: two on one key, each canonical with one of two bodies or of the older kind, and a competitor; 2 providers of fixed capacity, one event of any kind | commits fit; counters match; live servers are backed; nothing leaks |

*Bounds.* A token is reissued after two grants, so two tokens and sessions show
it. In the journals the interesting histories involve one command's crash point,
a duplicate, and a neighbour whose sequence or restore state it could disturb:
three commands of one server, or two attempts of one operation and one other.
With room for two entries the third command meets the full journal. In
`ServerDelete` two faults interrupt a step of the protocol and its recovery, and one re-drive to have two identities in flight; `delete` has no
re-drive (the theorem `DeletedGone` covers it), `delete_live` has. `MaxInbox` stops the
agent from reading another command while evidence waits, which only delays it;
the replay of a journal is not limited. `MaxRuns` is 2 so that a second execution
would be seen. `netagent` has one task at a time, `realm` two, so that there an
observation is answered while a displaced controller's command is still queued. In
`RealmWork` two generations make an old plan and a new one, and the tokens have to
cover a takeover by each controller; a generation that runs further ahead of the
content is left to the theorems, which hold for any `MaxGeneration`. In `UpgradeEngine` three
faults allow a step to fail, its rollback to fail and the next one to die. In
`Placement` three requests make two equal ones that race and one competitor for
the capacity; the second life of a server needs a delete. The kinds of creates only
meet on one key, so the two equal ones take every pair of kinds. The publisher runs
when an agent fails and returns; inventories that change size between a read and a
commit are left to the theorem `CommitsFitAlways`.

*Fairness.* WorkLease: the clock advances, and some running controller keeps
trying to acquire an acquirable key (all users are interval loops). Journal: a
started handler goes on (its awaits are not cancelled), a supervisor restarts
the agent and `run_with_executor` reconnects for ever. ServerDelete: scheduled
tasks run, the sweep visits an operation that again and again needs it, an agent
that lost its stream registers again. RealmWork: passes and the agent's tasks go
on, the recovery loop starts a pass at least every 15 seconds, a change that has
advanced the generation writes the binding. UpgradeEngine: a running invocation
goes on, and the operator repeats the command they were told to run. No run
assumes that a fault happens or that a user asks again. The writes of a journal may
fail at any time but one: fairness of the agent's startup (`open`) assumes that,
started again and again, it finally succeeds with the write it makes; a disk that
fails for ever reports nothing.

*Deadlock* is checked except in `ServerDelete`, `UpgradeEngine` and `Placement`,
whose instances legitimately stop when the delete, the upgrades or the creates are
over and the faults are used up.

Every property of a passing run has a mutant, an operator next to the mapped
definition with one plausible bug, for which TLC must find a violation.

## 4. Disagreements with documents and comments

Shown by a run:

| Run | What the code does |
|---|---|
| `delete_restart` | with an empty registry after a restart, "not found" is taken as proof of deletion ("unknown, not as proof of deletion", SPEC-0015) |
| `delete_lost` | a command accepted by the provider and lost with its stream leaves the operation Running with an identity, which nothing re-drives ("the agent event stream terminalizes it", `construction.rs`) |
| `realm_converges` | a command that could not be dispatched and its successor share a generation; every later pass refuses that history as ambiguous ("the bounded interval also retries transiently unavailable agents") |
| `placement_recreate` | a finished delete releases the allocation that a create of the same key has taken over ("an allocation must never be released beneath a live consumer") |

`delete_lost` and `realm_converges` are liveness: they run under the fairness of
section 3, and their counterexamples end in a loop in which every driver, sweep and
agent goes on running.

The following were met with the same models and have no run of their own. Where a
property is named, adding it to a configuration shows the behaviour.

* `WorkLease!FenceSurvivesRelease` with a released key: a takeover does not
  advance the fence counter, so release and acquisition reissue a token
  (`0019_coordination.sql`: "Fencing generations survive release").
* `CommandJournal!AcceptedIsAnswered` under `RedeliverySpec`: a command journaled
  but not announced when its stream closed is neither run nor answered until the
  agent restarts (SPEC-0015: "equivalent duplicate is acknowledged from the durable
  record"). A completion whose write failed stays terminal in memory and is
  reported while the disk still says Running.
* `NetworkAgent!TakeoverStopsAdmission`: a lease accepted between the second
  authority check and the journal write does not stop the admission ("a command
  queued before takeover cannot cross admission afterward"). What holds is
  `AdmissionsFollowFence`: no older command follows a newer one.
* `ServerDelete!DeleteConverges` with `LoseCommands = FALSE` and one crash of the
  agent: its unknown outcome is recorded before the dispatching driver writes
  Running over it, and nothing re-drives the operation (the comment of
  `delete_lost`).
* `ServerDelete!DeletedStaysDeleted` with one disconnection: the replay of the
  create's result under a new epoch turns DELETED into ACTIVE (SPEC-0021: "terminal
  results may be replayed idempotently"; ADR-0144: "delayed observations cannot
  regress Nova state").
* `RealmWork!FilesAgree` with two controllers and no fault: a plan of an older
  generation overwrites the plan file before the host refuses it; plan and ownership
  file disagree, and the agent does not start again (SPEC-0026: "stale
  plan/observation generations are rejected" before dispatch). The command of such
  a plan stays Unknown, and every later pass ends at it: `RealmWork!RealmConverges`
  fails without any fault.
* `Placement!LiveKeepsAllocation` with one older and one canonical create of a key
  and no fault: the canonical create takes the allocation of the live server as its
  own and releases it (the comment of `placement_recreate`).
* `UpgradeEngine!SecondRollbackIsNoop`: the backup stays eligible after a rollback,
  and a second rollback restores it again (`engine.rs`: "a second rollback then finds
  no eligible backup"; `o3k-upgrade.md`: "second rollback is a no-op with a notice").
* RealmWork: after a broken stream the lease guard is dropped without a handoff,
  the same controller goes on under the same token, and a superseded command that
  is still queued can be admitted. `SupersededNotAdmitted` excludes that case
  (`broken`); `PlansAdvance` does not. A crash of the agent between its plan file
  and its ownership file leaves them apart in the same way.
* UpgradeEngine: the automatic rollback does not persist that it has begun, so one
  that is cut off is resumed as an upgrade (excluded from `CommittedIsTarget` by
  `interrupted`); a unit that has given up makes `stop_unit` fail, and rollback
  never gets past it (excluded from `UnfinishedIsClosed`); two reboots can leave
  `o3k-compute` running the old binary under the new files; the database snapshot
  is taken while `o3kd` runs, and what it writes afterwards is lost by a rollback
  that restores it.
* Placement: a create that is refused quota, or cannot list the servers, releases
  the allocation an equal create is about to persist with, or has; a failed first provider pass releases the
  quota reservation, after which an equal create fails and releases the live
  row's allocation; the startup pass between two equal creates can leave the row
  naming one provider and the allocation on another (these, a delete and the
  canonical conflicts above are the events that put a server in
  `disturbed`). A released reservation refuses every retry of
  its key, although `lifecycle.rs` says "The caller retries". An agent's restart
  takes a draining provider to Unavailable and on to Enabled, although
  `inventory.rs` says "never let the periodic capability publisher reopen a durably
  draining or deleted provider".

`delete_live` excludes what `delete_lost` shows and the overwritten unknown outcome:
the stream fails only when no command is on it (`LoseCommands = FALSE`), the agent
does not fail, no event is overrun and no stream lease is lost. It allows
unavailability, a lost stream, fenced and expired re-dispatches, exhausted retries,
re-drives and a restart of the control plane. The end it reaches has the guest gone,
except after a restart, where a delete may also end through the false "not found" of
`delete_restart`. An
outage that outlasts the re-drive bound leaves the last identity undeliverable
(`ChainSpent`): each sweep pass records a fresh identity, which the code can do
without limit.

## 5. Proofs

Every safety property that a passing run checks, the type invariants and the
refinements included, is a theorem: it holds for every value of the constants
within the ASSUMEs of the modules, and no proof leaves a step open. The ASSUMEs
say that the bounds are natural numbers, that the value for "nobody" or "no
command" is not one of the real ones, that the commands of a journal and the
servers and requests of a ledger are finitely many, that a server asks for
something, and that a later release does not need an older schema (migrations
only go forward). `DeletedGone` has one hypothesis more, `MaxRestarts = 0`.

The arguments, by module:

* `WorkLeaseProofs`: `TypeCorrect` by the type invariant alone;
  `HandoffFenceIsUnique`. Uniqueness is not inductive: one must know that the row
  of a relinquished key is never deleted once granted, that every token granted
  is at most the row's, and that the row's token was granted to its owner. Then
  a takeover's token is above all earlier ones. `FenceAdvances` and
  `LiveOwnersUndisturbed` are action properties and share the lemma `RowMoves`: a
  step keeps a row as it is, gives it up, or claims one that is free, expired or
  the claimant's own; for the first grant one also needs that a key without a row
  shows token 0 (`Blank`).
* `CommandJournalProofs`: `AtMostOnce` and `EvidenceTrue` rest on one invariant
  that ties memory, disk, the command in hand and the history together. Its core:
  a command that ran is in flight or finished in memory *and* on disk, except
  in the hands of a dead process; a command about to run is durably Running and
  never ran. It is what makes every way of losing memory, failed writes
  included, safe. `JournalImplementsOnceExecutor` is the refinement: Init maps to
  OnceExecutor's Init, and by the same invariant every step is a run, a closing, a
  telling or a stutter. `JournalTypeCorrect` has to bound the sequence numbers: an
  entry takes one when accepted and one when its outcome is known, so no number is
  above `Span`, the count of both (`NumbersInv`), even when failed writes give
  numbers back and `open` renumbers. `RestoreSound` adds that the command in hand
  was accepted after everything either snapshot knows and is unfinished on disk
  (`RestoreInv`): from its acceptance to its completion the disk's newest entry
  says nothing about the host, so a restore trusts nothing stale.
  `SequencesNameEvidence` adds that, until a write fails, memory and disk agree,
  journaled commands share no number, and whatever was sent is the acceptance or
  the outcome still in the journal (`EvidenceInv`).
* `ServerDeleteProofs`: a family `Shape(g)`: `Shape(FALSE)` types the state,
  `Shape(TRUE)` types a state without any evidence of a deletion, in the store,
  a driver's or the consumer's hands, the stream, the journal or the executor.
  Every step preserves both (for `TRUE`: while the agent's node is registered and
  the guest exists), because evidence has one source, the executor's step that
  removes the guest. `TerminalFinal` follows from `Shape(FALSE)`, `DeletedGone`
  from `guest => Shape(TRUE)` under `MaxRestarts = 0`; with a restart the node is
  not registered and the run `delete_restart` shows the property fail.
  `DeleteTypeCorrect` needs one relation more, `Traced`: what is on the stream, in
  the replay, in the agent's hand or with the consumer names an entry of the
  journal, and the watermark is not past its end.
* `NetworkAgentProofs`: all safety properties of the run `netagent`, and
  `NotFoundFences`, from one invariant. For at-most-once it says that what mutated the host is in the journal
  file, and that a command between its admission and its mutation belongs to an
  operation that never mutated anything; the second part is why an attempt of the
  same operation cannot be admitted beside it. For the fences it says that no
  token that fences others is above the lease in memory or, when the agent is down,
  above the one in the file, and that a task past its last authority check carries
  a token no fence is above: leases may overtake it, but admissions and answers need
  the lane it holds. `AgentImplementsOnceExecutor` is the refinement.
* `RealmWorkProofs`: `ControllersDriveAgent` proves that every behaviour of the
  controllers with their agent is one of NetworkAgent's, so the agent's invariant
  is available by INSTANCE, and `AnswersFenceControllers` follows from it. On top of it, in layers: the pass that holds the
  realm's lease knows the unresolved rows exactly, of which there is at most one,
  and a successor exists only once its predecessor is superseded (`RowsInv`:
  `RealmTypeCorrect`, `AtMostOneUnresolved`); a token belongs to one pass and sends
  one command once, and while the lease of its token lives, the row of an
  unanswered command is unresolved and in the hands of whoever reconciles
  (`Owners`, `Flights`, `Pinned`); hence the tokens of the commands under way order
  them as the contents of their plans do, and the agent's fence passes them in that
  order (`Ordered`); the generations, read before the lease, are in no such order,
  and there it is the host's own guard that refuses the older one: both halves make
  `PlansNeverGoBack`; what succeeded, by row, journal or answer
  under way, is on the host or was replaced by something newer (`Realised`:
  `ReportsAreHeld`); and, while no stream broke, whoever asks the agent about a
  command asks under a token above every dispatch of it, so the answer "not
  found" keeps it out for good (`Kept`: `SupersededStaysOut`).
* `UpgradeEngineProofs`: one invariant, `UInv`, in four parts. `Durable`: the backup
  an attempt made is not in the chain before the commit, and it is about the same
  release as the newest backup of the chain; in a terminal phase there is a backup
  for a rollback to select. `Hosted`: whoever died on the way, the host holds
  nothing but the two releases of the backup a rollback would select, and an `o3kd`
  that runs is the installed one and has migrated the database. `Straight`: what holds besides
  when no automatic rollback of the attempt has begun or was cut off. `Running`:
  what is no longer on the invocation's list of steps has been done; the list of a
  rollback is sorted and an upper segment of the rollback's steps. From it
  `UpgradeTypeCorrect`, `ClosedWhole`, `RollbackPossible` and `CommittedTarget`. The
  number of the newest backup in the chain exists because the set of upper bounds
  has a smallest member.
* `LedgerProofs`: `LedgerTypeCorrect` and `LedgerBalances`. A provider's use is a
  sum over the servers allocated on it, a recursive function of a set. Induction
  with a predicate as parameter is out of reach, but the order of finite subsets is
  well founded, so a failing set would have a smallest one: so the sum obeys its
  equation and loses the size of whichever member is taken out, and every write of
  an allocation moves the counter by the same amount.
* `PlacementProofs`: `CommitsFitAlways`. A commit looks at the generation only, so
  the invariant `FInv` (theorem `CandidatesFenced`) says what a generation is worth:
  every write of a provider that could shrink its room or close it counts it up, a
  remembered generation is never ahead of the provider's, and so a request that is
  about to commit with an unchanged generation still satisfies the check it made.
  `LiveServersBacked` and `NoCapacityLeaks` are about servers that none of the
  events of section 4 has disturbed, for creates of both kinds. Their invariant
  `BInv`: until the create fails,
  all requests for the server have settled on the one allocation there is; capacity
  is given back only by the last of them and before there is a row; and an
  allocation is named by the row, or by a request that will name it or give it back.

Only model-checked: liveness (`AbandonedLeaseReclaimed`, `CrashedSessionDelisted`,
`ExecutedIsReported`, `DeleteConverges`, `UnfinishedIsClosed`), since fairness and
ENABLED are outside the prover's reach. What the runs that expect a violation show
to be false has no proof. No module uses RECURSIVE
operators.

## 6. Not modelled, and the plan

`PROJECT.json` gives the reason for each part. The bulk of the repository is
request parsing, rendering, authorisation, row mapping, planning of Linux
bridges and policies, and host I/O, in which nothing interleaves or fails halfway
in a way a model would add to a test; the map therefore covers a small share of its
lines.

What is still worth modelling, in this order:

1. `AgentStream`, over WorkLease: attach, detach, register, heartbeat, dispatch
   with the stream lease and its fencing token, `set_desired_state` and
   `acknowledge_state`, two streams of one agent and two controllers. Property: a
   detach of an old stream does not disturb a newer one.
2. `ServerCreate`: the create path after Placement with its convergence sweep,
   rebuilt commands, unknown outcomes and a delete that overtakes it.
3. `StorageAttachment`: the attachment workflow with failing steps.
4. Theorems: the safety properties of these modules, as they are written, and a
   refinement of ServerDelete into a specification of what a delete promises.

## 7. Running

```
tlc -config ServerDelete.cfg MCServerDelete
tlapm ServerDeleteProofs.tla
```
