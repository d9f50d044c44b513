----------------------------- MODULE RealmWork -----------------------------
(***************************************************************************)
(* Reconciliation of one Fabric realm by several controllers against the    *)
(* network agent of one host: FabricRealmReconciler and                     *)
(* NetworkAgentDispatcher (bins/o3kd/src/composition/network.rs), the       *)
(* durable plan work (crates/o3k-store/src/sqlite/core.rs) and the agent    *)
(* (module NetworkAgent).                                                   *)
(*                                                                          *)
(* A pass takes the realm lease, settles every unresolved command of the    *)
(* realm by asking the agent, derives a plan from the canonical state and   *)
(* dispatches it as a durable command: a new one, a successor that          *)
(* supersedes a command the agent does not know, or a successor that an     *)
(* earlier pass left behind.  Every write of a row is fenced by the realm   *)
(* lease in its own transaction, and a controller runs one pass at a time   *)
(* (local_realm_lock), so the rows' revisions never decide.                 *)
(*                                                                          *)
(* A version <<g, e>> is a realm generation and the endpoint content that a *)
(* pass read; the operation and plan identities are hashes of it.  The host *)
(* takes part in the realm throughout: removal plans are not modelled.      *)
(***************************************************************************)
EXTENDS Naturals, Sequences, FiniteSets

CONSTANTS
    Controllers,   \* the controllers; a crash gives one a new session
    Nobody,        \* the owner of a lease whose session is gone
    NoCommand,
    MaxGeneration, \* bound: the highest realm generation
    MaxToken,      \* bound: the highest fencing token of the agent's lease
    Faults,        \* which faults may happen
    MaxFaults      \* bound: how many faults happen

FaultKinds == {"connect", "transport", "expiry", "controller", "agent", "tick"}

ASSUME ControllersAssumption == Nobody \notin Controllers
ASSUME BoundsAssumption == MaxGeneration \in Nat \ {0} /\ MaxToken \in Nat /\ MaxFaults \in Nat
ASSUME FaultsAssumption == Faults \subseteq FaultKinds

Generations == 1..MaxGeneration
Versions == Generations \X Generations
NoVersion == <<0, 0>>

\* No part of a version is older.
NotOlder(v, w) == v[1] <= w[1] /\ v[2] <= w[2]

\* A command is identified by its version and by the command it supersedes.
Commands == [ver : Versions, old : Versions \cup {<<>>}]
New(v) == [ver |-> v, old |-> <<>>]
IsSuccessor(c) == c.old # <<>>

ASSUME CommandAssumption == NoCommand \notin Commands

VARIABLES
    generation,   \* the realm's generation
    content,      \* the state of its endpoints, by the change that made it
    rows,         \* network_plan_work: the state of each command
    created,      \* the rows in the order of their creation
    realm_lease,  \* the work lease "fabric-realm:<id>"
    agent_lease,  \* the work lease "network-agent:<id>"
    pass,         \* the pass each controller is in
    reported,     \* history: the newest generation and content reported as reconciled
    broken,       \* history: a stream broke while its reply was awaited
    faults        \* how many faults have happened

VARIABLES up, authority, disk_lease, journal, queued, observing, lane, host,
          plan_file, runs, fence, not_found

A == INSTANCE NetworkAgent WITH
        Effect <- [c \in Commands |-> c.ver],
        Rank <- [c \in Commands |-> c.ver[1]],
        Held <- [v \in Versions \cup {NoVersion} |-> v[1]],
        Identity <- [c \in Commands |-> c.ver],
        Initial <- NoVersion, Partial <- NoVersion, TTL <- 1, WriteFaults <- {},
        HostFaults <- FALSE, MaxRuns <- 2, MaxTasks <- 2

control == <<generation, content, rows, created, realm_lease, agent_lease,
             pass, reported, broken, faults>>
agent == <<up, authority, disk_lease, journal, queued, observing, lane, host,
           plan_file, runs, fence, not_found>>
vars == <<control, agent>>

-----------------------------------------------------------------------------
Unresolved == {c \in Commands : rows[c] \notin {"Absent", "Succeeded", "Superseded"}}

Idle == [step |-> "Idle", kind |-> "realm", gen |-> 0, todo |-> {}, absent |-> {},
         cmd |-> NoCommand, token |-> 0, reply |-> "none"]

Init ==
    /\ generation = 1
    /\ content = 1
    /\ rows = [c \in Commands |-> "Absent"]
    /\ created = <<>>
    /\ realm_lease = [owner |-> Nobody, live |-> FALSE]
    /\ agent_lease = [owner |-> Nobody, token |-> 0, live |-> FALSE]
    /\ pass = [k \in Controllers |-> Idle]
    /\ reported = NoVersion
    /\ broken = FALSE
    /\ faults = 0
    /\ A!Init

At(k, step) == pass[k].step = step
Go(k, step) == pass' = [pass EXCEPT ![k].step = step]

Fault(f) ==
    /\ f \in Faults
    /\ faults < MaxFaults
    /\ faults' = faults + 1

HoldsRealm(k) == realm_lease.live /\ realm_lease.owner = k

HoldsAgent(k) ==
    /\ agent_lease.live
    /\ agent_lease.owner = k
    /\ agent_lease.token = pass[k].token

\* A pass ends, whatever its result, by giving the realm lease up.
Finished(k) ==
    /\ pass' = [pass EXCEPT ![k] = Idle]
    /\ realm_lease' = IF realm_lease.owner = k THEN [realm_lease EXCEPT !.live = FALSE]
                      ELSE realm_lease

\* acquire_work_lease on the agent's key: the owner of a live lease gets its
\* token again, an expired or relinquished one advances.  Past the bound on
\* tokens the lease stays busy.
\* Mutant: a lease that was let go is handed on under its old token.
NextToken_Kept == IF agent_lease.token = 0 THEN 1 ELSE agent_lease.token

NextToken == IF agent_lease.live THEN agent_lease.token ELSE agent_lease.token + 1
AgentLeaseFree(k) ==
    /\ ~agent_lease.live \/ agent_lease.owner = k
    /\ NextToken <= MaxToken

ClaimAgent(k) == agent_lease' = [owner |-> k, token |-> NextToken, live |-> TRUE]

\* AgentControlLeaseGuard::close.  A guard that is dropped instead leaves the
\* lease live until it expires: its release waits for the drain at shutdown.
CloseAgent == agent_lease' = [agent_lease EXCEPT !.live = FALSE]

-----------------------------------------------------------------------------
(***************************************************************************)
(* The canonical state.  A binding or an unbinding first advances the       *)
(* realm's generation and then changes the port, in two transactions: one   *)
(* that fails between them, or waits there, leaves the generation ahead.    *)
(***************************************************************************)
AdvanceGeneration ==
    /\ generation < MaxGeneration
    /\ generation' = generation + 1
    /\ UNCHANGED <<content, rows, created, realm_lease, agent_lease, pass,
                   reported, faults, broken, agent>>

UpdateBinding ==
    /\ content < generation
    /\ content' = content + 1
    /\ UNCHANGED <<generation, rows, created, realm_lease, agent_lease, pass,
                   reported, faults, broken, agent>>

(***************************************************************************)
(* A pass begins.  The realm's record, generation included, is read before  *)
(* the lease is taken.  A history pass only settles unresolved commands.    *)
(***************************************************************************)
Request(k, kind) ==
    /\ At(k, "Idle")
    /\ kind = "history" => Unresolved # {}
    /\ pass' = [pass EXCEPT ![k] = [Idle EXCEPT !.step = "Start", !.kind = kind,
                                               !.gen = generation]]
    /\ UNCHANGED <<generation, content, rows, created, realm_lease, agent_lease,
                   reported, faults, broken, agent>>

AcquireRealm(k) ==
    /\ At(k, "Start")
    /\ IF realm_lease.live
       THEN Finished(k)
       ELSE /\ realm_lease' = [owner |-> k, live |-> TRUE]
            /\ pass' = [pass EXCEPT ![k].step = "Observe", ![k].todo = Unresolved]
    /\ UNCHANGED <<generation, content, rows, created, agent_lease, reported,
                   faults, broken, agent>>

(***************************************************************************)
(* observe_unresolved_realm_work, one row at a time.                        *)
(***************************************************************************)
ObserveNext(k, c) ==
    /\ At(k, "Observe")
    /\ c \in pass[k].todo
    /\ IF HoldsRealm(k) /\ AgentLeaseFree(k)
       THEN /\ ClaimAgent(k)
            /\ pass' = [pass EXCEPT ![k].step = "AskConnect", ![k].cmd = c,
                                    ![k].token = NextToken]
            /\ UNCHANGED realm_lease
       ELSE Finished(k) /\ UNCHANGED agent_lease
    /\ UNCHANGED <<generation, content, rows, created, reported, faults, broken, agent>>

CanSettle(k) == HoldsAgent(k) /\ HoldsRealm(k)

\* Mutant: any answer about a command counts as its success.
Settled_Optimistic(r) == "Succeeded"

Settled(r) == IF r = "Succeeded" THEN "Succeeded" ELSE "UnknownOutcome"

Settle(k) ==
    /\ At(k, "Answered")
    /\ LET c == pass[k].cmd
           r == pass[k].reply
           done == [pass[k] EXCEPT !.step = "Observe", !.todo = @ \ {c}]
       IN  IF ~CanSettle(k) \/ r = "error"
           THEN Finished(k) /\ UNCHANGED <<rows, agent_lease>>
           ELSE /\ CloseAgent
                /\ rows' = IF r \in {"not_found", "running"} THEN rows
                           ELSE [rows EXCEPT ![c] = Settled(r)]
                /\ IF r = "Unknown" THEN Finished(k)
                   ELSE /\ pass' = [pass EXCEPT ![k] =
                              IF r = "not_found" THEN [done EXCEPT !.absent = @ \cup {c}]
                              ELSE done]
                        /\ UNCHANGED realm_lease
    /\ UNCHANGED <<generation, content, created, reported, faults, broken, agent>>

(***************************************************************************)
(* Derivation of the plan.  latest_realm_host_work walks the rows in the    *)
(* order of their creation, keeps the one with the highest generation and   *)
(* gives up on a second row of that generation.                             *)
(***************************************************************************)
Highest(i) ==
    LET gens == {created[j].ver[1] : j \in 1..(i - 1)}
    IN  IF gens = {} THEN 0 ELSE CHOOSE g \in gens : \A h \in gens : g >= h

Ambiguous == \E i \in DOMAIN created : created[i].ver[1] = Highest(i)

\* The command a pass dispatches for version v when S are the rows whose
\* command the agent does not know; NoCommand when it must give up.
Derived(v, S) ==
    IF S = {} THEN New(v)
    ELSE LET h == CHOOSE c \in S : TRUE
         IN  IF ~IsSuccessor(h) THEN [ver |-> v, old |-> h.ver]
             ELSE IF h.ver = v THEN h ELSE NoCommand

\* Mutant: other unresolved rows of the realm are not looked at.
Blocked_Never(S) == FALSE

Blocked(S) == Unresolved \ S # {}

Derive(k) ==
    /\ At(k, "Observe")
    /\ pass[k].todo = {}
    /\ LET c == Derived(<<pass[k].gen, content>>, pass[k].absent)
       IN  IF \/ pass[k].kind = "history"
              \/ ~HoldsRealm(k)
              \/ Ambiguous
              \/ c = NoCommand
              \/ Blocked(pass[k].absent)
              \/ ~AgentLeaseFree(k)
           THEN Finished(k) /\ UNCHANGED agent_lease
           ELSE /\ ClaimAgent(k)
                /\ pass' = [pass EXCEPT ![k].step = "Persist", ![k].cmd = c,
                                        ![k].token = NextToken, ![k].todo = {},
                                        ![k].reply = "none"]
                /\ UNCHANGED realm_lease
    /\ UNCHANGED <<generation, content, rows, created, reported, faults, broken, agent>>

(***************************************************************************)
(* dispatch_inner.  The row is durable before anything is sent.             *)
(***************************************************************************)
Newest(v, w) == <<IF v[1] > w[1] THEN v[1] ELSE w[1], IF v[2] > w[2] THEN v[2] ELSE w[2]>>

Report(k) == reported' = Newest(pass[k].cmd.ver, reported)

\* The row already proves the plan, itself or through its successor.
Proved(c) ==
    \/ rows[c] = "Succeeded"
    \/ rows[c] = "Superseded" /\ rows[[ver |-> c.ver, old |-> c.ver]] = "Succeeded"

\* Mutant: the superseded row is written as a plain failure.
Persisted_Failed(c) ==
    LET S == IF rows[c] = "Absent" /\ IsSuccessor(c)
             THEN [rows EXCEPT ![New(c.old)] = "Failed"] ELSE rows
    IN  [S EXCEPT ![c] = IF rows[c] = "Absent" THEN "Pending" ELSE "Retryable"]

Persisted(c) ==
    LET S == IF rows[c] = "Absent" /\ IsSuccessor(c)
             THEN [rows EXCEPT ![New(c.old)] = "Superseded"] ELSE rows
    IN  [S EXCEPT ![c] = CASE rows[c] = "Absent" -> "Pending"
                           [] rows[c] \in {"Running", "UnknownOutcome"} -> "Retryable"
                           [] OTHER -> @]

Persist(k) ==
    /\ At(k, "Persist")
    /\ LET c == pass[k].cmd
       IN  \/ /\ HoldsRealm(k)
              /\ rows[c] = "Absent" \/ IsSuccessor(c)
              /\ rows' = Persisted(c)
              /\ created' = IF rows[c] = "Absent" THEN Append(created, c) ELSE created
              /\ Go(k, "Run")
              /\ UNCHANGED <<realm_lease, reported>>
           \/ /\ HoldsRealm(k)
              /\ Proved(c)
              /\ Finished(k)
              /\ Report(k)
              /\ UNCHANGED <<rows, created>>
           \/ /\ ~HoldsRealm(k) \/ (rows[c] = "Superseded" /\ ~Proved(c))
              /\ Finished(k)
              /\ UNCHANGED <<rows, created, reported>>
    /\ UNCHANGED <<generation, content, agent_lease, faults, broken, agent>>

Run(k) ==
    /\ At(k, "Run")
    /\ IF HoldsRealm(k)
       THEN /\ rows' = [rows EXCEPT ![pass[k].cmd] = "Running"]
            /\ Go(k, "Connect")
            /\ UNCHANGED realm_lease
       ELSE Finished(k) /\ UNCHANGED rows
    /\ UNCHANGED <<generation, content, created, agent_lease, reported, faults, broken, agent>>

-----------------------------------------------------------------------------
(***************************************************************************)
(* The stream to the agent, for a command (Connect, Lease, Send, Await) and *)
(* for an observation (AskConnect, AskLease, Ask, Watch).                   *)
(***************************************************************************)
connect(k) ==
    /\ \/ /\ At(k, "Connect")
          /\ IF HoldsAgent(k) THEN Go(k, "Lease") /\ UNCHANGED realm_lease
             ELSE Finished(k)
       \/ /\ At(k, "AskConnect")
          /\ Go(k, "AskLease")
          /\ UNCHANGED realm_lease
    /\ UNCHANGED <<generation, content, rows, created, agent_lease, reported,
                   faults, broken, agent>>

\* The connection fails before anything was sent.
ConnectFails(k) ==
    /\ pass[k].step \in {"Connect", "AskConnect"}
    /\ Fault("connect")
    /\ rows' = IF At(k, "Connect") /\ CanSettle(k)
               THEN [rows EXCEPT ![pass[k].cmd] = "Retryable"] ELSE rows
    /\ Finished(k)
    /\ UNCHANGED <<generation, content, created, agent_lease, reported, broken, agent>>

SendLease(k) ==
    /\ pass[k].step \in {"Lease", "AskLease"}
    /\ A!accept_lease(pass[k].token, "ok")
    /\ Go(k, IF At(k, "Lease") THEN "Send" ELSE "Ask")
    /\ UNCHANGED <<generation, content, rows, created, realm_lease, agent_lease,
                   reported, faults, broken>>

execute(k) ==
    /\ At(k, "Send")
    /\ A!execute(pass[k].cmd, pass[k].token)
    /\ Go(k, "Await")
    /\ UNCHANGED <<generation, content, rows, created, realm_lease, agent_lease,
                   reported, faults, broken>>

observe(k) ==
    /\ At(k, "Ask")
    /\ A!observe(pass[k].cmd, pass[k].token)
    /\ Go(k, "Watch")
    /\ UNCHANGED <<generation, content, rows, created, realm_lease, agent_lease,
                   reported, faults, broken>>

ObserveRunning(k) ==
    /\ At(k, "Ask")
    /\ up
    /\ pass[k].cmd \in A!running
    /\ pass' = [pass EXCEPT ![k].step = "Answered", ![k].reply = "running"]
    /\ UNCHANGED <<generation, content, rows, created, realm_lease, agent_lease,
                   reported, faults, broken, agent>>

Answered(p, r) ==
    [p EXCEPT !.step = IF @ \in {"Lease", "Send", "Await"} THEN "Record" ELSE "Answered",
              !.reply = r]

\* The agent is down or refuses what it is sent.
Refused(k) ==
    /\ \/ pass[k].step \in {"Lease", "AskLease"} /\ (~up \/ A!StaleLease(pass[k].token))
       \/ At(k, "Send") /\ (~up \/ authority.left = 0 \/ ~A!current_authority(pass[k].token))
       \/ /\ At(k, "Ask")
          /\ ~up \/ (authority.left = 0 /\ pass[k].cmd \notin A!running)
    /\ pass' = [pass EXCEPT ![k] = Answered(pass[k], "error")]
    /\ UNCHANGED <<generation, content, rows, created, realm_lease, agent_lease,
                   reported, faults, broken, agent>>

\* The stream breaks while a reply is awaited; the agent's task goes on.
StreamBreaks(k) ==
    /\ pass[k].step \in {"Await", "Watch"}
    /\ Fault("transport")
    /\ broken' = TRUE
    /\ pass' = [pass EXCEPT ![k] = Answered(pass[k], "error")]
    /\ UNCHANGED <<generation, content, rows, created, realm_lease, agent_lease,
                   reported, agent>>

\* The agent's reply r about command c reaches the pass that asked under t.
Deliver(step, c, t, r) ==
    pass' = [k \in Controllers |->
                IF pass[k].step = step /\ pass[k].cmd = c /\ pass[k].token = t
                THEN Answered(pass[k], r) ELSE pass[k]]

AgentStep(c) ==
    /\ \/ \E t \in A!Tokens :
            /\ A!take_lane(c, t)
            /\ IF A!current_authority(t) THEN UNCHANGED pass
               ELSE Deliver("Await", c, t, "error")
       \/ A!admit_with_authority(c, "ok") /\ UNCHANGED pass
       \/ A!Refuse(c) /\ Deliver("Await", c, lane.token, "error")
       \/ A!Replay(c, "ok") /\ Deliver("Await", c, lane.token, journal'[c])
       \/ A!MarkApplying(c, "ok") /\ UNCHANGED pass
       \/ A!Mutate(c) /\ UNCHANGED pass
       \/ A!Finish(c, "ok") /\ Deliver("Await", c, lane.token, journal'[c])
       \/ \E t \in A!Tokens :
            /\ A!AnswerObserve(c, t, "ok")
            /\ Deliver("Watch", c, t, IF A!Journaled(c) THEN journal'[c] ELSE "not_found")
    /\ UNCHANGED <<generation, content, rows, created, realm_lease, agent_lease,
                   reported, faults, broken>>

Record(k) ==
    /\ At(k, "Record")
    /\ LET c == pass[k].cmd
           r == pass[k].reply
           ok == r = "Succeeded" /\ CanSettle(k)
       IN  /\ rows' = IF ~CanSettle(k) THEN rows
                      ELSE [rows EXCEPT ![c] = IF r = "error" THEN "UnknownOutcome" ELSE Settled(r)]
           /\ IF r # "error" /\ CanSettle(k) THEN CloseAgent ELSE UNCHANGED agent_lease
           /\ IF ok THEN Report(k) ELSE UNCHANGED reported
    /\ Finished(k)
    /\ UNCHANGED <<generation, content, created, faults, broken, agent>>

-----------------------------------------------------------------------------
(***************************************************************************)
(* Time and faults.  A lease in use is renewed, so its expiry is a fault;   *)
(* one that nobody uses just expires.                                       *)
(***************************************************************************)
InUse(lease) == lease.owner # Nobody /\ ~At(lease.owner, "Idle")

Expire ==
    /\ \/ /\ realm_lease.live
          /\ realm_lease' = [realm_lease EXCEPT !.live = FALSE]
          /\ IF InUse(realm_lease) THEN Fault("expiry") ELSE UNCHANGED faults
          /\ UNCHANGED agent_lease
       \/ /\ agent_lease.live
          /\ agent_lease' = [agent_lease EXCEPT !.live = FALSE]
          /\ IF InUse(agent_lease) THEN Fault("expiry") ELSE UNCHANGED faults
          /\ UNCHANGED realm_lease
    /\ UNCHANGED <<generation, content, rows, created, pass, reported, broken, agent>>

Tick ==
    /\ authority.left > 0
    /\ Fault("tick")
    /\ A!Tick
    /\ UNCHANGED <<generation, content, rows, created, realm_lease, agent_lease,
                   pass, reported, broken>>

ControllerCrash(k) ==
    /\ ~At(k, "Idle")
    /\ Fault("controller")
    /\ pass' = [pass EXCEPT ![k] = Idle]
    /\ realm_lease' = [realm_lease EXCEPT !.owner = IF @ = k THEN Nobody ELSE @]
    /\ agent_lease' = [agent_lease EXCEPT !.owner = IF @ = k THEN Nobody ELSE @]
    /\ UNCHANGED <<generation, content, rows, created, reported, broken, agent>>

AgentCrash ==
    /\ Fault("agent")
    /\ A!Crash
    /\ pass' = [k \in Controllers |->
                  IF pass[k].step \in {"Await", "Watch"} THEN Answered(pass[k], "error")
                  ELSE pass[k]]
    /\ UNCHANGED <<generation, content, rows, created, realm_lease, agent_lease, reported, broken>>

AgentOpen ==
    /\ A!open(A!Pending)
    /\ UNCHANGED control

-----------------------------------------------------------------------------
PassStep(k) ==
    \/ AcquireRealm(k)
    \/ \E c \in pass[k].todo : ObserveNext(k, c)
    \/ Settle(k)
    \/ Derive(k)
    \/ Persist(k)
    \/ Run(k)
    \/ connect(k)
    \/ SendLease(k)
    \/ execute(k)
    \/ observe(k)
    \/ ObserveRunning(k)
    \/ Refused(k)
    \/ Record(k)

FaultStep ==
    \/ \E k \in Controllers : ConnectFails(k)
    \/ \E k \in Controllers : StreamBreaks(k)
    \/ \E k \in Controllers : ControllerCrash(k)
    \/ Tick
    \/ AgentCrash

\* Only commands that the agent has met can move it.
Met == {c \in Commands : rows[c] # "Absent"}

Next ==
    \/ AdvanceGeneration
    \/ UpdateBinding
    \/ \E k \in Controllers, kind \in {"realm", "history"} : Request(k, kind)
    \/ \E k \in Controllers : PassStep(k)
    \/ \E c \in Met : AgentStep(c)
    \/ AgentOpen
    \/ Expire
    \/ FaultStep

Spec == Init /\ [][Next]_vars

\* Tasks of the controllers and of the agent are run; the recovery loop starts
\* a reconciliation at least every 15 seconds; a change that has advanced the
\* generation is completed.
Fairness ==
    /\ WF_vars(UpdateBinding)
    /\ WF_vars(AgentOpen)
    /\ WF_vars(\E c \in Met : AgentStep(c))
    /\ \A k \in Controllers : WF_vars(PassStep(k)) /\ SF_vars(Request(k, "realm"))

FairSpec == Spec /\ Fairness

-----------------------------------------------------------------------------
Steps == {"Idle", "Start", "Observe", "AskConnect", "AskLease", "Ask", "Watch",
          "Answered", "Persist", "Run", "Connect", "Lease", "Send", "Await", "Record"}

\* Type correctness of the durable rows, the leases and the passes.
TypeOK ==
    /\ generation \in Generations
    /\ content \in Generations
    /\ rows \in [Commands -> {"Absent", "Pending", "Running", "Retryable",
                              "UnknownOutcome", "Succeeded", "Superseded"}]
    /\ \A i \in DOMAIN created : created[i] \in Commands
    /\ realm_lease.owner \in Controllers \cup {Nobody}
    /\ agent_lease.token \in 0..MaxToken
    /\ \A k \in Controllers : /\ pass[k].step \in Steps
                              /\ pass[k].cmd \in Commands \cup {NoCommand}
                              /\ pass[k].token \in 0..MaxToken
    /\ A!TypeOK

\* The host never goes back to an older plan, neither to an older generation nor
\* to an older state of the endpoints, although controllers read the generation
\* before they have the realm's lease and the endpoints under it, lose their
\* leases in the middle of a pass and supersede each other's commands.
PlansAdvance == [][NotOlder(host, host')]_vars

\* What a pass reported as reconciled is on the host, or something newer: a
\* success recorded by an earlier pass may be reported again at any time
\* without asking the agent.
ReportedIsHeld == NotOlder(reported, host)

\* The realm has at most one command whose outcome is open, across crashes
\* and lost leases: the next command is created only once the last is
\* settled, or in the transaction that supersedes it.
OneUnresolved == Cardinality(Unresolved) <= 1

\* A command that was superseded is not admitted, then or later ("after the
\* authoritative agent has proved that the historical command was never
\* admitted"), unless a stream broke: the lease guard is then dropped and the
\* next pass asks under the token of a command that is still queued.
SupersededNotAdmitted ==
    ~broken => \A c \in Commands : rows[c] = "Superseded" => journal[c] = "Absent"

\* A controller that is told "not_found" about a command may supersede it: the
\* command is never admitted later under a smaller token, although a task of a
\* displaced controller may wait in the agent's queue as the answer is given
\* (NetworkAgentService::observe takes the lane).
NotFoundFences ==
    [][\A c \in Commands :
          journal[c] = "Absent" /\ journal'[c] # "Absent" => lane.token >= not_found[c]]_vars

\* Once the canonical state stays, the host comes to hold it ("the bounded
\* interval also retries transiently unavailable agents").  Behaviours that
\* run into the bound on tokens are left aside.
RealmConverges == <>[](host[2] = content) \/ <>(agent_lease.token = MaxToken)

\* The plan and the ownership that the provider of the host has on disk are of one
\* generation: a provider that finds them to differ does not open
\* (linux_fabric/mod.rs, validate_loaded_state: "plan.directory_generation !=
\* ownership.directory_generation" is CorruptState).
FilesAgree == A!validate_loaded_state
=============================================================================
