---------------------------- MODULE NetworkAgent ----------------------------
(***************************************************************************)
(* The network agent of one host: NetworkAgentService                       *)
(* (bins/o3k-network/src/agent.rs) over NetworkPlanExecutor                 *)
(* (crates/o3k-network/src/execution.rs).                                   *)
(*                                                                          *)
(* The provider of a realm (crates/o3k-network/src/linux_fabric) keeps two  *)
(* files, the plan it was last given and the ownership of what it set up;   *)
(* it refuses a plan of an older generation than the ownership.             *)
(*                                                                          *)
(* Controllers present leases with a fencing token, send commands under a   *)
(* token and ask what became of a command.  Every request runs on a task of *)
(* its own; the runtime mutex (the lane) serialises admission, mutation and *)
(* observation, but not the acceptance of leases.  The lease and the        *)
(* journal of admitted commands are files; the journal is read from its     *)
(* file by every call, so it has no copy in memory.                         *)
(*                                                                          *)
(* A token stands for the controller session that holds it: on the agents'  *)
(* work keys the coordination store never gives one token to two sessions   *)
(* (WorkLease!HandoffFenceUnique), so the comparison of the controller's    *)
(* name and epoch never decides.  A lease is live while its `left' > 0.     *)
(***************************************************************************)
EXTENDS Naturals, FiniteSets

CONSTANTS
    Commands,     \* command identities
    NoCommand,    \* the lane is free
    Effect,       \* what the host holds once a command is realised
    Rank,         \* the realm generation of a command's plan
    Held,         \* the realm generation of what a host holds, 0 for nothing
    Identity,     \* a command's (operation, plan, action), shared by attempts
    Initial,      \* what the host holds at first
    Partial,      \* a host left half-way by a failed mutation
    MaxToken,     \* bound: the highest fencing token that is presented
    TTL,          \* the remaining time of a lease as it is presented
    WriteFaults,  \* how a file write may fail: subset of {"lost", "late"}
    HostFaults,   \* may the host fail, be unreadable or miss a deadline?
    MaxRuns,      \* bound on the mutation counter of one operation
    MaxTasks      \* bound on the requests that wait for the lane at once

ASSUME CommandsAssumption == NoCommand \notin Commands
ASSUME TokenAssumption == MaxToken \in Nat /\ TTL \in Nat \ {0}
ASSUME RunsAssumption == MaxRuns \in Nat \ {0} /\ MaxTasks \in Nat \ {0}
ASSUME FaultsAssumption == WriteFaults \subseteq {"lost", "late"} /\ HostFaults \in BOOLEAN

VARIABLES
    up,          \* the agent process serves
    authority,   \* the controller lease in memory
    disk_lease,  \* controller-lease.json
    journal,     \* accepted-network-plans.json: the status of each command
    queued,      \* execute tasks waiting for the lane, by command and token
    observing,   \* observe tasks waiting for the lane
    lane,        \* the execute task that owns the runtime mutex
    host,        \* what the host holds for the realm, as ownership.json says
    plan_file,   \* plans/<realm>.json: the plan the provider was last given
    runs,        \* history: how often each operation mutated the host
    fence,       \* history: the highest token a command was admitted under
    not_found    \* history: the highest token told "not_found" per command

vars == <<up, authority, disk_lease, journal, queued, observing, lane, host,
          plan_file, runs, fence, not_found>>

-----------------------------------------------------------------------------
Tokens == 1..MaxToken
Operations == {Identity[c] : c \in Commands}
Requests == Commands \X Tokens
NoLease == [token |-> 0, left |-> 0]
Free == [cmd |-> NoCommand, token |-> 0, step |-> "Free"]
Plans == {Effect[c] : c \in Commands} \cup {Initial, Partial}
provider == <<host, plan_file>>
Statuses == {"Absent", "Accepted", "Applying", "Succeeded", "Unknown"}

\* Every request is a task of its own; the model bounds the waiting ones.
TaskLeft == Cardinality(queued) + Cardinality(observing) < MaxTasks

Max2(a, b) == IF a >= b THEN a ELSE b

\* A file is replaced by rename: the write succeeds, fails before the rename
\* (lost), or fails in the directory sync after it (late).
Writes == {"ok"} \cup WriteFaults
Written(old, new, w) == IF w = "lost" THEN old ELSE new

Init ==
    /\ up = FALSE
    /\ authority = NoLease
    /\ disk_lease = NoLease
    /\ journal = [c \in Commands |-> "Absent"]
    /\ queued = {}
    /\ observing = {}
    /\ lane = Free
    /\ host = Initial
    /\ plan_file = Initial
    /\ runs = [o \in Operations |-> 0]
    /\ fence = 0
    /\ not_found = [c \in Commands |-> 0]

history == <<runs, fence, not_found>>

(***************************************************************************)
(* Leases.  Smaller tokens are refused, and so is the current token once    *)
(* its lease has expired.  The file is written before the lease takes       *)
(* effect; when the write fails the caller gets an error and the lease in   *)
(* memory stays.                                                            *)
(***************************************************************************)
StaleLease(t) ==
    \/ t < authority.token
    \/ t = authority.token /\ authority.left = 0

accept_lease(t, w) ==
    /\ up
    /\ w # "lost"
    /\ ~StaleLease(t)
    /\ LET lease == [token |-> t, left |-> TTL]
       IN  /\ disk_lease' = lease
           /\ authority' = IF w = "ok" THEN lease ELSE authority
    /\ UNCHANGED <<up, journal, queued, observing, lane, provider, history>>

\* Mutant: the remaining time runs on below zero.
Elapse_Underflow(l) == [l EXCEPT !.left = @ - 1]

Elapse(l) == [l EXCEPT !.left = IF @ = 0 THEN 0 ELSE @ - 1]

\* The clock advances for both copies of the lease.
Tick ==
    /\ authority' = Elapse(authority)
    /\ disk_lease' = Elapse(disk_lease)
    /\ UNCHANGED <<up, journal, queued, observing, lane, provider, history>>

(***************************************************************************)
(* Observation of a journaled command.  A realised command stays so;        *)
(* any other becomes Succeeded when the host is seen to hold its plan and   *)
(* Unknown otherwise, also when the host cannot be read.  Nothing is        *)
(* mutated.                                                                 *)
(***************************************************************************)
Pending == {c \in Commands : journal[c] \notin {"Absent", "Succeeded"}}

\* Mutant: an observation believes a command that was being applied.
Observed_Trusting(c) == {"Unknown", "Succeeded"}

Observed(c) ==
    {s \in {"Unknown"} : HostFaults \/ host # Effect[c]}
        \cup {s \in {"Succeeded"} : host = Effect[c]}

reconcile(c, w) ==
    IF journal[c] = "Succeeded" THEN journal' = journal
    ELSE \E s \in Observed(c) :
            journal' = Written(journal, [journal EXCEPT ![c] = s], w)

(***************************************************************************)
(* execute.  The authority is checked when the request arrives and again    *)
(* once the task owns the lane.  The second check uses the clock reading    *)
(* of the first.  A lease with the same token that is in force then either  *)
(* was in force at the first check or was unexpired when it was accepted    *)
(* later, so with that reading it is never expired: only the token decides. *)
(* The journal is written after the authority lock is released.             *)
(***************************************************************************)
current_authority(t) == authority.token = t

execute(c, t) ==
    /\ up
    /\ TaskLeft
    /\ authority.left > 0
    /\ current_authority(t)
    /\ queued' = queued \cup {<<c, t>>}
    /\ UNCHANGED <<up, authority, disk_lease, journal, observing, lane, provider, history>>

take_lane(c, t) ==
    /\ <<c, t>> \in queued
    /\ lane = Free
    /\ queued' = queued \ {<<c, t>>}
    /\ lane' = IF current_authority(t)
               THEN [cmd |-> c, token |-> t, step |-> "Checked"] ELSE Free
    /\ UNCHANGED <<up, authority, disk_lease, journal, observing, provider, history>>

At(c, step) == lane.cmd = c /\ lane.step = step

\* Mutant: a command that is not finished is admitted again.
Journaled_Succeeded(c) == journal[c] = "Succeeded"

Journaled(c) == journal[c] # "Absent"

Conflicts(c) ==
    \E d \in Commands \ {c} : Journaled(d) /\ Identity[d] = Identity[c]

\* A new command becomes durable before anything is done about it.
admit_with_authority(c, w) ==
    /\ At(c, "Checked")
    /\ ~Journaled(c)
    /\ ~Conflicts(c)
    /\ journal' = Written(journal, [journal EXCEPT ![c] = "Accepted"], w)
    /\ fence' = IF w = "lost" THEN fence ELSE Max2(fence, lane.token)
    /\ lane' = IF w = "ok" THEN [lane EXCEPT !.step = "Admitted"] ELSE Free
    /\ UNCHANGED <<up, authority, disk_lease, queued, observing, provider, runs, not_found>>

\* Another attempt of the same operation is journaled, or the deadline has
\* passed: an error and no trace.
Refuse(c) ==
    /\ At(c, "Checked")
    /\ ~Journaled(c)
    /\ Conflicts(c) \/ HostFaults
    /\ lane' = Free
    /\ UNCHANGED <<up, authority, disk_lease, journal, queued, observing, provider, history>>

\* A command that is journaled already is observed, never run again.
Replay(c, w) ==
    /\ At(c, "Checked")
    /\ Journaled(c)
    /\ reconcile(c, w)
    /\ lane' = Free
    /\ UNCHANGED <<up, authority, disk_lease, queued, observing, provider, history>>

\* execute_admitted, in three steps.  The command is in the running set from
\* the first to the last; a failed write ends it early.
MarkApplying(c, w) ==
    /\ At(c, "Admitted")
    /\ journal' = Written(journal, [journal EXCEPT ![c] = "Applying"], w)
    /\ lane' = IF w = "ok" THEN [lane EXCEPT !.step = "Applying"] ELSE Free
    /\ UNCHANGED <<up, authority, disk_lease, queued, observing, provider, history>>

\* Mutant: the generation of what the host holds is not looked at.
StalePlan_Never(c) == FALSE

\* The plan is of an older generation than what the host holds.
StalePlan(c) == Rank[c] < Held[host]

\* apply writes the plan before it looks at the generation, remove after.  A
\* failure may leave the files anywhere between the two.
Mutate(c) ==
    /\ At(c, "Applying")
    /\ runs[Identity[c]] < MaxRuns
    /\ runs' = [runs EXCEPT ![Identity[c]] = @ + 1]
    /\ \/ /\ ~StalePlan(c)
          /\ host' = Effect[c]
          /\ plan_file' = Effect[c]
          /\ lane' = [lane EXCEPT !.step = "Applied"]
       \/ /\ StalePlan(c)
          /\ plan_file' = IF Held[Effect[c]] = 0 THEN plan_file ELSE Effect[c]
          /\ lane' = [lane EXCEPT !.step = "Failed"]
          /\ UNCHANGED host
       \/ /\ HostFaults
          /\ ~StalePlan(c)
          /\ host' \in {host, Effect[c], Partial}
          /\ plan_file' \in {plan_file, Effect[c]}
          /\ lane' = [lane EXCEPT !.step = "Failed"]
    /\ UNCHANGED <<up, authority, disk_lease, journal, queued, observing, fence, not_found>>

Finish(c, w) ==
    /\ lane.cmd = c
    /\ lane.step \in {"Applied", "Failed"}
    /\ LET s == IF lane.step = "Applied" THEN "Succeeded" ELSE "Unknown"
       IN  journal' = Written(journal, [journal EXCEPT ![c] = s], w)
    /\ lane' = Free
    /\ UNCHANGED <<up, authority, disk_lease, queued, observing, provider, history>>

running == {c \in Commands : lane.cmd = c /\ lane.step \in {"Applying", "Applied", "Failed"}}

(***************************************************************************)
(* observe, by a stream whose lease with token t was acknowledged, so that  *)
(* the authority is at t or beyond.  A command in the running set is        *)
(* answered at once; any other waits for the lane.                          *)
(***************************************************************************)
\* Mutant: the observation is answered without the lane.
LaneForObserve_None == TRUE

LaneForObserve == lane = Free

observe(c, t) ==
    /\ up
    /\ TaskLeft
    /\ c \notin running
    /\ t <= authority.token
    /\ authority.left > 0
    /\ observing' = observing \cup {<<c, t>>}
    /\ UNCHANGED <<up, authority, disk_lease, journal, queued, lane, provider, history>>

AnswerObserve(c, t, w) ==
    /\ <<c, t>> \in observing
    /\ LaneForObserve
    /\ observing' = observing \ {<<c, t>>}
    /\ IF Journaled(c)
       THEN reconcile(c, w) /\ UNCHANGED not_found
       ELSE /\ not_found' = [not_found EXCEPT ![c] = Max2(@, t)]
            /\ UNCHANGED journal
    /\ UNCHANGED <<up, authority, disk_lease, queued, lane, provider, runs, fence>>

(***************************************************************************)
(* Crash and startup.  The lease comes back from its file; every command    *)
(* not known to have succeeded is observed before the agent serves.  A      *)
(* write that fails ends the process with some of them observed.            *)
(***************************************************************************)
Crash ==
    /\ up
    /\ up' = FALSE
    /\ authority' = NoLease
    /\ queued' = {}
    /\ observing' = {}
    /\ lane' = Free
    /\ UNCHANGED <<disk_lease, journal, provider, history>>

\* Mutant: the lease is not read back.
load_lease_None == NoLease

load_lease == disk_lease

reconcile_pending(S) ==
    \E seen \in [S -> {"Unknown", "Succeeded"}] :
        /\ \A c \in S : seen[c] \in Observed(c)
        /\ journal' = [c \in Commands |-> IF c \in S THEN seen[c] ELSE journal[c]]

\* validate_loaded_state: the provider does not open files that disagree.
validate_loaded_state == Held[host] # 0 => Held[plan_file] = Held[host]

open(S) ==
    /\ ~up
    /\ validate_loaded_state
    /\ S \subseteq Pending
    /\ S # Pending => WriteFaults # {}
    /\ reconcile_pending(S)
    /\ IF S = Pending
       THEN up' = TRUE /\ authority' = load_lease
       ELSE UNCHANGED <<up, authority>>
    /\ UNCHANGED <<disk_lease, queued, observing, lane, provider, history>>

-----------------------------------------------------------------------------
ExecuteStep(c) ==
    \/ \E t \in Tokens : execute(c, t)
    \/ \E t \in Tokens : take_lane(c, t)
    \/ \E w \in Writes : admit_with_authority(c, w)
    \/ Refuse(c)
    \/ \E w \in Writes : Replay(c, w)
    \/ \E w \in Writes : MarkApplying(c, w)
    \/ Mutate(c)
    \/ \E w \in Writes : Finish(c, w)

ObserveStep(c) ==
    \/ \E t \in Tokens : observe(c, t)
    \/ \E t \in Tokens, w \in Writes : AnswerObserve(c, t, w)

Next ==
    \/ \E t \in Tokens, w \in Writes : accept_lease(t, w)
    \/ Tick
    \/ \E c \in Commands : ExecuteStep(c)
    \/ \E c \in Commands : ObserveStep(c)
    \/ Crash
    \/ \E S \in SUBSET Commands : open(S)

Spec == Init /\ [][Next]_vars

-----------------------------------------------------------------------------
Leases == [token : 0..MaxToken, left : 0..TTL]

\* Type correctness of the agent's memory, its two files and the histories.
TypeOK ==
    /\ up \in BOOLEAN
    /\ authority \in Leases
    /\ disk_lease \in Leases
    /\ journal \in [Commands -> Statuses]
    /\ queued \subseteq Requests
    /\ observing \subseteq Requests
    /\ lane \in [cmd : Commands \cup {NoCommand}, token : 0..MaxToken,
                 step : {"Free", "Checked", "Admitted", "Applying", "Applied", "Failed"}]
    /\ host \in Plans
    /\ plan_file \in Plans
    /\ runs \in [Operations -> 0..MaxRuns]
    /\ fence \in 0..MaxToken
    /\ not_found \in [Commands -> 0..MaxToken]

\* An operation mutates the host at most once, through one of its attempts: not
\* again when it is delivered again, under the same or a later controller, nor
\* after a crash or a failed journal write ("mutation is never repeated during
\* recovery").
MutatedAtMostOnce == \A o \in Operations : runs[o] <= 1

(***************************************************************************)
(* The agent as an at-most-once executor of operations: one may still       *)
(* change the host while none of its attempts is journaled, or while the    *)
(* admitted attempt in the lane has not come to the mutation.               *)
(***************************************************************************)
MayMutate(o) ==
    \/ \A c \in Commands : Identity[c] = o => ~Journaled(c)
    \/ \E c \in Commands : /\ Identity[c] = o
                          /\ lane.cmd = c
                          /\ lane.step \in {"Admitted", "Applying"}

Once == INSTANCE OnceExecutor WITH pending <- {o \in Operations : MayMutate(o)}, told <- {}

\* The agent implements the at-most-once executor: an operation whose command
\* was journaled and then lost to a crash or a failed write is over, whatever
\* is delivered later.
ImplementsOnceExecutor == Once!Spec

\* Commands are admitted in the order of their fencing tokens, although the
\* authority is not locked between its last check and the admission, and
\* across crashes and failed writes of the lease: once a successor's command
\* is in, nothing of a displaced controller follows it onto the host.
AdmissionsFollowFence ==
    [][\A c \in Commands :
          journal[c] = "Absent" /\ journal'[c] # "Absent" => lane.token >= fence]_vars

\* An answer "not_found" to a controller fences out its predecessors: the
\* command it asked about is never admitted later under a smaller token, even
\* if a task of the displaced controller waits for the lane meanwhile.
NotFoundFences ==
    [][\A c \in Commands :
          journal[c] = "Absent" /\ journal'[c] # "Absent" => lane.token >= not_found[c]]_vars

\* A command is recorded as succeeded only while the host holds its plan.
SuccessIsRealised ==
    [][\A c \in Commands :
          journal[c] # "Succeeded" /\ journal'[c] = "Succeeded" => host = Effect[c]]_vars

\* No command is admitted once a lease with a higher token was accepted ("a
\* command queued before takeover cannot cross admission afterward").
TakeoverStopsAdmission ==
    [][\A c \in Commands :
          journal[c] = "Absent" /\ journal'[c] # "Absent" => lane.token = authority.token]_vars
=============================================================================
