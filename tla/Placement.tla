----------------------------- MODULE Placement -----------------------------
(***************************************************************************)
(* Capacity: the placement ledger of crates/o3k-placement, its tables in    *)
(* crates/o3k-store/src/sqlite/placement.rs, and everyone who writes them:  *)
(* the create requests of crates/o3k-compute and crates/o3k-scheduler, the  *)
(* deletes, the inventory publisher, the operator's gates and the startup   *)
(* pass of o3kd.                                                            *)
(*                                                                          *)
(* One step is one read or one transaction of the store.  A server's        *)
(* allocation and intent have one identity each, derived from the server,   *)
(* so that alloc and intent are functions of it.  The resource classes are  *)
(* reserved together: one amount stands for them.  The idempotency key of a *)
(* create determines its server; creates with one key may differ in content *)
(* but not in size.  A create of the API is canonical: it is answered from  *)
(* the reservation of its key.  The older calls, and the rows they left,    *)
(* are not.  Servers have different names: the two name checks of a create  *)
(* are not modelled, and neither are failures of the store, but for the one *)
(* fault named for it.                                                      *)
(***************************************************************************)
EXTENDS Naturals, FiniteSets, FiniteSetsExt

CONSTANTS
    Providers,  \* the resource providers, one per compute agent
    Servers,    \* the servers
    Requests,   \* the create requests
    ServerOf,   \* the server of each request: equal idempotency keys, equal servers
    Bodies,     \* what a create may ask for
    Contents,   \* what each request may be: canonical or not, and its body
    Size,       \* what a server takes of its provider
    Totals,     \* the capacities an agent may report
    None,       \* no provider, no body
    Faults,     \* which of the events below happen
    MaxFaults,  \* bound: how many of them
    MaxLives    \* bound: how often a server is created anew after a delete

ASSUME SizeAssumption == Size \in [Servers -> Nat \ {0}]
ASSUME TotalsAssumption == Totals \subseteq Nat
ASSUME RequestsAssumption == ServerOf \in [Requests -> Servers]
ASSUME ContentsAssumption == Contents \in [Requests -> SUBSET [canonical : BOOLEAN, body : Bodies]]
ASSUME NoneAssumption == None \notin Providers /\ None \notin Bodies
ASSUME BoundsAssumption == MaxFaults \in Nat /\ MaxLives \in Nat \ {0}
ASSUME FiniteAssumption == IsFiniteSet(Servers) /\ IsFiniteSet(Requests)

VARIABLES
    state, total, used, gen,  \* placement_providers and placement_inventories
    alloc,      \* placement_allocations: the provider a server's capacity is on
    intent,     \* placement_allocation_intents: the provider it is sought on
    row,        \* the compute_instance rows
    reserved,   \* idempotency_reservations: the body a server's key is taken with
    quota,      \* quota_reservations, one per create operation
    pc, ask,    \* the create requests: where each is, what it is,
    mem,        \* and what it has read
    del,        \* the delete of each server
    agent,      \* what the registry says of each agent
    report,     \* what the inventory publisher is about to publish
    pass,       \* the startup pass and the consumers it has listed
    disturbed,  \* history: servers whose creates an exempted event has met
    crashed,    \* history: a create died
    faults      \* how many bounded events have happened

provider == <<state, total, used, gen>>
ledger == <<provider, alloc, intent>>
requests == <<pc, ask, mem>>
rows == <<row, reserved>>
vars == <<ledger, rows, quota, requests, del, agent, report, pass, disturbed, crashed, faults>>

States == {"Enabled", "Draining", "Unavailable", "Deleted"}
Lives == 0..MaxLives
NoRow == [state |-> "none", provider |-> None, life |-> 0, body |-> None]
NoAsk == [canonical |-> FALSE, body |-> None, op |-> 0]
NoDelete == [pc |-> "none", provider |-> None, life |-> 0]
NoReport == [state |-> "none", total |-> 0]
NoPick == [provider |-> None, gen |-> 0]
NoPass == [on |-> FALSE, live |-> {}]

\* What a request remembers: the life of the row it found, the agents that can take
\* work, the candidates not yet tried, the one it tries and the one it settled on.
Memory(life, selected, candidates, pick, decision) ==
    [life |-> life, selected |-> selected, candidates |-> candidates, pick |-> pick,
     decision |-> decision]
NoMemory == Memory(0, {}, {}, NoPick, None)

Init ==
    /\ \E t \in Totals \ {0} :
          /\ total = [p \in Providers |-> t]
          /\ agent = [p \in Providers |-> [state |-> "Enabled", total |-> t, new |-> FALSE]]
    /\ state = [p \in Providers |-> "Enabled"]
    /\ used = [p \in Providers |-> 0]
    /\ gen = [p \in Providers |-> 1]
    /\ alloc = [s \in Servers |-> None]
    /\ intent = [s \in Servers |-> None]
    /\ row = [s \in Servers |-> NoRow]
    /\ reserved = [s \in Servers |-> None]
    /\ quota = [o \in Servers \X Lives |-> "none"]
    /\ pc = [r \in Requests |-> "new"]
    /\ ask = [r \in Requests |-> NoAsk]
    /\ mem = [r \in Requests |-> NoMemory]
    /\ del = [s \in Servers |-> NoDelete]
    /\ report = [p \in Providers |-> NoReport]
    /\ pass = NoPass
    /\ disturbed = {}
    /\ crashed = FALSE
    /\ faults = 0

(***************************************************************************)
(* The ledger's transactions.                                               *)
(***************************************************************************)
Available(p) == IF total[p] > used[p] THEN total[p] - used[p] ELSE 0

Allocated(p, al) == MapThenSumSet(LAMBDA s : Size[s], {s \in DOMAIN al : al[s] = p})

SetState_NoBump(p, st) ==
    /\ state' = [state EXCEPT ![p] = st]
    /\ UNCHANGED <<gen, total, used, alloc, intent>>

\* set_provider_state bumps the generation like every other write.
SetState(p, st) ==
    /\ state' = [state EXCEPT ![p] = st]
    /\ gen' = [gen EXCEPT ![p] = @ + 1]
    /\ UNCHANGED <<total, used, alloc, intent>>

\* sync_provider: a reported Enabled does not reopen a closed provider, and what
\* is used is recomputed from the allocations.
sync_provider(p, rep) ==
    /\ state' = [state EXCEPT ![p] =
          IF @ \in {"Draining", "Deleted"} /\ rep.state = "Enabled" THEN @ ELSE rep.state]
    /\ total' = [total EXCEPT ![p] = rep.total]
    /\ used' = [used EXCEPT ![p] = Allocated(p, alloc)]
    /\ gen' = [gen EXCEPT ![p] = @ + 1]
    /\ UNCHANGED <<alloc, intent>>

\* The part of commit_allocation that writes.
Commit(p, s) ==
    /\ used' = [used EXCEPT ![p] = @ + Size[s]]
    /\ gen' = [gen EXCEPT ![p] = @ + 1]
    /\ alloc' = [alloc EXCEPT ![s] = p]
    /\ UNCHANGED <<state, total, intent>>

release_allocation_Twice(p, s) ==
    /\ alloc' = [alloc EXCEPT ![s] = None]
    /\ used' = [used EXCEPT ![p] = @ - Size[s]]
    /\ gen' = [gen EXCEPT ![p] = @ + 1]
    /\ UNCHANGED <<state, total, intent>>

release_allocation_AnyProvider(p, s) ==
    /\ IF alloc[s] # None
       THEN /\ alloc' = [alloc EXCEPT ![s] = None]
            /\ used' = [used EXCEPT ![p] = IF @ > Size[s] THEN @ - Size[s] ELSE 0]
            /\ gen' = [gen EXCEPT ![p] = @ + 1]
       ELSE UNCHANGED <<alloc, used, gen>>
    /\ UNCHANGED <<state, total, intent>>

\* release_allocation: only the owning provider's allocation, once.
release_allocation(p, s) ==
    /\ IF alloc[s] = p
       THEN /\ alloc' = [alloc EXCEPT ![s] = None]
            /\ used' = [used EXCEPT ![p] = IF @ > Size[s] THEN @ - Size[s] ELSE 0]
            /\ gen' = [gen EXCEPT ![p] = @ + 1]
       ELSE UNCHANGED <<alloc, used, gen>>
    /\ UNCHANGED <<state, total, intent>>

(***************************************************************************)
(* A create request: create_server_for_user_with_context.                   *)
(***************************************************************************)
S(r) == ServerOf[r]
Op(r) == <<S(r), ask[r].op>>
At(r, place) == pc[r] = place
InFlight(r) == pc[r] \notin {"new", "done"}
Shared(s) == Cardinality({r \in Requests : S(r) = s /\ pc[r] # "done"}) > 1
Live(s) == row[s].state \in {"requested", "active"}

Goto(r, place) ==
    /\ pc' = [pc EXCEPT ![r] = place]
    /\ UNCHANGED <<ask, mem>>

Done(r) ==
    /\ pc' = [pc EXCEPT ![r] = "done"]
    /\ ask' = [ask EXCEPT ![r] = NoAsk]
    /\ mem' = [mem EXCEPT ![r] = NoMemory]

\* The capacity is decided: what led to it is not looked at again.
Decide(r, p) ==
    /\ pc' = [pc EXCEPT ![r] = "reserve"]
    /\ mem' = [mem EXCEPT ![r] = Memory(mem[r].life, {}, {}, NoPick, p)]
    /\ UNCHANGED ask

Fault(f) == f \in Faults /\ faults < MaxFaults /\ faults' = faults + 1

\* The first look at the row gives the identity of the operation the quota is
\* reserved under: that of the create of a live row, or of the next create.
CreateOp(rw) == IF rw.state \in {"none", "deleted"} THEN rw.life ELSE rw.life - 1

Identify(r) ==
    /\ At(r, "new")
    /\ \E kind \in Contents[r] :
          ask' = [ask EXCEPT ![r] = [canonical |-> kind.canonical, body |-> kind.body,
                                     op |-> CreateOp(row[S(r)])]]
    /\ pc' = [pc EXCEPT ![r] = "lookup"]
    /\ UNCHANGED mem
    /\ UNCHANGED <<ledger, rows, quota, del, agent, report, pass, disturbed, crashed, faults>>

\* A canonical create is answered from the reservation of its key, equal or not.
Probe(r) ==
    /\ At(r, "lookup")
    /\ ask[r].canonical
    /\ IF reserved[S(r)] # None THEN Done(r) ELSE Goto(r, "read")
    /\ UNCHANGED <<ledger, rows, quota, del, agent, report, pass, disturbed, crashed, faults>>

\* Any other create looks at the row a second time: a live one answers it, equal or
\* not, and a tombstone is created anew.
Lookup(r) ==
    /\ At(r, "lookup")
    /\ ~ask[r].canonical
    /\ IF row[S(r)].state \notin {"none", "deleted"}
       THEN Done(r)
       ELSE /\ row[S(r)].life < MaxLives
            /\ pc' = [pc EXCEPT ![r] = "read"]
            /\ mem' = [mem EXCEPT ![r] = Memory(row[S(r)].life, {}, {}, NoPick, None)]
            /\ UNCHANGED ask
    /\ UNCHANGED <<ledger, rows, quota, del, agent, report, pass, disturbed, crashed, faults>>

\* schedule_internal reads the providers of the agents that can take work.
ReadProviders(r) ==
    /\ At(r, "read")
    /\ LET selected == {p \in Providers : agent[p].state = "Enabled"}
           fit == {p \in selected : state[p] = "Enabled" /\ Available(p) >= Size[S(r)]}
           read == {[provider |-> p, gen |-> gen[p], free |-> Available(p)] : p \in fit}
       IN mem' = [mem EXCEPT ![r] = Memory(mem[r].life, selected, read, NoPick, None)]
    /\ pc' = [pc EXCEPT ![r] = "intent"]
    /\ UNCHANGED ask
    /\ UNCHANGED <<ledger, rows, quota, del, agent, report, pass, disturbed, crashed, faults>>

\* The candidate with most free capacity first; equals are taken in any order.
Best(r) == {c \in mem[r].candidates : \A d \in mem[r].candidates : d.free <= c.free}

\* begin_allocation_intent: an equal intent is kept, a different one conflicts.
BeginIntent(r) ==
    /\ At(r, "intent")
    /\ \/ /\ mem[r].candidates = {}
          /\ Goto(r, "reobserve")
          /\ UNCHANGED ledger
       \/ \E c \in Best(r) :
             /\ pc' = [pc EXCEPT ![r] =
                   IF intent[S(r)] \in {None, c.provider} THEN "check" ELSE "reobserve"]
             /\ mem' = [mem EXCEPT ![r] = Memory(mem[r].life, mem[r].selected,
                   mem[r].candidates \ {c}, [provider |-> c.provider, gen |-> c.gen], None)]
             /\ UNCHANGED ask
             /\ intent' = [intent EXCEPT ![S(r)] = IF @ = None THEN c.provider ELSE @]
             /\ UNCHANGED <<provider, alloc>>
    /\ UNCHANGED <<rows, quota, del, agent, report, pass, disturbed, crashed, faults>>

\* commit_allocation_intent: the intent is still this one, or a peer has already
\* turned it into the allocation.
CheckIntent(r) ==
    /\ At(r, "check")
    /\ LET p == mem[r].pick.provider
       IN Goto(r, IF intent[S(r)] = p \/ (intent[S(r)] = None /\ alloc[S(r)] = p)
                  THEN "provider" ELSE "reobserve")
    /\ UNCHANGED <<ledger, rows, quota, del, agent, report, pass, disturbed, crashed, faults>>

\* allocate reads the provider again: it may refuse before anything is written.
MayAllocate(r) ==
    LET p == mem[r].pick.provider
    IN gen[p] = mem[r].pick.gen /\ state[p] = "Enabled" /\ Available(p) >= Size[S(r)]

ReadProvider(r) ==
    /\ At(r, "provider")
    /\ \/ alloc[S(r)] = mem[r].pick.provider /\ Goto(r, "settle")
       \/ alloc[S(r)] # mem[r].pick.provider /\ MayAllocate(r) /\ Goto(r, "commit")
       \/ alloc[S(r)] # mem[r].pick.provider /\ ~MayAllocate(r) /\ Goto(r, "abandon")
    /\ UNCHANGED <<ledger, rows, quota, del, agent, report, pass, disturbed, crashed, faults>>

\* The generation the candidate was read with is still the provider's.
Unchanged(r) == gen[mem[r].pick.provider] = mem[r].pick.gen

commit_allocation(r) ==
    /\ At(r, "commit")
    /\ LET p == mem[r].pick.provider
       IN \/ /\ alloc[S(r)] # None
             /\ Goto(r, IF alloc[S(r)] = p THEN "settle" ELSE "reobserve")
             /\ UNCHANGED ledger
          \/ /\ alloc[S(r)] = None
             /\ Unchanged(r)
             /\ Goto(r, "settle")
             /\ Commit(p, S(r))
          \/ /\ alloc[S(r)] = None
             /\ ~Unchanged(r)
             /\ Goto(r, "abandon")
             /\ UNCHANGED ledger
    /\ UNCHANGED <<rows, quota, del, agent, report, pass, disturbed, crashed, faults>>

\* The intent is deleted by its identity once the allocation is there.
Settle(r) ==
    /\ At(r, "settle")
    /\ intent' = [intent EXCEPT ![S(r)] = None]
    /\ Decide(r, mem[r].pick.provider)
    /\ UNCHANGED <<provider, alloc, rows, quota, del, agent, report, pass, disturbed, crashed, faults>>

\* abandon_allocation_intent reads the intent, then deletes it.
Abandon(r) ==
    /\ At(r, "abandon")
    /\ \/ intent[S(r)] = None /\ Goto(r, "intent")
       \/ intent[S(r)] = mem[r].pick.provider /\ Goto(r, "drop")
       \/ intent[S(r)] \notin {None, mem[r].pick.provider} /\ Goto(r, "reobserve")
    /\ UNCHANGED <<ledger, rows, quota, del, agent, report, pass, disturbed, crashed, faults>>

Drop(r) ==
    /\ At(r, "drop")
    /\ intent' = [intent EXCEPT ![S(r)] = None]
    /\ Goto(r, "intent")
    /\ UNCHANGED <<provider, alloc, rows, quota, del, agent, report, pass, disturbed, crashed, faults>>

\* existing_allocation: a peer's allocation for the same server is this one's too.
Reobserve(r) ==
    /\ At(r, "reobserve")
    /\ IF alloc[S(r)] \in mem[r].selected
       THEN Decide(r, alloc[S(r)])
       ELSE Done(r)
    /\ UNCHANGED <<ledger, rows, quota, del, agent, report, pass, disturbed, crashed, faults>>

\* Whoever else is there to be met by capacity that is given back unasked.
Contended(s) == Shared(s) \/ row[s].state # "none"

\* The servers cannot be listed for the name check, or reserve_quota: one reservation
\* per operation.  A new one may be over the limit of the project, one that was
\* released is never given again.  Capacity is given back without asking who has it.
Reserve(r) ==
    /\ At(r, "reserve")
    /\ \/ /\ quota[Op(r)] # "released"
          /\ quota' = [quota EXCEPT ![Op(r)] = IF @ = "none" THEN "pending" ELSE @]
          /\ Goto(r, "persist")
          /\ UNCHANGED <<disturbed, faults>>
       \/ /\ \/ quota[Op(r)] = "released" /\ UNCHANGED faults
             \/ quota[Op(r)] = "none" /\ Fault("refuse")
             \/ Fault("list")
          /\ disturbed' = disturbed \cup {s \in {S(r)} : Contended(s)}
          /\ Goto(r, "undo")
          /\ UNCHANGED quota
    /\ UNCHANGED <<ledger, rows, del, agent, report, pass, crashed>>

\* insert_resource_and_operation, revive_resource_and_operation and
\* create_or_replay_canonical_resource_operation write the row only while the
\* allocation it was planned with exists.
Backed(r) == alloc[S(r)] # None

Created(r) == [state |-> "requested", life |-> mem[r].life + 1, provider |-> mem[r].decision,
               body |-> ask[r].body]

Persist(r) ==
    /\ At(r, "persist")
    /\ ~ask[r].canonical
    /\ \/ /\ row[S(r)].life # mem[r].life
          /\ Goto(r, "observe")
          /\ UNCHANGED row
       \/ /\ row[S(r)].life = mem[r].life
          /\ Backed(r)
          /\ row' = [row EXCEPT ![S(r)] = Created(r)]
          /\ Goto(r, "drive")
       \/ /\ row[S(r)].life = mem[r].life
          /\ ~Backed(r)
          /\ Goto(r, "unreserve")
          /\ UNCHANGED row
    /\ UNCHANGED <<ledger, reserved, quota, del, agent, report, pass, disturbed, crashed, faults>>

\* begin_canonical_create: an equal reservation is a replay; a different one, or a
\* row without one, is a conflict, after which the capacity is given back whether or
\* not a live row has it.
Conflicts(r) ==
    \/ reserved[S(r)] \notin {None, ask[r].body}
    \/ reserved[S(r)] = None /\ Backed(r) /\ row[S(r)].state # "none"

Accept(r) ==
    /\ At(r, "persist")
    /\ ask[r].canonical
    /\ \/ /\ reserved[S(r)] = ask[r].body
          /\ Goto(r, "replay")
          /\ UNCHANGED <<rows, disturbed>>
       \/ /\ Conflicts(r)
          /\ disturbed' = disturbed \cup {S(r)}
          /\ Goto(r, "release")
          /\ UNCHANGED rows
       \/ /\ reserved[S(r)] = None /\ ~Backed(r)
          /\ Goto(r, "unreserve")
          /\ UNCHANGED <<rows, disturbed>>
       \/ /\ reserved[S(r)] = None /\ Backed(r) /\ row[S(r)].state = "none"
          /\ row' = [row EXCEPT ![S(r)] = Created(r)]
          /\ reserved' = [reserved EXCEPT ![S(r)] = ask[r].body]
          /\ Goto(r, "drive")
          /\ UNCHANGED disturbed
    /\ UNCHANGED <<ledger, quota, del, agent, report, pass, crashed, faults>>

Owned_Always(r) == TRUE

\* A peer wrote the row first.  Capacity the row does not name is given back; an
\* equal fresh create that is still there is answered like a repeated one.
Owned(r) == row[S(r)].provider = mem[r].decision

Equivalent(r) ==
    /\ mem[r].life = 0
    /\ row[S(r)].life = 1
    /\ row[S(r)].body = ask[r].body
    /\ row[S(r)].state # "deleted"

Observe(r) ==
    /\ At(r, "observe")
    /\ \/ ~Owned(r) /\ Goto(r, "release")
       \/ Owned(r) /\ ~Equivalent(r) /\ Goto(r, "unreserve")
       \/ Owned(r) /\ Equivalent(r) /\ Goto(r, "answer")
    /\ UNCHANGED <<ledger, rows, quota, del, agent, report, pass, disturbed, crashed, faults>>

\* The canonical ExistingEquivalent keeps its quota after giving capacity back.
ObserveReplay(r) ==
    /\ At(r, "replay")
    /\ Goto(r, IF Owned(r) THEN "answer" ELSE "giveback")
    /\ UNCHANGED <<ledger, rows, quota, del, agent, report, pass, disturbed, crashed, faults>>

\* The answer of a peer's create settles the quota by its operation: that of the
\* first life, which the row tells while it is in it.
Answer(r) ==
    /\ At(r, "answer")
    /\ \E outcome \in {"requested", "active", "error"} :
          /\ row[S(r)].life = 1 /\ row[S(r)].state # "deleted" => outcome = row[S(r)].state
          /\ quota' = [quota EXCEPT ![Op(r)] =
                CASE outcome = "active" /\ @ = "pending" -> "committed"
                  [] outcome = "error" -> "released"
                  [] OTHER -> @]
    /\ Done(r)
    /\ UNCHANGED <<ledger, rows, del, agent, report, pass, disturbed, crashed, faults>>

\* reconcile_once, once: the create succeeds, goes on, is refused by the provider,
\* or the pass itself fails and leaves the row to a later one.
Drive(r) ==
    /\ At(r, "drive")
    /\ \/ \E st \in {"requested", "active"} :
             /\ row' = [row EXCEPT ![S(r)].state = IF @ = "requested" THEN st ELSE @]
             /\ quota' = [quota EXCEPT ![Op(r)] = IF @ = "pending" THEN "committed" ELSE @]
             /\ Done(r)
             /\ UNCHANGED <<disturbed, faults>>
       \/ /\ row[S(r)].state = "requested"
          /\ Fault("fail")
          /\ row' = [row EXCEPT ![S(r)].state = "error"]
          /\ Goto(r, "release")
          /\ UNCHANGED <<quota, disturbed>>
       \/ /\ Fault("error")
          /\ disturbed' = disturbed \cup {S(r)}
          /\ Goto(r, "unreserve")
          /\ UNCHANGED <<row, quota>>
    /\ UNCHANGED <<ledger, reserved, del, agent, report, pass, crashed>>

\* release_placement_decision: after it the quota is given back, or settled, or the
\* request ends.
Release(r) ==
    /\ \/ At(r, "release") /\ Goto(r, "unreserve")
       \/ At(r, "giveback") /\ Goto(r, "answer")
       \/ At(r, "undo") /\ Done(r)
    /\ release_allocation(mem[r].decision, S(r))
    /\ UNCHANGED <<rows, quota, del, agent, report, pass, disturbed, crashed, faults>>

\* release_quota_and_return.
Unreserve(r) ==
    /\ At(r, "unreserve")
    /\ quota' = [quota EXCEPT ![Op(r)] = IF @ = "none" THEN @ ELSE "released"]
    /\ Done(r)
    /\ UNCHANGED <<ledger, rows, del, agent, report, pass, disturbed, crashed, faults>>

\* The process that runs the request dies.
Crash(r) ==
    /\ InFlight(r)
    /\ Fault("crash")
    /\ Done(r)
    /\ crashed' = TRUE
    /\ UNCHANGED <<ledger, rows, quota, del, agent, report, pass, disturbed>>

(***************************************************************************)
(* A delete: the row is terminal before its capacity is given back.         *)
(***************************************************************************)
BeginDelete(s) ==
    /\ del[s].pc = "none"
    /\ row[s].state # "none"
    /\ Fault("delete")
    /\ del' = [del EXCEPT ![s] =
          [pc |-> IF row[s].state = "deleted" THEN "release" ELSE "terminal",
           provider |-> row[s].provider, life |-> row[s].life]]
    /\ disturbed' = disturbed \cup {s}
    /\ UNCHANGED <<ledger, rows, quota, requests, agent, report, pass, crashed>>

Terminalize(s) ==
    /\ del[s].pc = "terminal"
    /\ row' = [row EXCEPT ![s].state = "deleted"]
    /\ del' = [del EXCEPT ![s].pc = "release"]
    /\ UNCHANGED <<ledger, reserved, quota, requests, agent, report, pass, disturbed, crashed, faults>>

ReleaseDeleted(s) ==
    /\ del[s].pc = "release"
    /\ release_allocation(del[s].provider, s)
    /\ del' = [del EXCEPT ![s].pc = "unreserve"]
    /\ UNCHANGED <<rows, quota, requests, agent, report, pass, disturbed, crashed, faults>>

\* release_reservation_for_operation of the create that made the row.
UnreserveDeleted(s) ==
    /\ del[s].pc = "unreserve"
    /\ quota' = [quota EXCEPT ![<<s, del[s].life - 1>>] = IF @ = "none" THEN @ ELSE "released"]
    /\ del' = [del EXCEPT ![s] = NoDelete]
    /\ UNCHANGED <<ledger, rows, requests, agent, report, pass, disturbed, crashed, faults>>

(***************************************************************************)
(* The agents, the publisher, the operator and the startup pass.            *)
(***************************************************************************)
\* external: an agent connects, disconnects, drains or reports other capacity.
AgentChanges(p) ==
    /\ Fault("agent")
    /\ \E st \in {"Enabled", "Draining", "Unavailable"}, t \in Totals :
          /\ t = 0 => st = "Unavailable"
          /\ <<st, t>> # <<agent[p].state, agent[p].total>>
          /\ agent' = [agent EXCEPT ![p] = [state |-> st, total |-> t, new |-> TRUE]]
    /\ UNCHANGED <<ledger, rows, quota, requests, del, report, pass, disturbed, crashed>>

\* sync_agent_inventory, when an agent has something new and every few seconds: an
\* agent's Enabled is not published over a closed gate.
PublishRead(p) ==
    /\ report[p] = NoReport
    /\ IF agent[p].new THEN UNCHANGED faults ELSE Fault("publish")
    /\ agent' = [agent EXCEPT ![p].new = FALSE]
    /\ report' = [report EXCEPT ![p] =
          [state |-> IF state[p] \in {"Draining", "Deleted"} /\ agent[p].state = "Enabled"
                     THEN state[p] ELSE agent[p].state,
           total |-> agent[p].total]]
    /\ UNCHANGED <<ledger, rows, quota, requests, del, pass, disturbed, crashed>>

Publish(p) ==
    /\ report[p] # NoReport
    /\ sync_provider(p, report[p])
    /\ report' = [report EXCEPT ![p] = NoReport]
    /\ UNCHANGED <<rows, quota, requests, del, agent, pass, disturbed, crashed, faults>>

\* project_provider_state, from a transition of the provider's building block.
Operate(p) ==
    /\ Fault("operator")
    /\ \E st \in States \ {state[p]} : SetState(p, st)
    /\ UNCHANGED <<rows, quota, requests, del, agent, report, pass, disturbed, crashed>>

\* Startup of an o3kd: it lists the consumers, then reconciles against them.
ListConsumers ==
    /\ ~pass.on
    /\ Fault("startup")
    /\ pass' = [on |-> TRUE, live |-> {s \in Servers : row[s].state \notin {"none", "deleted"}}]
    /\ UNCHANGED <<ledger, rows, quota, requests, del, agent, report, disturbed, crashed>>

Consumers_Listed == pass.live

\* reconcile_consumers looks at the rows again in its own transaction.
Consumers == pass.live \cup {s \in Servers : row[s].state \notin {"none", "deleted"}}

reconcile_consumers ==
    /\ pass.on
    /\ LET orphaned == {s \in Servers \ Consumers : alloc[s] # None}
           affected == {alloc[s] : s \in orphaned}
           kept == [s \in Servers |-> IF s \in orphaned THEN None ELSE alloc[s]]
       IN /\ alloc' = kept
          /\ intent' = [s \in Servers |-> IF s \in Consumers THEN intent[s] ELSE None]
          /\ used' = [p \in Providers |-> IF p \in affected THEN Allocated(p, kept) ELSE used[p]]
          /\ gen' = [p \in Providers |-> IF p \in affected THEN gen[p] + 1 ELSE gen[p]]
          /\ disturbed' = disturbed \cup {s \in orphaned : Shared(s)}
    /\ pass' = NoPass
    /\ UNCHANGED <<state, total, rows, quota, requests, del, agent, report, crashed, faults>>

CreateStep(r) ==
    \/ Identify(r) \/ Probe(r) \/ Lookup(r) \/ ReadProviders(r) \/ BeginIntent(r) \/ CheckIntent(r)
    \/ ReadProvider(r) \/ commit_allocation(r) \/ Settle(r) \/ Abandon(r) \/ Drop(r) \/ Reobserve(r)
    \/ Reserve(r) \/ Persist(r) \/ Accept(r) \/ Observe(r) \/ ObserveReplay(r) \/ Answer(r)
    \/ Drive(r) \/ Release(r) \/ Unreserve(r)

DeleteStep(s) == BeginDelete(s) \/ Terminalize(s) \/ ReleaseDeleted(s) \/ UnreserveDeleted(s)

ProviderStep(p) == AgentChanges(p) \/ PublishRead(p) \/ Publish(p) \/ Operate(p)

Next ==
    \/ \E r \in Requests : CreateStep(r) \/ Crash(r)
    \/ \E s \in Servers : DeleteStep(s)
    \/ \E p \in Providers : ProviderStep(p)
    \/ ListConsumers \/ reconcile_consumers

Spec == Init /\ [][Next]_vars

(***************************************************************************)
(* Properties.                                                              *)
(***************************************************************************)
TypeOK ==
    /\ state \in [Providers -> States]
    /\ total \in [Providers -> Totals]
    /\ used \in [Providers -> Nat]
    /\ gen \in [Providers -> Nat \ {0}]
    /\ alloc \in [Servers -> Providers \cup {None}]
    /\ intent \in [Servers -> Providers \cup {None}]
    /\ row \in [Servers -> [state : {"none", "requested", "active", "error", "deleted"},
                            provider : Providers \cup {None}, life : Lives,
                            body : Bodies \cup {None}]]
    /\ reserved \in [Servers -> Bodies \cup {None}]
    /\ quota \in [Servers \X Lives -> {"none", "pending", "committed", "released"}]
    /\ \A r \in Requests : mem[r].decision \in Providers \cup {None} /\ ask[r].op \in Lives
    /\ pass.live \subseteq Servers
    /\ disturbed \subseteq Servers
    /\ crashed \in BOOLEAN
    /\ faults \in 0..MaxFaults

\* What a provider counts as used is what the allocations on it add up to, though
\* commits and releases count up and down, a report replaces the inventory and the
\* startup pass recounts: capacity is neither lost nor sold twice.
UsedIsAllocated == \A p \in Providers : used[p] = Allocated(p, alloc)

\* An allocation appears only on a provider that is open and has room at that very
\* moment, although state and room were read one or more transactions earlier and
\* the commit looks at neither again.
CommitsFit ==
    [][\A s \in Servers : alloc[s] = None /\ alloc'[s] # None =>
          state[alloc'[s]] = "Enabled" /\ Available(alloc'[s]) >= Size[s]]_vars

\* A live server has the capacity its row names, whatever peers of its create do:
\* equal requests race, fall back to other providers, give capacity back when they
\* lose, fail or die, and an o3kd starts meanwhile.  Exempt are the servers that
\* were deleted, whose first provider pass failed or whose allocation a starting
\* o3kd took from several creates, and those met by a release that does not ask
\* whose the allocation is: of a canonical create that finds the key taken by a
\* different request or by a row of the older calls, although that row may be live
\* (lifecycle.rs 780-787, 837-842), and of a create that is refused quota, or cannot list the
\* servers, while another create of the server is under way or its row is there.
LiveIsBacked ==
    \A s \in Servers \ disturbed : Live(s) => alloc[s] = row[s].provider

\* Once every create has been answered, all capacity that is still taken is named
\* by a row whose delete gives it back: without a crash no restart is needed to
\* free what a lost race, a fallback or a refusal had taken.
NothingLeaked ==
    (~crashed /\ \A r \in Requests : ~InFlight(r)) =>
        \A s \in Servers \ disturbed : alloc[s] # None =>
            row[s].state \notin {"none", "deleted"} /\ row[s].provider = alloc[s]

\* "an allocation must never be released beneath a live consumer"
\* (sqlite/placement.rs): whoever gives capacity back, no live server had it.
LiveKeepsAllocation ==
    [][\A s \in Servers : Live(s) /\ Live(s)' /\ alloc[s] = row[s].provider
          => alloc'[s] = alloc[s]]_vars
=============================================================================
