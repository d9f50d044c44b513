------------------------------ MODULE WorkLease ------------------------------
(***************************************************************************)
(* Controller sessions and durable work leases: the CoordinationRepository  *)
(* of crates/o3k-store/src/coordination.rs.  A controller session is one    *)
(* (controller_id, controller_epoch) pair; it claims a work key, renews it  *)
(* and gives it up, each by one database transaction.  A claim carries a    *)
(* fencing token that the holder keeps in memory and quotes in every later  *)
(* call, possibly long after its lease has expired.                         *)
(*                                                                          *)
(* Time: the code compares lease_until with the database clock.  A row here *)
(* keeps `left', the ticks that remain until lease_until; it is live while  *)
(* left >= 0 (lease_until >= NOW()) and expired at -1.  Time is therefore   *)
(* unbounded although the state is finite.                                  *)
(***************************************************************************)
EXTENDS Integers

CONSTANTS
    Sessions,     \* controller sessions
    NoSession,    \* stands for "no row" in the owner column
    Keys,         \* work keys
    HandoffKeys,  \* keys whose owners give up by relinquish, not by release
    TTL,          \* lease and session time to live, in ticks
    MaxToken      \* bound: no acquisition issues a token above it

ASSUME SessionsAssumption == NoSession \notin Sessions
ASSUME KeysAssumption == HandoffKeys \subseteq Keys
ASSUME TTLAssumption == TTL \in Nat
ASSUME MaxTokenAssumption == MaxToken \in Nat

VARIABLES
    session,  \* controller_sessions: registration state and time left
    alive,    \* sessions whose process is running
    lease,    \* work_leases, one row per key
    counter,  \* work_lease_fence_counters, 0 when the key has no row
    held,     \* the token each process remembers for each key, 0 for none
    granted   \* history: every <<session, token>> ever granted for a key

vars == <<session, alive, lease, counter, held, granted>>

-----------------------------------------------------------------------------
Expired == -1
Remaining == Expired..TTL
Tokens == 0..MaxToken
SessionRows == [state : {"Absent", "Active", "Draining"}, left : Remaining]
LeaseRows == [owner : Sessions \cup {NoSession}, token : Tokens, left : Remaining]

NoLease == [owner |-> NoSession, token |-> 0, left |-> Expired]

HasRow(k) == lease[k].owner # NoSession
Live(k) == HasRow(k) /\ lease[k].left >= 0
IsExpired(k) == HasRow(k) /\ lease[k].left < 0

\* The WHERE clause shared by renew, release and relinquish.
Matches(s, k, t) == lease[k].owner = s /\ lease[k].token = t

-----------------------------------------------------------------------------
Init ==
    /\ session = [s \in Sessions |-> [state |-> "Absent", left |-> Expired]]
    /\ alive = Sessions
    /\ lease = [k \in Keys |-> NoLease]
    /\ counter = [k \in Keys |-> 0]
    /\ held = [s \in Sessions |-> [k \in Keys |-> 0]]
    /\ granted = [k \in Keys |-> {}]

(***************************************************************************)
(* Controller sessions.                                                     *)
(***************************************************************************)
\* An upsert: registering again refreshes the row, and makes a draining session
\* active again.
register_controller_session(s) ==
    /\ s \in alive
    /\ session' = [session EXCEPT ![s] = [state |-> "Active", left |-> TTL]]
    /\ UNCHANGED <<alive, lease, counter, held, granted>>

\* The UPDATE requires state = 'Active' but not an unexpired session.
heartbeat_controller_session(s) ==
    /\ s \in alive
    /\ session[s].state = "Active"
    /\ session' = [session EXCEPT ![s].left = TTL]
    /\ UNCHANGED <<alive, lease, counter, held, granted>>

drain_controller_session(s) ==
    /\ s \in alive
    /\ session[s].state # "Absent"
    /\ session' = [session EXCEPT ![s].state = "Draining"]
    /\ UNCHANGED <<alive, lease, counter, held, granted>>

\* Mutant: the listing forgets the session's own lease.
ListActive_IgnoresExpiry == {s \in Sessions : session[s].state = "Active"}

list_active_controller_sessions ==
    {s \in Sessions : session[s].state = "Active" /\ session[s].left >= 0}

(***************************************************************************)
(* acquire_work_lease_once: one transaction with four outcomes.  Busy       *)
(* changes nothing, so it is not an action; a caller that was told Busy     *)
(* has no claim.                                                            *)
(***************************************************************************)
Grant(s, k, t) ==
    /\ t <= MaxToken
    /\ lease' = [lease EXCEPT ![k] = [owner |-> s, token |-> t, left |-> TTL]]
    /\ held' = [held EXCEPT ![s][k] = t]
    /\ granted' = [granted EXCEPT ![k] = @ \cup {<<s, t>>}]
    /\ UNCHANGED <<session, alive>>

\* No row: the fence counter is bumped and becomes the row's token.
AcquireFresh(s, k) ==
    /\ s \in alive
    /\ ~HasRow(k)
    /\ Grant(s, k, counter[k] + 1)
    /\ counter' = [counter EXCEPT ![k] = @ + 1]

\* The owning session acquires again before expiry: same token, new time.
Reacquire(s, k) ==
    /\ s \in alive
    /\ Live(k)
    /\ lease[k].owner = s
    /\ Grant(s, k, lease[k].token)
    /\ UNCHANGED counter

\* Mutant: expiry is tested one tick early (<= in place of <).
TakeOver_Early(s, k) ==
    /\ s \in alive
    /\ HasRow(k)
    /\ lease[k].left <= 0
    /\ Grant(s, k, lease[k].token + 1)
    /\ UNCHANGED counter

\* Mutant: takeover without advancing the token.
TakeOver_SameToken(s, k) ==
    /\ s \in alive
    /\ IsExpired(k)
    /\ Grant(s, k, lease[k].token)
    /\ UNCHANGED counter

\* Mutant: only the session that owned the row may reclaim it.
TakeOver_OwnerOnly(s, k) ==
    /\ s \in alive
    /\ IsExpired(k)
    /\ lease[k].owner = s
    /\ Grant(s, k, lease[k].token + 1)
    /\ UNCHANGED counter

\* An expired row is taken over by anyone; its own token is incremented.
TakeOver(s, k) ==
    /\ s \in alive
    /\ IsExpired(k)
    /\ Grant(s, k, lease[k].token + 1)
    /\ UNCHANGED counter

acquire_work_lease(s, k) == AcquireFresh(s, k) \/ Reacquire(s, k) \/ TakeOver(s, k)

(***************************************************************************)
(* Calls that quote a remembered token.  They affect a row only if owner,   *)
(* epoch and token still match it.                                          *)
(***************************************************************************)
renew_work_lease(s, k) ==
    /\ held[s][k] # 0
    /\ Matches(s, k, held[s][k])
    /\ Live(k)
    /\ lease' = [lease EXCEPT ![k].left = TTL]
    /\ UNCHANGED <<session, alive, counter, held, granted>>

\* DELETE of the row; the caller forgets its token whether or not it matched.
release_work_lease(s, k) ==
    /\ k \notin HandoffKeys
    /\ held[s][k] # 0
    /\ lease' = IF Matches(s, k, held[s][k])
                THEN [lease EXCEPT ![k] = NoLease] ELSE lease
    /\ held' = [held EXCEPT ![s][k] = 0]
    /\ UNCHANGED <<session, alive, counter, granted>>

\* Mutant: relinquish deletes the row as release does.
Relinquish_Deletes(s, k) ==
    /\ k \in HandoffKeys
    /\ held[s][k] # 0
    /\ lease' = IF Matches(s, k, held[s][k])
                THEN [lease EXCEPT ![k] = NoLease] ELSE lease
    /\ held' = [held EXCEPT ![s][k] = 0]
    /\ UNCHANGED <<session, alive, counter, granted>>

\* The row survives, already expired, so that the next claim advances it.
relinquish_work_lease_preserving_fence(s, k) ==
    /\ k \in HandoffKeys
    /\ held[s][k] # 0
    /\ lease' = IF Matches(s, k, held[s][k])
                THEN [lease EXCEPT ![k].left = Expired] ELSE lease
    /\ held' = [held EXCEPT ![s][k] = 0]
    /\ UNCHANGED <<session, alive, counter, granted>>

-----------------------------------------------------------------------------
\* The process dies without giving anything up; its memory is gone.  A
\* restarted controller is a new session, because its epoch is new.
Crash(s) ==
    /\ s \in alive
    /\ alive' = alive \ {s}
    /\ held' = [held EXCEPT ![s] = [k \in Keys |-> 0]]
    /\ UNCHANGED <<session, lease, counter, granted>>

\* Mutant: the remaining time runs on past expiry.
Elapse_Underflow(n) == n - 1

Elapse(n) == IF n = Expired THEN Expired ELSE n - 1

\* The database clock advances.
Tick ==
    /\ session' = [s \in Sessions |-> [session[s] EXCEPT !.left = Elapse(@)]]
    /\ lease' = [k \in Keys |-> [lease[k] EXCEPT !.left = Elapse(@)]]
    /\ UNCHANGED <<alive, counter, held, granted>>

SessionStep(s) ==
    \/ register_controller_session(s)
    \/ heartbeat_controller_session(s)
    \/ drain_controller_session(s)
    \/ Crash(s)

LeaseStep(s, k) ==
    \/ AcquireFresh(s, k)
    \/ Reacquire(s, k)
    \/ TakeOver(s, k)
    \/ renew_work_lease(s, k)
    \/ release_work_lease(s, k)
    \/ relinquish_work_lease_preserving_fence(s, k)

Next ==
    \/ \E s \in Sessions : SessionStep(s)
    \/ \E s \in Sessions, k \in Keys : LeaseStep(s, k)
    \/ Tick

Spec == Init /\ [][Next]_vars

(***************************************************************************)
(* Fairness.  The database clock never stops.  Every lease user is a loop   *)
(* driven by a tokio interval (renewal tasks, convergence sweeps, the       *)
(* orphan repair pass), so some running controller keeps trying to acquire  *)
(* a key that can be acquired.  Nobody is obliged to renew, release,        *)
(* heartbeat or crash.                                                      *)
(***************************************************************************)
Fairness ==
    /\ WF_vars(Tick)
    /\ \A k \in Keys : WF_vars(\E s \in Sessions : acquire_work_lease(s, k))

FairSpec == Spec /\ Fairness

-----------------------------------------------------------------------------
\* Type correctness of the two tables, the fence counters and the clients.
TypeOK ==
    /\ session \in [Sessions -> SessionRows]
    /\ alive \subseteq Sessions
    /\ lease \in [Keys -> LeaseRows]
    /\ counter \in [Keys -> Tokens]
    /\ held \in [Sessions -> [Keys -> Tokens]]
    /\ granted \in [Keys -> SUBSET (Sessions \X Tokens)]

\* Two sessions never hold a claim under the same fencing token of key k.
TokenNamesOneSession(k) ==
    \A g, h \in granted[k] : g[2] = h[2] => g[1] = h[1]

\* On a key that is only ever relinquished (the network agents' and the fabric
\* realms' keys), a fencing token identifies one session for ever: across
\* expiry, takeover by another controller, graceful handoff and crashes.
HandoffFenceUnique == \A k \in HandoffKeys : TokenNamesOneSession(k)

\* The same for every key, released ones included.  The migration that creates
\* work_lease_fence_counters promises it ("Fencing generations survive release
\* of the currently active lease").
FenceSurvivesRelease == \A k \in Keys : TokenNamesOneSession(k)

\* On a relinquished key the token never goes back, and it strictly advances
\* whenever the key changes hands: a holder that was displaced quotes a
\* smaller token than the row, so every comparison with the row exposes it.
FenceAdvancesOnHandoff ==
    [][\A k \in HandoffKeys :
          /\ lease'[k].token >= lease[k].token
          /\ lease'[k].owner # lease[k].owner => lease'[k].token > lease[k].token]_vars

\* A live lease is lost only through its own owner quoting the current token:
\* no acquisition, late release or late relinquish of anybody else displaces
\* an owner whose lease has not expired.
LiveOwnerUndisturbed ==
    [][\A k \in Keys :
          LET o == lease[k].owner IN
          Live(k) /\ ~(lease'[k].owner = o /\ lease'[k].token = lease[k].token
                       /\ lease'[k].left >= lease[k].left - 1)
             => held[o][k] = lease[k].token /\ held'[o][k] = 0]_vars

\* A lease abandoned by a crashed controller is claimed by a running one,
\* unless none runs or the model's tokens are used up.
AbandonedLeaseReclaimed ==
    \A k \in Keys :
        (HasRow(k) /\ lease[k].owner \notin alive)
            ~> (lease[k].owner \in alive \/ alive = {} \/ lease[k].token = MaxToken)

\* A crashed controller eventually disappears from the active sessions.
CrashedSessionDelisted ==
    \A s \in Sessions : s \notin alive ~> s \notin list_active_controller_sessions
=============================================================================
