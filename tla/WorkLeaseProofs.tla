--------------------------- MODULE WorkLeaseProofs ---------------------------
(***************************************************************************)
(* What WorkLease guarantees for any set of controllers and keys, any time  *)
(* to live and any bound on tokens.                                         *)
(***************************************************************************)
EXTENDS WorkLease, TLAPS

\* The strengthening of HandoffFenceUnique that each step preserves: the row of
\* a relinquished key is the maximum of what was ever granted, only its owner
\* was granted that maximum, and a key without a row was never granted.
FenceInv ==
    \A k \in HandoffKeys :
        /\ ~HasRow(k) => granted[k] = {}
        /\ \A g \in granted[k] :
              /\ g[2] <= lease[k].token
              /\ g[2] = lease[k].token => g[1] = lease[k].owner
        /\ TokenNamesOneSession(k)

USE SessionsAssumption, KeysAssumption, TTLAssumption, MaxTokenAssumption

-----------------------------------------------------------------------------
\* A row's remaining time stays in its range when the clock advances.
LEMMA ElapseType == \A n \in Remaining : Elapse(n) \in Remaining
  BY DEF Elapse, Remaining, Expired

\* Writing only the remaining time of a lease row keeps its type, owner and token.
LEMMA LeftType ==
    \A r \in LeaseRows, n \in Remaining :
        /\ [r EXCEPT !.left = n] \in LeaseRows
        /\ [r EXCEPT !.left = n].owner = r.owner
        /\ [r EXCEPT !.left = n].token = r.token
  BY DEF LeaseRows

\* The row Grant writes, and the memory and history it leaves, are well typed.
LEMMA GrantType ==
    ASSUME TypeOK, NEW s \in Sessions, NEW k \in Keys, NEW t \in Nat, Grant(s, k, t)
    PROVE  /\ lease' \in [Keys -> LeaseRows]
           /\ held' \in [Sessions -> [Keys -> Tokens]]
           /\ granted' \in [Keys -> SUBSET (Sessions \X Tokens)]
           /\ t \in Tokens
  <1>1. t \in Tokens
    BY DEF Grant, Tokens
  <1>2. [owner |-> s, token |-> t, left |-> TTL] \in LeaseRows
    BY <1>1 DEF LeaseRows, Remaining, Expired
  <1>3. lease' \in [Keys -> LeaseRows]
    BY <1>2 DEF Grant, TypeOK
  <1>4. held' \in [Sessions -> [Keys -> Tokens]]
    BY <1>1 DEF Grant, TypeOK
  <1>5. granted' \in [Keys -> SUBSET (Sessions \X Tokens)]
    BY <1>1 DEF Grant, TypeOK
  <1> QED
    BY <1>1, <1>3, <1>4, <1>5

\* TypeOK is inductive: one step per operation of the repository.
LEMMA TypeStep == TypeOK /\ [Next]_vars => TypeOK'
  <1> SUFFICES ASSUME TypeOK, [Next]_vars
               PROVE  TypeOK'
    OBVIOUS
  <1>1. ASSUME NEW s \in Sessions, register_controller_session(s)
        PROVE  TypeOK'
    BY <1>1 DEF TypeOK, register_controller_session, SessionRows, Remaining, Expired
  <1>2. ASSUME NEW s \in Sessions, heartbeat_controller_session(s)
        PROVE  TypeOK'
    BY <1>2 DEF TypeOK, heartbeat_controller_session, SessionRows, Remaining, Expired
  <1>3. ASSUME NEW s \in Sessions, drain_controller_session(s)
        PROVE  TypeOK'
    BY <1>3 DEF TypeOK, drain_controller_session, SessionRows
  <1>4. ASSUME NEW s \in Sessions, Crash(s)
        PROVE  TypeOK'
    BY <1>4 DEF TypeOK, Crash, Tokens
  <1>5. ASSUME NEW s \in Sessions, NEW k \in Keys, AcquireFresh(s, k)
        PROVE  TypeOK'
    <2>1. counter[k] + 1 \in Nat
      BY DEF TypeOK, Tokens
    <2>2. Grant(s, k, counter[k] + 1)
      BY <1>5 DEF AcquireFresh
    <2>3. counter' \in [Keys -> Tokens]
      BY <1>5, <2>1, <2>2, GrantType DEF AcquireFresh, TypeOK
    <2> QED
      BY <1>5, <2>1, <2>2, <2>3, GrantType DEF TypeOK, Grant
  <1>6. ASSUME NEW s \in Sessions, NEW k \in Keys, Reacquire(s, k)
        PROVE  TypeOK'
    <2>1. lease[k].token \in Nat
      BY DEF TypeOK, LeaseRows, Tokens
    <2> QED
      BY <1>6, <2>1, GrantType DEF TypeOK, Reacquire, Grant
  <1>7. ASSUME NEW s \in Sessions, NEW k \in Keys, TakeOver(s, k)
        PROVE  TypeOK'
    <2>1. lease[k].token + 1 \in Nat
      BY DEF TypeOK, LeaseRows, Tokens
    <2> QED
      BY <1>7, <2>1, GrantType DEF TypeOK, TakeOver, Grant
  <1>8. ASSUME NEW s \in Sessions, NEW k \in Keys, renew_work_lease(s, k)
        PROVE  TypeOK'
    <2>1. TTL \in Remaining
      BY DEF Remaining, Expired
    <2>2. lease' = [lease EXCEPT ![k] = [lease[k] EXCEPT !.left = TTL]]
      BY <1>8 DEF renew_work_lease
    <2>3. lease' \in [Keys -> LeaseRows]
      BY <2>1, <2>2, LeftType DEF TypeOK
    <2> QED
      BY <1>8, <2>3 DEF TypeOK, renew_work_lease
  <1>9. ASSUME NEW s \in Sessions, NEW k \in Keys, release_work_lease(s, k)
        PROVE  TypeOK'
    <2>1. NoLease \in LeaseRows
      BY DEF NoLease, LeaseRows, Tokens, Remaining, Expired
    <2>2. held' \in [Sessions -> [Keys -> Tokens]]
      BY <1>9 DEF TypeOK, release_work_lease, Tokens
    <2>3. lease' \in [Keys -> LeaseRows]
      BY <1>9, <2>1 DEF TypeOK, release_work_lease
    <2> QED
      BY <1>9, <2>2, <2>3 DEF TypeOK, release_work_lease
  <1>10. ASSUME NEW s \in Sessions, NEW k \in Keys,
                relinquish_work_lease_preserving_fence(s, k)
         PROVE  TypeOK'
    <2>1. held' \in [Sessions -> [Keys -> Tokens]]
      BY <1>10 DEF TypeOK, relinquish_work_lease_preserving_fence, Tokens
    <2>2. Expired \in Remaining
      BY DEF Remaining, Expired
    <2>3. \/ lease' = lease
          \/ lease' = [lease EXCEPT ![k] = [lease[k] EXCEPT !.left = Expired]]
      BY <1>10 DEF relinquish_work_lease_preserving_fence
    <2>4. lease' \in [Keys -> LeaseRows]
      BY <2>2, <2>3, LeftType DEF TypeOK
    <2> QED
      BY <1>10, <2>1, <2>4 DEF TypeOK, relinquish_work_lease_preserving_fence
  <1>11. CASE Tick
    <2>1. session' \in [Sessions -> SessionRows]
      BY <1>11, ElapseType DEF Tick, TypeOK, SessionRows
    <2>2. lease' \in [Keys -> LeaseRows]
      BY <1>11, ElapseType DEF Tick, TypeOK, LeaseRows
    <2> QED
      BY <1>11, <2>1, <2>2 DEF Tick, TypeOK
  <1>12. CASE UNCHANGED vars
    BY <1>12 DEF TypeOK, vars
  <1> QED
    BY <1>1, <1>2, <1>3, <1>4, <1>5, <1>6, <1>7, <1>8, <1>9, <1>10, <1>11, <1>12
       DEF Next, SessionStep, LeaseStep

\* Every reachable state of the coordination store is well typed; in particular
\* no operation moves a fencing token or a lease out of its range.
THEOREM TypeCorrect == Spec => []TypeOK
  <1>1. Init => TypeOK
    BY DEF Init, TypeOK, SessionRows, LeaseRows, NoLease, Remaining, Expired, Tokens
  <1> QED
    BY <1>1, TypeStep, PTL DEF Spec

-----------------------------------------------------------------------------
\* A grant of token t on k keeps FenceInv when t beats every token granted
\* before, or when it repeats the row's own token for the row's own owner.
LEMMA GrantFence ==
    ASSUME TypeOK, FenceInv, NEW s \in Sessions, NEW k \in Keys, NEW t \in Nat,
           Grant(s, k, t),
           k \in HandoffKeys =>
              \/ \A g \in granted[k] : g[2] < t
              \/ s = lease[k].owner /\ t = lease[k].token
    PROVE  FenceInv'
  <1> SUFFICES ASSUME NEW j \in HandoffKeys
               PROVE  (/\ ~HasRow(j) => granted[j] = {}
                       /\ \A g \in granted[j] :
                             /\ g[2] <= lease[j].token
                             /\ g[2] = lease[j].token => g[1] = lease[j].owner
                       /\ TokenNamesOneSession(j))'
    BY DEF FenceInv
  <1>1. CASE j # k
    <2>1. lease'[j] = lease[j] /\ granted'[j] = granted[j]
      BY <1>1 DEF Grant, TypeOK
    <2> QED
      BY <2>1 DEF FenceInv, HasRow, TokenNamesOneSession
  <1>2. CASE j = k
    <2>1. /\ lease'[k] = [owner |-> s, token |-> t, left |-> TTL]
          /\ granted'[k] = granted[k] \cup {<<s, t>>}
      BY DEF Grant, TypeOK
    <2>2. \A g \in granted[k] : g[2] \in Nat
      BY DEF TypeOK, Tokens
    <2>3. \A g \in granted[k] : g[2] <= t /\ (g[2] = t => g[1] = s)
      BY <1>2, <2>2 DEF FenceInv
    <2>4. HasRow(k)'
      BY <2>1 DEF HasRow
    <2>5. TokenNamesOneSession(k)
      BY <1>2 DEF FenceInv
    <2>6. TokenNamesOneSession(k)'
      BY <2>1, <2>3, <2>5 DEF TokenNamesOneSession
    <2> QED
      BY <1>2, <2>1, <2>3, <2>4, <2>6
  <1> QED
    BY <1>1, <1>2

\* FenceInv is inductive relative to TypeOK.
LEMMA FenceStep == TypeOK /\ FenceInv /\ [Next]_vars => FenceInv'
  <1> SUFFICES ASSUME TypeOK, FenceInv, [Next]_vars
               PROVE  FenceInv'
    OBVIOUS
  <1>1. ASSUME \A k \in HandoffKeys :
                  /\ lease'[k].owner = lease[k].owner
                  /\ lease'[k].token = lease[k].token,
               granted' = granted
        PROVE  FenceInv'
    BY <1>1 DEF FenceInv, HasRow, TokenNamesOneSession
  <1>2. ASSUME NEW s \in Sessions, SessionStep(s)
        PROVE  FenceInv'
    BY <1>1, <1>2 DEF SessionStep, register_controller_session,
       heartbeat_controller_session, drain_controller_session, Crash
  <1>3. ASSUME NEW s \in Sessions, NEW k \in Keys, AcquireFresh(s, k)
        PROVE  FenceInv'
    <2>1. counter[k] + 1 \in Nat
      BY DEF TypeOK, Tokens
    <2>2. k \in HandoffKeys => granted[k] = {}
      BY <1>3 DEF AcquireFresh, FenceInv
    <2> QED
      BY <1>3, <2>1, <2>2, GrantFence DEF AcquireFresh
  <1>4. ASSUME NEW s \in Sessions, NEW k \in Keys, Reacquire(s, k)
        PROVE  FenceInv'
    <2>1. lease[k].token \in Nat
      BY DEF TypeOK, LeaseRows, Tokens
    <2> QED
      BY <1>4, <2>1, GrantFence DEF Reacquire
  <1>5. ASSUME NEW s \in Sessions, NEW k \in Keys, TakeOver(s, k)
        PROVE  FenceInv'
    <2>1. lease[k].token \in Nat /\ \A g \in granted[k] : g[2] \in Nat
      BY DEF TypeOK, LeaseRows, Tokens
    <2>2. k \in HandoffKeys => \A g \in granted[k] : g[2] < lease[k].token + 1
      BY <2>1 DEF FenceInv
    <2> QED
      BY <1>5, <2>1, <2>2, GrantFence DEF TakeOver
  <1>6. ASSUME NEW s \in Sessions, NEW k \in Keys, renew_work_lease(s, k)
        PROVE  FenceInv'
    BY <1>1, <1>6 DEF renew_work_lease, TypeOK, LeaseRows
  <1>7. ASSUME NEW s \in Sessions, NEW k \in Keys, release_work_lease(s, k)
        PROVE  FenceInv'
    <2>1. \A j \in HandoffKeys : lease'[j] = lease[j]
      BY <1>7 DEF release_work_lease, TypeOK
    <2> QED
      BY <1>1, <1>7, <2>1 DEF release_work_lease
  <1>8. ASSUME NEW s \in Sessions, NEW k \in Keys,
               relinquish_work_lease_preserving_fence(s, k)
        PROVE  FenceInv'
    BY <1>1, <1>8 DEF relinquish_work_lease_preserving_fence, TypeOK, LeaseRows
  <1>9. CASE Tick
    BY <1>1, <1>9 DEF Tick, TypeOK, LeaseRows
  <1>10. CASE UNCHANGED vars
    BY <1>1, <1>10 DEF vars
  <1> QED
    BY <1>2, <1>3, <1>4, <1>5, <1>6, <1>7, <1>8, <1>9, <1>10 DEF Next, LeaseStep

\* On every key that its owners only relinquish, no two controller sessions are
\* ever granted the same fencing token, however leases expire, are taken over,
\* handed off or orphaned by crashes.
THEOREM HandoffFenceIsUnique == Spec => []HandoffFenceUnique
  <1>1. Init => FenceInv
    BY DEF Init, FenceInv, TokenNamesOneSession
  <1>2. FenceInv => HandoffFenceUnique
    BY DEF FenceInv, HandoffFenceUnique
  <1> QED
    BY <1>1, <1>2, FenceStep, TypeCorrect, PTL DEF Spec

-----------------------------------------------------------------------------
\* A key without a row shows no token.
Blank == \A k \in Keys : ~HasRow(k) => lease[k].token = 0

\* The rows that a grant leaves alone, and the one that it writes.
LEMMA GrantRows ==
    ASSUME TypeOK, NEW s \in Sessions, NEW k \in Keys, NEW t \in Nat, Grant(s, k, t)
    PROVE  /\ lease'[k] = [owner |-> s, token |-> t, left |-> TTL]
           /\ \A j \in Keys : j # k => lease'[j] = lease[j]
  BY DEF Grant, TypeOK

\* The remaining time of a row falls by at most one when the clock advances.
LEMMA ElapseOne ==
    \A n \in Remaining : Elapse(n) \in Remaining /\ Elapse(n) >= n - 1
  BY DEF Elapse, Remaining, Expired

\* What every step does to the row of any key, in the terms of both properties:
\* it keeps owner and token and lets at most one tick pass; its owner gives it
\* up; or it is granted where there was no live row.
Kept(k) ==
    /\ lease'[k].owner = lease[k].owner
    /\ lease'[k].token = lease[k].token
    /\ lease'[k].left >= lease[k].left - 1

GivenUp(k) ==
    LET o == lease[k].owner IN
    /\ o \in Sessions
    /\ held[o][k] = lease[k].token
    /\ held'[o][k] = 0
    /\ \/ k \notin HandoffKeys /\ lease'[k] = NoLease
       \/ lease'[k].owner = o /\ lease'[k].token = lease[k].token

Claimed(k) ==
    /\ ~Live(k)
    /\ lease'[k].owner \in Sessions
    /\ \/ ~HasRow(k) /\ lease'[k].token >= 1
       \/ HasRow(k) /\ lease'[k].token = lease[k].token + 1

\* A key whose row a step keeps, is given up or is claimed.
LEMMA RowMoves ==
    ASSUME TypeOK, [Next]_vars, NEW j \in Keys
    PROVE  Kept(j) \/ GivenUp(j) \/ Claimed(j)
  <1>1. lease[j] \in LeaseRows /\ lease[j].left \in Remaining /\ lease[j].token \in Nat
    BY DEF TypeOK, LeaseRows, Tokens
  <1>2. lease'[j] = lease[j] => Kept(j)
    BY <1>1 DEF Kept, Remaining, Expired
  <1>3. ASSUME NEW s \in Sessions, SessionStep(s)
        PROVE  Kept(j)
    BY <1>2, <1>3 DEF SessionStep, register_controller_session,
       heartbeat_controller_session, drain_controller_session, Crash
  <1>4. ASSUME NEW s \in Sessions, NEW k \in Keys, AcquireFresh(s, k)
        PROVE  Kept(j) \/ Claimed(j)
    <2>1. counter[k] + 1 \in Nat /\ counter[k] + 1 >= 1
      BY DEF TypeOK, Tokens
    <2>2. /\ lease'[k] = [owner |-> s, token |-> counter[k] + 1, left |-> TTL]
          /\ \A i \in Keys : i # k => lease'[i] = lease[i]
      BY <1>4, <2>1, GrantRows DEF AcquireFresh
    <2>3. CASE j = k
      BY <1>4, <2>1, <2>2, <2>3 DEF AcquireFresh, Claimed, Live
    <2> QED BY <1>2, <2>2, <2>3
  <1>5. ASSUME NEW s \in Sessions, NEW k \in Keys, Reacquire(s, k)
        PROVE  Kept(j)
    <2>1. lease[k].token \in Nat /\ lease[k].left \in Remaining
      BY DEF TypeOK, LeaseRows, Tokens
    <2>2. /\ lease'[k] = [owner |-> s, token |-> lease[k].token, left |-> TTL]
          /\ \A i \in Keys : i # k => lease'[i] = lease[i]
      BY <1>5, <2>1, GrantRows DEF Reacquire
    <2>3. CASE j = k
      BY <1>5, <2>1, <2>2, <2>3 DEF Reacquire, Kept, Remaining, Expired
    <2> QED BY <1>2, <2>2, <2>3
  <1>6. ASSUME NEW s \in Sessions, NEW k \in Keys, TakeOver(s, k)
        PROVE  Kept(j) \/ Claimed(j)
    <2>1. lease[k].token + 1 \in Nat /\ lease[k].left \in Remaining
      BY DEF TypeOK, LeaseRows, Tokens
    <2>2. /\ lease'[k] = [owner |-> s, token |-> lease[k].token + 1, left |-> TTL]
          /\ \A i \in Keys : i # k => lease'[i] = lease[i]
      BY <1>6, <2>1, GrantRows DEF TakeOver
    <2>3. CASE j = k
      BY <1>6, <2>1, <2>2, <2>3 DEF TakeOver, Claimed, Live, IsExpired, Remaining, Expired
    <2> QED BY <1>2, <2>2, <2>3
  <1>7. ASSUME NEW s \in Sessions, NEW k \in Keys, renew_work_lease(s, k)
        PROVE  Kept(j)
    <2>1. lease' = [lease EXCEPT ![k] = [lease[k] EXCEPT !.left = TTL]]
      BY <1>7 DEF renew_work_lease
    <2>2. CASE j = k
      <3>1. lease'[j] = [lease[j] EXCEPT !.left = TTL]
        BY <2>1, <2>2 DEF TypeOK
      <3> QED BY <1>1, <3>1 DEF Kept, LeaseRows, Remaining, Expired
    <2>3. CASE j # k
      BY <1>2, <2>1, <2>3 DEF TypeOK
    <2> QED BY <2>2, <2>3
  <1>8. ASSUME NEW s \in Sessions, NEW k \in Keys, release_work_lease(s, k)
        PROVE  Kept(j) \/ GivenUp(j)
    <2>1. CASE j = k /\ Matches(s, k, held[s][k])
      <3>1. lease'[j] = NoLease /\ held'[s][j] = 0 /\ j \notin HandoffKeys
        BY <1>8, <2>1 DEF release_work_lease, TypeOK
      <3> QED BY <2>1, <3>1 DEF GivenUp, Matches
    <2>2. CASE ~(j = k /\ Matches(s, k, held[s][k]))
      BY <1>2, <1>8, <2>2 DEF release_work_lease, TypeOK
    <2> QED BY <2>1, <2>2
  <1>9. ASSUME NEW s \in Sessions, NEW k \in Keys,
               relinquish_work_lease_preserving_fence(s, k)
        PROVE  Kept(j) \/ GivenUp(j)
    <2>1. CASE j = k /\ Matches(s, k, held[s][k])
      <3>1. lease'[j] = [lease[j] EXCEPT !.left = Expired] /\ held'[s][j] = 0
        BY <1>9, <2>1 DEF relinquish_work_lease_preserving_fence, TypeOK
      <3> QED BY <1>1, <2>1, <3>1 DEF GivenUp, Matches, LeaseRows
    <2>2. CASE ~(j = k /\ Matches(s, k, held[s][k]))
      BY <1>2, <1>9, <2>2 DEF relinquish_work_lease_preserving_fence, TypeOK
    <2> QED BY <2>1, <2>2
  <1>10. CASE Tick
    <2>1. lease'[j] = [lease[j] EXCEPT !.left = Elapse(lease[j].left)]
      BY <1>10 DEF Tick
    <2> QED BY <1>1, <2>1, ElapseOne DEF Kept, LeaseRows
  <1>11. CASE UNCHANGED vars
    BY <1>2, <1>11 DEF vars
  <1> QED
    BY <1>3, <1>4, <1>5, <1>6, <1>7, <1>8, <1>9, <1>10, <1>11 DEF Next, LeaseStep

\* A key without a row shows no token, so that its first grant advances it.
LEMMA BlankAlways == Spec => []Blank
  <1>1. Init => Blank
    BY DEF Init, Blank, NoLease
  <1>2. TypeOK /\ Blank /\ [Next]_vars => Blank'
    <2> SUFFICES ASSUME TypeOK, Blank, [Next]_vars, NEW j \in Keys, ~HasRow(j)'
                 PROVE  lease'[j].token = 0
      BY DEF Blank
    <2>1. Kept(j) \/ GivenUp(j) \/ Claimed(j)
      BY RowMoves
    <2> QED BY <2>1 DEF Kept, GivenUp, Claimed, NoLease, HasRow, Blank
  <1> QED BY <1>1, <1>2, TypeCorrect, PTL DEF Spec

\* On a key that its owners only relinquish, the token of the row never goes
\* back and strictly advances whenever the key changes hands, whatever expires,
\* is taken over or is orphaned by a crash.
THEOREM FenceAdvances == Spec => FenceAdvancesOnHandoff
  <1>1. TypeOK /\ Blank /\ [Next]_vars =>
            \A k \in HandoffKeys :
                /\ lease'[k].token >= lease[k].token
                /\ lease'[k].owner # lease[k].owner => lease'[k].token > lease[k].token
    <2> SUFFICES ASSUME TypeOK, Blank, [Next]_vars, NEW k \in HandoffKeys
                 PROVE  /\ lease'[k].token >= lease[k].token
                        /\ lease'[k].owner # lease[k].owner => lease'[k].token > lease[k].token
      OBVIOUS
    <2>1. Kept(k) \/ GivenUp(k) \/ Claimed(k)
      BY RowMoves
    <2>2. lease[k].token \in Nat /\ lease'[k].token \in Nat
      BY TypeStep DEF TypeOK, LeaseRows, Tokens
    <2> QED BY <2>1, <2>2 DEF Kept, GivenUp, Claimed, Blank
  <1>2. TypeOK /\ Blank /\ [Next]_vars =>
            [\A k \in HandoffKeys :
                /\ lease'[k].token >= lease[k].token
                /\ lease'[k].owner # lease[k].owner => lease'[k].token > lease[k].token]_vars
    BY <1>1
  <1> QED BY <1>2, TypeCorrect, BlankAlways, PTL DEF Spec, FenceAdvancesOnHandoff

\* A live lease is lost only through its own owner quoting the current token:
\* nobody else's acquisition, late release or late relinquish displaces it.
THEOREM LiveOwnersUndisturbed == Spec => LiveOwnerUndisturbed
  <1> DEFINE Undisturbed ==
        \A k \in Keys :
          LET o == lease[k].owner IN
          Live(k) /\ ~(lease'[k].owner = o /\ lease'[k].token = lease[k].token
                       /\ lease'[k].left >= lease[k].left - 1)
             => held[o][k] = lease[k].token /\ held'[o][k] = 0
  <1>1. TypeOK /\ [Next]_vars => Undisturbed
    <2> SUFFICES ASSUME TypeOK, [Next]_vars, NEW k \in Keys, Live(k), ~Kept(k)
                 PROVE  /\ held[lease[k].owner][k] = lease[k].token
                        /\ held'[lease[k].owner][k] = 0
      BY DEF Kept
    <2>1. GivenUp(k)
      BY RowMoves DEF Claimed
    <2> QED BY <2>1 DEF GivenUp
  <1>2. TypeOK /\ [Next]_vars => [Undisturbed]_vars
    BY <1>1
  <1> QED BY <1>2, TypeCorrect, PTL DEF Spec, LiveOwnerUndisturbed
=============================================================================
