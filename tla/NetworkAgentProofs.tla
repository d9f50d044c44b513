------------------------- MODULE NetworkAgentProofs -------------------------
(***************************************************************************)
(* The network agent mutates the host at most once per operation, admits    *)
(* commands in the order of their fencing tokens and implements the         *)
(* at-most-once executor, for any commands, tokens, crashes, failing writes *)
(* and failing hosts.                                                       *)
(***************************************************************************)
EXTENDS NetworkAgent, TLAPS

Steps == {"Free", "Checked", "Admitted", "Applying", "Applied", "Failed"}

\* Nothing waits and nothing runs in an agent that is down; a task in the lane
\* has a command.
Idle ==
    /\ ~up => lane = Free /\ queued = {} /\ observing = {}
    /\ lane.step = "Free" <=> lane.cmd = NoCommand
    /\ lane.step = "Free" => lane = Free

\* What is past its admission is journaled, and what has not come to its mutation
\* never mutated anything.
InLane ==
    /\ lane.step \in {"Admitted", "Applying", "Applied", "Failed"} => Journaled(lane.cmd)
    /\ lane.step \in {"Admitted", "Applying"} => runs[Identity[lane.cmd]] = 0
    /\ lane.step = "Applied" => host = Effect[lane.cmd]

\* What mutated the host is journaled, on disk: no crash can hide it.
Ran == \A o \in Operations :
          /\ runs[o] <= 1
          /\ runs[o] > 0 => \E c \in Commands : Identity[c] = o /\ Journaled(c)

\* A token that fences others, by an admission or by an answer, is not above
\* the agent's lease: neither the one in memory nor, after a crash, the file's.
Below(n) == n <= disk_lease.token /\ (up => n <= authority.token)

Fences ==
    /\ up => authority.token <= disk_lease.token
    /\ Below(fence)
    /\ \A c \in Commands : Below(not_found[c])
    /\ lane # Free => lane.token <= authority.token
    /\ \A q \in observing : q[2] <= authority.token
    /\ lane.step = "Checked" => fence <= lane.token /\ not_found[lane.cmd] <= lane.token

NInv == TypeOK /\ Idle /\ InLane /\ Ran /\ Fences

-----------------------------------------------------------------------------
\* A file holds what it held or what was written.
LEMMA WrittenType ==
  ASSUME NEW old, NEW new, NEW w
  PROVE  Written(old, new, w) \in {old, new}
  BY DEF Written

\* An observation keeps what is journaled, and finds only what the host holds.
LEMMA ReconcileKeeps ==
  ASSUME TypeOK, NEW c \in Commands, NEW w \in Writes, Journaled(c), reconcile(c, w)
  PROVE  /\ journal' \in [Commands -> Statuses]
         /\ \A d \in Commands : Journaled(d)' <=> Journaled(d)
         /\ \A d \in Commands : journal[d] # "Succeeded" /\ journal'[d] = "Succeeded"
                                    => host = Effect[d]
  <1>1. CASE journal' = journal BY <1>1 DEF TypeOK, Journaled
  <1>2. CASE journal' # journal
    <2>1. PICK s \in Observed(c) : journal' = [journal EXCEPT ![c] = s]
      BY <1>2 DEF reconcile, Written
    <2>2. s \in {"Unknown", "Succeeded"} /\ (s = "Succeeded" => host = Effect[c])
      BY DEF Observed
    <2> QED BY <2>1, <2>2 DEF TypeOK, Statuses, Journaled
  <1> QED BY <1>1, <1>2

\* An agent that never ran has nothing to tell apart.
LEMMA InitInv == Init => NInv
  <1> SUFFICES ASSUME Init PROVE NInv
    OBVIOUS
  <1>1. TypeOK
    <2>1. NoLease \in Leases BY TokenAssumption DEF NoLease, Leases
    <2>2. Free \in [cmd : Commands \cup {NoCommand}, token : 0..MaxToken, step : Steps]
      BY TokenAssumption DEF Free, Steps
    <2>3. Initial \in Plans BY DEF Plans
    <2>4. "Absent" \in Statuses BY DEF Statuses
    <2>5. 0 \in 0..MaxToken /\ 0 \in 0..MaxRuns BY TokenAssumption, RunsAssumption
    <2> QED BY <2>1, <2>2, <2>3, <2>4, <2>5 DEF Init, TypeOK, Steps
  <1>2. Idle BY CommandsAssumption DEF Init, Idle, Free
  <1>3. InLane BY DEF Init, InLane, Free
  <1>4. Ran BY DEF Init, Ran
  <1>5. Fences BY DEF Init, Fences, Below, NoLease, Free
  <1> QED BY <1>1, <1>2, <1>3, <1>4, <1>5 DEF NInv

-----------------------------------------------------------------------------
(***************************************************************************)
(* One lemma per action, in the order of the model.                         *)
(***************************************************************************)
\* accept_lease only raises the token in memory, and never past the file's.
LEMMA AcceptLeaseStep ==
  ASSUME NInv, NEW t \in Tokens, NEW w \in Writes, accept_lease(t, w)
  PROVE  NInv'
  <1> DEFINE l == [token |-> t, left |-> TTL]
  <1>1. /\ l \in Leases /\ l.token = t /\ t \in Nat
    BY TokenAssumption DEF Leases, Tokens
  <1>2. /\ up /\ up' = up /\ disk_lease' = l /\ authority' \in {l, authority}
        /\ UNCHANGED <<journal, queued, observing, lane, host, plan_file, runs, fence, not_found>>
    BY DEF accept_lease, provider, history
  <1>3. authority.token \in Nat /\ t >= authority.token
    BY <1>1, TokenAssumption DEF accept_lease, StaleLease, NInv, TypeOK, Leases
  <1> HIDE DEF l
  <1>4. authority'.token <= t /\ authority.token <= authority'.token /\ authority'.token \in Nat
    BY <1>1, <1>2, <1>3
  <1>5. TypeOK' BY <1>1, <1>2 DEF NInv, TypeOK
  <1>6. Idle' BY <1>2 DEF NInv, Idle
  <1>7. InLane' BY <1>2 DEF NInv, InLane, Journaled
  <1>8. Ran' BY <1>2 DEF NInv, Ran, Journaled
  <1>9. fence \in Nat /\ lane.token \in Nat
        /\ (\A c \in Commands : not_found[c] \in Nat) /\ (\A q \in observing : q[2] \in Nat)
    BY TokenAssumption DEF NInv, TypeOK, Requests, Tokens
  <1>10. Fences' BY <1>1, <1>2, <1>3, <1>4, <1>9 DEF NInv, Fences, Below
  <1> QED BY <1>5, <1>6, <1>7, <1>8, <1>10 DEF NInv

\* The clock leaves the tokens alone.
LEMMA TickStep ==
  ASSUME NInv, Tick
  PROVE  NInv'
  <1>1. UNCHANGED <<up, journal, queued, observing, lane, host, plan_file, runs, fence, not_found>>
    BY DEF Tick, provider, history
  <1>2. ASSUME NEW l \in Leases PROVE Elapse(l) \in Leases /\ Elapse(l).token = l.token
    BY TokenAssumption DEF Elapse, Leases
  <1>3. /\ authority' \in Leases /\ authority'.token = authority.token
        /\ disk_lease' \in Leases /\ disk_lease'.token = disk_lease.token
    BY <1>2 DEF Tick, NInv, TypeOK
  <1>4. TypeOK' BY <1>1, <1>3 DEF NInv, TypeOK
  <1>5. Idle' BY <1>1 DEF NInv, Idle
  <1>6. InLane' BY <1>1 DEF NInv, InLane, Journaled
  <1>7. Ran' BY <1>1 DEF NInv, Ran, Journaled
  <1>8. Fences' BY <1>1, <1>3 DEF NInv, Fences, Below
  <1> QED BY <1>4, <1>5, <1>6, <1>7, <1>8 DEF NInv

\* A command that arrives waits for the lane.
LEMMA ExecuteArrives ==
  ASSUME NInv, NEW c \in Commands, NEW t \in Tokens, execute(c, t)
  PROVE  NInv'
  <1>1. /\ up /\ queued' = queued \cup {<<c, t>>}
        /\ UNCHANGED <<up, authority, disk_lease, journal, observing, lane, host, plan_file,
                       runs, fence, not_found>>
    BY DEF execute, provider, history
  <1>2. TypeOK' BY <1>1 DEF NInv, TypeOK, Requests
  <1>3. Idle' BY <1>1 DEF NInv, Idle
  <1>4. InLane' BY <1>1 DEF NInv, InLane, Journaled
  <1>5. Ran' BY <1>1 DEF NInv, Ran, Journaled
  <1>6. Fences' BY <1>1 DEF NInv, Fences, Below
  <1> QED BY <1>2, <1>3, <1>4, <1>5, <1>6 DEF NInv

\* The token of the task is the authority's, which is above every fence.
LEMMA TakeLaneStep ==
  ASSUME NInv, NEW c \in Commands, NEW t \in Tokens, take_lane(c, t)
  PROVE  NInv'
  <1> DEFINE l == [cmd |-> c, token |-> t, step |-> "Checked"]
  <1>1. /\ queued' = queued \ {<<c, t>>} /\ lane = Free
        /\ \/ lane' = l /\ authority.token = t
           \/ lane' = Free
        /\ UNCHANGED <<up, authority, disk_lease, journal, observing, host, plan_file, runs, fence, not_found>>
    BY DEF take_lane, current_authority, provider, history
  <1>2. up BY DEF take_lane, NInv, Idle
  <1>3. TypeOK'
    <2>1. l \in [cmd : Commands \cup {NoCommand}, token : 0..MaxToken, step : Steps]
      BY TokenAssumption DEF Tokens, Steps
    <2> HIDE DEF l
    <2> QED BY <1>1, <2>1 DEF NInv, TypeOK, Steps
  <1>4. Idle' BY <1>1, <1>2, CommandsAssumption DEF NInv, Idle, Free
  <1>5. InLane' BY <1>1 DEF InLane, Free
  <1>6. Ran' BY <1>1 DEF NInv, Ran, Journaled
  <1>7. Fences'
    <2>1. t \in Nat BY TokenAssumption DEF Tokens
    <2> QED BY <1>1, <1>2, <2>1 DEF NInv, Fences, Below, Free
  <1> QED BY <1>3, <1>4, <1>5, <1>6, <1>7 DEF NInv

\* The journal gains the command: no attempt of its operation was journaled, so
\* none has mutated the host.
LEMMA AdmitStep ==
  ASSUME NInv, NEW c \in Commands, NEW w \in Writes, admit_with_authority(c, w)
  PROVE  NInv'
  <1>1. /\ lane.cmd = c /\ lane.step = "Checked" /\ ~Journaled(c) /\ ~Conflicts(c)
        /\ UNCHANGED <<up, authority, disk_lease, queued, observing, host, plan_file, runs, not_found>>
    BY DEF admit_with_authority, At, provider
  <1>2. up BY <1>1 DEF NInv, Idle, Free
  <1>3. runs[Identity[c]] = 0
    <2>1. Identity[c] \in Operations /\ runs[Identity[c]] \in Nat
      BY RunsAssumption DEF Operations, NInv, TypeOK
    <2> QED BY <1>1, <2>1 DEF NInv, Ran, Conflicts
  <1>4. /\ journal' \in [Commands -> Statuses]
        /\ \A d \in Commands : Journaled(d) => Journaled(d)'
        /\ w # "lost" => Journaled(c)'
    <2>1. journal' \in {journal, [journal EXCEPT ![c] = "Accepted"]}
          /\ (w # "lost" => journal' = [journal EXCEPT ![c] = "Accepted"])
      BY DEF admit_with_authority, Written
    <2> QED BY <2>1 DEF NInv, TypeOK, Statuses, Journaled
  <1>5. \/ w = "ok" /\ lane' = [cmd |-> c, token |-> lane.token, step |-> "Admitted"]
        \/ lane' = Free
    BY <1>1 DEF admit_with_authority, NInv, TypeOK
  <1>6. fence' \in {fence, lane.token}
    BY DEF admit_with_authority, Max2
  <1>7. lane.token \in 0..MaxToken /\ fence \in 0..MaxToken BY DEF NInv, TypeOK
  <1>8. TypeOK'
    <2>1. lane' \in [cmd : Commands \cup {NoCommand}, token : 0..MaxToken, step : Steps]
      BY <1>5, <1>7, TokenAssumption DEF Free, Steps
    <2> QED BY <1>1, <1>4, <1>6, <1>7, <2>1 DEF NInv, TypeOK, Steps
  <1>9. Idle' BY <1>1, <1>2, <1>5, CommandsAssumption DEF NInv, Idle, Free
  <1>10. InLane' BY <1>1, <1>3, <1>4, <1>5 DEF InLane, Free
  <1>11. Ran' BY <1>1, <1>4 DEF NInv, Ran
  <1>12. Fences'
    <2>1. lane.token <= authority.token /\ lane.token <= disk_lease.token
      <3>1. lane # Free BY <1>1 DEF Free
      <3>2. authority.token \in Nat /\ disk_lease.token \in Nat /\ lane.token \in Nat
        BY TokenAssumption DEF NInv, TypeOK, Leases
      <3> QED BY <1>2, <3>1, <3>2 DEF NInv, Fences
    <2>2. Below(fence)' /\ \A d \in Commands : Below(not_found[d])'
      BY <1>1, <1>6, <2>1 DEF NInv, Fences, Below
    <2>3. lane' # Free => lane'.token <= authority'.token
      BY <1>1, <1>5, <2>1
    <2>4. lane'.step # "Checked" BY <1>5 DEF Free
    <2> QED BY <1>1, <2>2, <2>3, <2>4 DEF NInv, Fences
  <1> QED BY <1>8, <1>9, <1>10, <1>11, <1>12 DEF NInv

\* A task that leaves the lane, whatever it made of the journal.
LEMMA LeaveLane ==
  ASSUME NInv, lane' = Free, journal' \in [Commands -> Statuses],
         \A d \in Commands : Journaled(d) => Journaled(d)',
         UNCHANGED <<up, authority, disk_lease, queued, observing, host, plan_file, runs, fence, not_found>>
  PROVE  NInv'
  <1>1. TypeOK'
    <2>1. Free \in [cmd : Commands \cup {NoCommand}, token : 0..MaxToken, step : Steps]
      BY TokenAssumption DEF Free, Steps
    <2> QED BY <2>1 DEF NInv, TypeOK, Steps
  <1>2. Idle' BY CommandsAssumption DEF NInv, Idle, Free
  <1>3. InLane' BY DEF InLane, Free
  <1>4. Ran' BY DEF NInv, Ran
  <1>5. Fences' BY DEF NInv, Fences, Below, Free
  <1> QED BY <1>1, <1>2, <1>3, <1>4, <1>5 DEF NInv

\* A refused command leaves no trace.
LEMMA RefuseStep ==
  ASSUME NInv, NEW c \in Commands, Refuse(c)
  PROVE  NInv'
  <1>1. /\ lane' = Free /\ journal' = journal
        /\ UNCHANGED <<up, authority, disk_lease, queued, observing, host, plan_file, runs, fence, not_found>>
    BY DEF Refuse, provider, history
  <1> QED BY <1>1, LeaveLane DEF NInv, TypeOK, Journaled

\* A journaled command is observed, and the task leaves the lane.
LEMMA ReplayStep ==
  ASSUME NInv, NEW c \in Commands, NEW w \in Writes, Replay(c, w)
  PROVE  NInv'
  <1>1. /\ lane' = Free /\ Journaled(c) /\ reconcile(c, w)
        /\ UNCHANGED <<up, authority, disk_lease, queued, observing, host, plan_file, runs, fence, not_found>>
    BY DEF Replay, provider, history
  <1>2. TypeOK BY DEF NInv
  <1>3. /\ journal' \in [Commands -> Statuses]
        /\ \A d \in Commands : Journaled(d) => Journaled(d)'
    BY <1>1, <1>2, ReconcileKeeps
  <1> QED BY <1>1, <1>3, LeaveLane

\* The command is marked Applying, or the task ends on the failed write.
LEMMA MarkApplyingStep ==
  ASSUME NInv, NEW c \in Commands, NEW w \in Writes, MarkApplying(c, w)
  PROVE  NInv'
  <1>1. /\ lane.cmd = c /\ lane.step = "Admitted"
        /\ journal' \in {journal, [journal EXCEPT ![c] = "Applying"]}
        /\ UNCHANGED <<up, authority, disk_lease, queued, observing, host, plan_file, runs, fence, not_found>>
    BY WrittenType DEF MarkApplying, At, provider, history
  <1>2. /\ journal' \in [Commands -> Statuses]
        /\ \A d \in Commands : Journaled(d) => Journaled(d)'
    BY <1>1 DEF NInv, TypeOK, Statuses, Journaled
  <1>3. CASE lane' = Free BY <1>1, <1>2, <1>3, LeaveLane
  <1>4. CASE lane' = [cmd |-> c, token |-> lane.token, step |-> "Applying"]
    <2>1. TypeOK'
      <3>1. lane' \in [cmd : Commands \cup {NoCommand}, token : 0..MaxToken, step : Steps]
        BY <1>4 DEF NInv, TypeOK, Steps
      <3> QED BY <1>1, <1>2, <3>1 DEF NInv, TypeOK, Steps
    <2>2. up BY <1>1 DEF NInv, Idle, Free
    <2>3. Idle' BY <1>1, <1>4, <2>2, CommandsAssumption DEF NInv, Idle
    <2>4. InLane' BY <1>1, <1>2, <1>4 DEF NInv, InLane
    <2>5. Ran' BY <1>1, <1>2 DEF NInv, Ran
    <2>6. Fences' BY <1>1, <1>4 DEF NInv, Fences, Below, Free
    <2> QED BY <2>1, <2>3, <2>4, <2>5, <2>6 DEF NInv
  <1>5. lane' \in {Free, [cmd |-> c, token |-> lane.token, step |-> "Applying"]}
    BY <1>1 DEF MarkApplying, NInv, TypeOK
  <1> QED BY <1>3, <1>4, <1>5

\* What a mutation does: the only step that counts a run.
LEMMA MutateEffect ==
  ASSUME NInv, NEW c \in Commands, Mutate(c)
  PROVE  /\ lane.cmd = c /\ lane.step = "Applying" /\ Journaled(c)
         /\ runs[Identity[c]] = 0 /\ runs' = [runs EXCEPT ![Identity[c]] = @ + 1]
         /\ \/ lane' = [cmd |-> c, token |-> lane.token, step |-> "Applied"] /\ host' = Effect[c]
            \/ lane' = [cmd |-> c, token |-> lane.token, step |-> "Failed"]
         /\ host' \in Plans /\ plan_file' \in Plans
         /\ UNCHANGED <<up, authority, disk_lease, journal, queued, observing, fence, not_found>>
  <1>1. /\ lane.cmd = c /\ lane.step = "Applying"
        /\ runs' = [runs EXCEPT ![Identity[c]] = @ + 1]
        /\ UNCHANGED <<up, authority, disk_lease, journal, queued, observing, fence, not_found>>
        /\ host' \in {host, Effect[c], Partial} /\ plan_file' \in {plan_file, Effect[c]}
    BY DEF Mutate, At
  <1>2. Journaled(c) /\ runs[Identity[c]] = 0 BY <1>1 DEF NInv, InLane
  <1>3. \/ lane' = [cmd |-> c, token |-> lane.token, step |-> "Applied"] /\ host' = Effect[c]
        \/ lane' = [cmd |-> c, token |-> lane.token, step |-> "Failed"]
    BY <1>1 DEF Mutate, NInv, TypeOK
  <1>4. host' \in Plans /\ plan_file' \in Plans BY <1>1 DEF Plans, NInv, TypeOK
  <1> QED BY <1>1, <1>2, <1>3, <1>4

\* A mutation is the operation's first, and its command is journaled.
LEMMA MutateStep ==
  ASSUME NInv, NEW c \in Commands, Mutate(c)
  PROVE  NInv'
  <1> DEFINE o == Identity[c]
  <1>1. /\ lane.cmd = c /\ lane.step = "Applying" /\ Journaled(c)
        /\ runs[o] = 0 /\ runs' = [runs EXCEPT ![o] = @ + 1]
        /\ \/ lane' = [cmd |-> c, token |-> lane.token, step |-> "Applied"] /\ host' = Effect[c]
           \/ lane' = [cmd |-> c, token |-> lane.token, step |-> "Failed"]
        /\ host' \in Plans /\ plan_file' \in Plans
        /\ UNCHANGED <<up, authority, disk_lease, journal, queued, observing, fence, not_found>>
    BY MutateEffect
  <1>2. o \in Operations BY DEF Operations
  <1>3. runs' \in [Operations -> 0..MaxRuns] /\ runs'[o] = 1
        /\ \A p \in Operations : p # o => runs'[p] = runs[p]
    BY <1>1, <1>2, RunsAssumption DEF NInv, TypeOK
  <1>4. TypeOK'
    <2>1. lane' \in [cmd : Commands \cup {NoCommand}, token : 0..MaxToken, step : Steps]
      BY <1>1 DEF NInv, TypeOK, Steps
    <2> QED BY <1>1, <1>3, <2>1 DEF NInv, TypeOK, Steps
  <1>5. Idle'
    <2>1. up BY <1>1 DEF NInv, Idle, Free
    <2> QED BY <1>1, <2>1, CommandsAssumption DEF Idle
  <1>6. InLane' BY <1>1 DEF InLane, Journaled
  <1>7. Ran'
    <2> SUFFICES ASSUME NEW p \in Operations
                 PROVE  /\ runs'[p] <= 1
                        /\ runs'[p] > 0 => \E d \in Commands : Identity[d] = p /\ Journaled(d)'
      BY DEF Ran
    <2>1. CASE p = o BY <1>1, <1>3, <2>1 DEF Journaled
    <2>2. CASE p # o BY <1>1, <1>3, <2>2 DEF NInv, Ran, Journaled
    <2> QED BY <2>1, <2>2
  <1>8. Fences' BY <1>1 DEF NInv, Fences, Below, Free
  <1> QED BY <1>4, <1>5, <1>6, <1>7, <1>8 DEF NInv

\* The result is journaled, or its write fails; the task leaves the lane.
LEMMA FinishStep ==
  ASSUME NInv, NEW c \in Commands, NEW w \in Writes, Finish(c, w)
  PROVE  NInv'
  <1>1. /\ lane' = Free
        /\ \E s \in {"Succeeded", "Unknown"} : journal' \in {journal, [journal EXCEPT ![c] = s]}
        /\ UNCHANGED <<up, authority, disk_lease, queued, observing, host, plan_file, runs, fence, not_found>>
    BY WrittenType DEF Finish, provider, history
  <1>2. /\ journal' \in [Commands -> Statuses]
        /\ \A d \in Commands : Journaled(d) => Journaled(d)'
    BY <1>1 DEF NInv, TypeOK, Statuses, Journaled
  <1> QED BY <1>1, <1>2, LeaveLane

\* An observation comes with a token the agent has seen.
LEMMA ObserveArrives ==
  ASSUME NInv, NEW c \in Commands, NEW t \in Tokens, observe(c, t)
  PROVE  NInv'
  <1>1. /\ up /\ t <= authority.token /\ observing' = observing \cup {<<c, t>>}
        /\ UNCHANGED <<up, authority, disk_lease, journal, queued, lane, host, plan_file,
                       runs, fence, not_found>>
    BY DEF observe, provider, history
  <1>2. TypeOK' BY <1>1 DEF NInv, TypeOK, Requests
  <1>3. Idle' BY <1>1 DEF NInv, Idle
  <1>4. InLane' BY <1>1 DEF NInv, InLane, Journaled
  <1>5. Ran' BY <1>1 DEF NInv, Ran, Journaled
  <1>6. Fences' BY <1>1 DEF NInv, Fences, Below
  <1> QED BY <1>2, <1>3, <1>4, <1>5, <1>6 DEF NInv

\* The answer is given while nobody is between its check and its admission.
LEMMA AnswerObserveStep ==
  ASSUME NInv, NEW c \in Commands, NEW t \in Tokens, NEW w \in Writes, AnswerObserve(c, t, w)
  PROVE  NInv'
  <1>1. /\ <<c, t>> \in observing /\ lane = Free /\ observing' = observing \ {<<c, t>>}
        /\ UNCHANGED <<up, authority, disk_lease, queued, lane, host, plan_file, runs, fence>>
    BY DEF AnswerObserve, LaneForObserve, provider
  <1>2. up BY <1>1 DEF NInv, Idle
  <1>3. t <= authority.token /\ t \in Nat /\ t \in 0..MaxToken
    BY <1>1, TokenAssumption DEF NInv, Fences, Tokens
  <1>4. /\ journal' \in [Commands -> Statuses]
        /\ \A d \in Commands : Journaled(d) => Journaled(d)'
    BY ReconcileKeeps DEF AnswerObserve, NInv, TypeOK, Journaled
  <1>5. /\ not_found' \in [Commands -> 0..MaxToken]
        /\ \A d \in Commands : not_found'[d] \in {not_found[d], t}
    BY <1>3 DEF AnswerObserve, Max2, NInv, TypeOK
  <1>6. TypeOK' BY <1>1, <1>4, <1>5 DEF NInv, TypeOK
  <1>7. Idle' BY <1>1, <1>2 DEF NInv, Idle
  <1>8. InLane' BY <1>1 DEF InLane, Free
  <1>9. Ran' BY <1>1, <1>4 DEF NInv, Ran
  <1>10. Fences'
    <2>1. t <= disk_lease.token
      <3>1. authority.token \in Nat /\ disk_lease.token \in Nat
        BY TokenAssumption DEF NInv, TypeOK, Leases
      <3> QED BY <1>2, <1>3, <3>1 DEF NInv, Fences
    <2>2. \A d \in Commands : Below(not_found[d])'
      BY <1>1, <1>3, <1>5, <2>1 DEF NInv, Fences, Below
    <2> QED BY <1>1, <2>2 DEF NInv, Fences, Below, Free
  <1> QED BY <1>6, <1>7, <1>8, <1>9, <1>10 DEF NInv

\* A crash leaves the files, and they bound every fence.
LEMMA CrashStep ==
  ASSUME NInv, Crash
  PROVE  NInv'
  <1>1. /\ ~up' /\ authority' = NoLease /\ queued' = {} /\ observing' = {} /\ lane' = Free
        /\ up' \in BOOLEAN
        /\ UNCHANGED <<disk_lease, journal, host, plan_file, runs, fence, not_found>>
    BY DEF Crash, provider, history
  <1>2. TypeOK'
    <2>1. NoLease \in Leases BY TokenAssumption DEF NoLease, Leases
    <2>2. Free \in [cmd : Commands \cup {NoCommand}, token : 0..MaxToken, step : Steps]
      BY TokenAssumption DEF Free, Steps
    <2> QED BY <1>1, <2>1, <2>2 DEF NInv, TypeOK, Steps
  <1>3. Idle' BY <1>1, CommandsAssumption DEF Idle, Free
  <1>4. InLane' BY <1>1 DEF InLane, Free
  <1>5. Ran' BY <1>1 DEF NInv, Ran, Journaled
  <1>6. Fences' BY <1>1 DEF NInv, Fences, Below, Free
  <1> QED BY <1>2, <1>3, <1>4, <1>5, <1>6 DEF NInv

\* What the startup makes of the journal.
LEMMA OpenKeeps ==
  ASSUME NInv, NEW S \in SUBSET Commands, open(S)
  PROVE  /\ journal' \in [Commands -> Statuses]
         /\ \A d \in Commands : Journaled(d)' <=> Journaled(d)
         /\ \A d \in Commands : journal[d] # "Succeeded" /\ journal'[d] = "Succeeded"
                                    => host = Effect[d]
  <1>1. S \subseteq Pending /\ reconcile_pending(S) BY DEF open
  <1>2. PICK seen \in [S -> {"Unknown", "Succeeded"}] :
            /\ \A c \in S : seen[c] \in Observed(c)
            /\ journal' = [c \in Commands |-> IF c \in S THEN seen[c] ELSE journal[c]]
    BY <1>1 DEF reconcile_pending
  <1>3. \A c \in S : seen[c] \in {"Unknown", "Succeeded"} /\ journal[c] # "Absent"
    BY <1>1, <1>2 DEF Pending
  <1>4. \A c \in S : seen[c] = "Succeeded" => host = Effect[c]
    BY <1>2 DEF Observed
  <1> QED BY <1>2, <1>3, <1>4 DEF NInv, TypeOK, Statuses, Journaled

\* The agent comes back with the file's lease, which no fence is above.
LEMMA OpenStep ==
  ASSUME NInv, NEW S \in SUBSET Commands, open(S)
  PROVE  NInv'
  <1>1. /\ ~up
        /\ \/ up' = TRUE /\ authority' = disk_lease
           \/ up' = up /\ authority' = authority
        /\ UNCHANGED <<disk_lease, queued, observing, lane, host, plan_file, runs, fence, not_found>>
    BY DEF open, provider, history, load_lease
  <1>2. lane = Free /\ queued = {} /\ observing = {} BY <1>1 DEF NInv, Idle
  <1>3. /\ journal' \in [Commands -> Statuses]
        /\ \A d \in Commands : Journaled(d)' <=> Journaled(d)
    BY OpenKeeps
  <1>4. TypeOK'
    <2>1. up' \in BOOLEAN /\ authority' \in Leases BY <1>1 DEF NInv, TypeOK
    <2> QED BY <1>1, <1>3, <2>1 DEF NInv, TypeOK
  <1>5. Idle' BY <1>1, <1>2, CommandsAssumption DEF Idle, Free
  <1>6. InLane' BY <1>1, <1>2 DEF InLane, Free
  <1>7. Ran' BY <1>1, <1>3 DEF NInv, Ran
  <1>8. Fences'
    <2>1. disk_lease.token \in Nat BY TokenAssumption DEF NInv, TypeOK, Leases
    <2> QED BY <1>1, <1>2, <2>1 DEF NInv, Fences, Below, Free
  <1> QED BY <1>4, <1>5, <1>6, <1>7, <1>8 DEF NInv

\* Every step preserves the invariant.
LEMMA NextInv ==
  ASSUME NInv, [Next]_vars
  PROVE  NInv'
  <1>1. CASE \E t \in Tokens, w \in Writes : accept_lease(t, w)
    BY <1>1, AcceptLeaseStep
  <1>2. CASE Tick BY <1>2, TickStep
  <1>3. CASE \E c \in Commands : ExecuteStep(c)
    <2>1. PICK c \in Commands : ExecuteStep(c) BY <1>3
    <2>2. CASE \E t \in Tokens : execute(c, t) BY <2>2, ExecuteArrives
    <2>3. CASE \E t \in Tokens : take_lane(c, t) BY <2>3, TakeLaneStep
    <2>4. CASE \E w \in Writes : admit_with_authority(c, w) BY <2>4, AdmitStep
    <2>5. CASE Refuse(c) BY <2>5, RefuseStep
    <2>6. CASE \E w \in Writes : Replay(c, w) BY <2>6, ReplayStep
    <2>7. CASE \E w \in Writes : MarkApplying(c, w) BY <2>7, MarkApplyingStep
    <2>8. CASE Mutate(c) BY <2>8, MutateStep
    <2>9. CASE \E w \in Writes : Finish(c, w) BY <2>9, FinishStep
    <2> QED BY <2>1, <2>2, <2>3, <2>4, <2>5, <2>6, <2>7, <2>8, <2>9 DEF ExecuteStep
  <1>4. CASE \E c \in Commands : ObserveStep(c)
    BY <1>4, ObserveArrives, AnswerObserveStep DEF ObserveStep
  <1>5. CASE Crash BY <1>5, CrashStep
  <1>6. CASE \E S \in SUBSET Commands : open(S) BY <1>6, OpenStep
  <1>7. CASE UNCHANGED vars
    <2>1. UNCHANGED <<up, authority, disk_lease, journal, queued, observing, lane, host, plan_file,
                      runs, fence, not_found>>
      BY <1>7 DEF vars
    <2>2. TypeOK' BY <2>1 DEF NInv, TypeOK
    <2>3. Idle' BY <2>1 DEF NInv, Idle
    <2>4. InLane' BY <2>1 DEF NInv, InLane, Journaled
    <2>5. Ran' BY <2>1 DEF NInv, Ran, Journaled
    <2>6. Fences' BY <2>1 DEF NInv, Fences, Below
    <2> QED BY <2>2, <2>3, <2>4, <2>5, <2>6 DEF NInv
  <1> QED BY <1>1, <1>2, <1>3, <1>4, <1>5, <1>6, <1>7 DEF Next

\* The invariant of the network agent: what its files hold is enough to know,
\* after any crash, what may have mutated the host and which tokens are out.
THEOREM AgentInvariant == Spec => []NInv
  BY InitInv, NextInv, PTL DEF Spec

\* The memory, the two files and the histories of the network agent are well
\* typed, for any commands, tokens and faults.
THEOREM AgentTypeCorrect == Spec => []TypeOK
  BY AgentInvariant, PTL DEF NInv

\* NetworkPlanExecutor never repeats a mutation, whichever attempt of an
\* operation is delivered, how often, and wherever the agent crashes or a write
\* fails.
THEOREM MutatesAtMostOnce == Spec => []MutatedAtMostOnce
  <1>1. NInv => MutatedAtMostOnce BY DEF NInv, Ran, MutatedAtMostOnce
  <1> QED BY <1>1, AgentInvariant, PTL

-----------------------------------------------------------------------------
\* A command enters the journal by its admission only.
LEMMA OnlyAdmission ==
  ASSUME NInv, [Next]_vars, NEW c \in Commands, ~Journaled(c), Journaled(c)'
  PROVE  lane.step = "Checked" /\ lane.cmd = c
  <1>1. CASE \E d \in Commands, w \in Writes : admit_with_authority(d, w)
    <2>1. PICK d \in Commands, w \in Writes : admit_with_authority(d, w) BY <1>1
    <2>2. /\ lane.cmd = d /\ lane.step = "Checked"
          /\ journal' \in {journal, [journal EXCEPT ![d] = "Accepted"]}
      BY <2>1, WrittenType DEF admit_with_authority, At
    <2> QED BY <2>2 DEF NInv, TypeOK, Journaled
  <1>2. CASE \E S \in SUBSET Commands : open(S) BY <1>2, OpenKeeps
  <1>3. CASE \E d \in Commands, w \in Writes :
                Replay(d, w) \/ \E t \in Tokens : AnswerObserve(d, t, w)
    <2>1. CASE journal' = journal BY <2>1 DEF Journaled
    <2>2. CASE \E d \in Commands, w \in Writes : Journaled(d) /\ reconcile(d, w)
      BY <2>2, ReconcileKeeps DEF NInv
    <2> QED BY <1>3, <2>1, <2>2 DEF Replay, AnswerObserve
  <1>4. CASE \E d \in Commands, w \in Writes : MarkApplying(d, w) \/ Finish(d, w)
    <2> PICK d \in Commands, w \in Writes : MarkApplying(d, w) \/ Finish(d, w) BY <1>4
    <2>1. /\ \E s \in {"Applying", "Succeeded", "Unknown"} :
                journal' \in {journal, [journal EXCEPT ![d] = s]}
          /\ lane.cmd = d /\ lane.step \in {"Admitted", "Applied", "Failed"}
      <3>1. CASE MarkApplying(d, w) BY <3>1, WrittenType DEF MarkApplying, At
      <3>2. CASE Finish(d, w) BY <3>2, WrittenType DEF Finish
      <3> QED BY <3>1, <3>2
    <2>2. Journaled(d) BY <2>1 DEF NInv, InLane
    <2> QED BY <2>1, <2>2 DEF NInv, TypeOK, Journaled
  <1>5. CASE journal' = journal BY <1>5 DEF Journaled
  <1>6. \/ \E d \in Commands, w \in Writes : admit_with_authority(d, w)
        \/ \E S \in SUBSET Commands : open(S)
        \/ \E d \in Commands, w \in Writes :
              Replay(d, w) \/ \E t \in Tokens : AnswerObserve(d, t, w)
        \/ \E d \in Commands, w \in Writes : MarkApplying(d, w) \/ Finish(d, w)
        \/ journal' = journal
    BY DEF Next, ExecuteStep, ObserveStep, accept_lease, Tick, execute, take_lane, Refuse,
           Mutate, observe, Crash, vars
  <1> QED BY <1>1, <1>2, <1>3, <1>4, <1>5, <1>6

\* The agent admits commands in the order of the fencing tokens, although the
\* authority is not locked until the journal is written, across restarts and
\* failed writes of the lease file.
THEOREM AdmissionsAreFenced == Spec => AdmissionsFollowFence
  <1>1. NInv /\ [Next]_vars =>
          [\A c \in Commands :
              journal[c] = "Absent" /\ journal'[c] # "Absent" => lane.token >= fence]_vars
    <2> SUFFICES ASSUME NInv, [Next]_vars, NEW c \in Commands,
                        journal[c] = "Absent", journal'[c] # "Absent"
                 PROVE  lane.token >= fence
      OBVIOUS
    <2>1. lane.step = "Checked" BY OnlyAdmission DEF Journaled
    <2>2. lane.token \in Nat /\ fence \in Nat BY TokenAssumption DEF NInv, TypeOK
    <2> QED BY <2>1, <2>2 DEF NInv, Fences
  <1> QED BY <1>1, AgentInvariant, PTL DEF Spec, AdmissionsFollowFence

\* An answer "not_found" fences out the command under every smaller token.
THEOREM AnswersFence == Spec => NotFoundFences
  <1>1. NInv /\ [Next]_vars =>
          [\A c \in Commands :
              journal[c] = "Absent" /\ journal'[c] # "Absent" => lane.token >= not_found[c]]_vars
    <2> SUFFICES ASSUME NInv, [Next]_vars, NEW c \in Commands,
                        journal[c] = "Absent", journal'[c] # "Absent"
                 PROVE  lane.token >= not_found[c]
      OBVIOUS
    <2>1. lane.step = "Checked" /\ lane.cmd = c BY OnlyAdmission DEF Journaled
    <2>2. lane.token \in Nat /\ not_found[c] \in Nat BY TokenAssumption DEF NInv, TypeOK
    <2> QED BY <2>1, <2>2 DEF NInv, Fences
  <1> QED BY <1>1, AgentInvariant, PTL DEF Spec, NotFoundFences

\* A command is recorded as succeeded only while the host holds its plan: after
\* its own mutation, with the lane held, or by an observation that saw it.
THEOREM SuccessRealised == Spec => SuccessIsRealised
  <1>1. NInv /\ [Next]_vars =>
          [\A c \in Commands :
              journal[c] # "Succeeded" /\ journal'[c] = "Succeeded" => host = Effect[c]]_vars
    <2> SUFFICES ASSUME NInv, [Next]_vars, NEW c \in Commands,
                        journal[c] # "Succeeded", journal'[c] = "Succeeded"
                 PROVE  host = Effect[c]
      OBVIOUS
    <2>1. CASE \E S \in SUBSET Commands : open(S) BY <2>1, OpenKeeps
    <2>2. CASE \E d \in Commands, w \in Writes :
                  Replay(d, w) \/ \E t \in Tokens : AnswerObserve(d, t, w)
      <3>1. \E d \in Commands, w \in Writes : Journaled(d) /\ reconcile(d, w)
        BY <2>2 DEF Replay, AnswerObserve
      <3> QED BY <3>1, ReconcileKeeps DEF NInv
    <2>3. CASE \E d \in Commands, w \in Writes : Finish(d, w)
      <3> PICK d \in Commands, w \in Writes : Finish(d, w) BY <2>3
      <3>1. lane.cmd = d /\ (lane.step = "Applied" => host = Effect[d])
        BY DEF Finish, NInv, InLane
      <3>2. \/ lane.step = "Applied" /\ journal' \in {journal, [journal EXCEPT ![d] = "Succeeded"]}
            \/ journal' \in {journal, [journal EXCEPT ![d] = "Unknown"]}
        BY WrittenType DEF Finish
      <3> QED BY <3>1, <3>2 DEF NInv, TypeOK
    <2>4. CASE \E d \in Commands, w \in Writes : admit_with_authority(d, w) \/ MarkApplying(d, w)
      <3> PICK d \in Commands, w \in Writes : admit_with_authority(d, w) \/ MarkApplying(d, w)
        BY <2>4
      <3>1. CASE journal' \in {journal, [journal EXCEPT ![d] = "Accepted"]}
        BY <3>1 DEF NInv, TypeOK
      <3>2. CASE journal' \in {journal, [journal EXCEPT ![d] = "Applying"]}
        BY <3>2 DEF NInv, TypeOK
      <3>3. CASE admit_with_authority(d, w)
        BY <3>1, <3>3, WrittenType DEF admit_with_authority
      <3>4. CASE MarkApplying(d, w)
        BY <3>2, <3>4, WrittenType DEF MarkApplying
      <3> QED BY <3>3, <3>4
    <2>5. \/ \E d \in Commands, w \in Writes : admit_with_authority(d, w) \/ MarkApplying(d, w)
          \/ \E S \in SUBSET Commands : open(S)
          \/ \E d \in Commands, w \in Writes :
                Replay(d, w) \/ \E t \in Tokens : AnswerObserve(d, t, w)
          \/ \E d \in Commands, w \in Writes : Finish(d, w)
          \/ journal' = journal
      BY DEF Next, ExecuteStep, ObserveStep, accept_lease, Tick, execute, take_lane, Refuse,
             Mutate, observe, Crash, vars
    <2> QED BY <2>1, <2>2, <2>3, <2>4, <2>5
  <1> QED BY <1>1, AgentInvariant, PTL DEF Spec, SuccessIsRealised

-----------------------------------------------------------------------------
(***************************************************************************)
(* The refinement.  A mutation is a Run; every other step at most ends      *)
(* operations: journaling puts the operation into the hands of the lane,    *)
(* and whoever leaves the lane before the mutation ends it.                 *)
(***************************************************************************)
PendingNow == {o \in Operations : MayMutate(o)}

\* The lane comes to a mutation by an admission only, and whatever is journaled
\* stays journaled.
LEMMA Progress ==
  ASSUME NInv, [Next]_vars, ~ \E c \in Commands : Mutate(c)
  PROVE  /\ runs' = runs
         /\ \A d \in Commands : Journaled(d) => Journaled(d)'
         /\ lane'.step \in {"Admitted", "Applying"} =>
               /\ lane'.cmd = lane.cmd
               /\ \/ lane.step \in {"Admitted", "Applying"}
                  \/ ~Journaled(lane.cmd) /\ ~Conflicts(lane.cmd)
  <1>1. runs' = runs
    BY DEF Next, ExecuteStep, ObserveStep, accept_lease, Tick, execute, take_lane, Refuse,
           admit_with_authority, Replay, MarkApplying, Finish, observe, AnswerObserve, Crash,
           open, provider, history, vars
  <1>2. \A d \in Commands : Journaled(d) => Journaled(d)'
    <2> SUFFICES ASSUME NEW d \in Commands, Journaled(d) PROVE Journaled(d)'
      OBVIOUS
    <2>1. CASE \E S \in SUBSET Commands : open(S) BY <2>1, OpenKeeps
    <2>2. CASE \E e \in Commands, w \in Writes : Journaled(e) /\ reconcile(e, w)
      BY <2>2, ReconcileKeeps DEF NInv
    <2>3. CASE \E e \in Commands, s \in {"Accepted", "Applying", "Succeeded", "Unknown"} :
                  journal' \in {journal, [journal EXCEPT ![e] = s]}
      BY <2>3 DEF NInv, TypeOK, Journaled
    <2>4. CASE journal' = journal BY <2>4 DEF Journaled
    <2>5. ASSUME NEW e \in Commands, ExecuteStep(e)
          PROVE  \/ journal' = journal
                 \/ \E w \in Writes : Journaled(e) /\ reconcile(e, w)
                 \/ \E s \in {"Accepted", "Applying", "Succeeded", "Unknown"} :
                       journal' \in {journal, [journal EXCEPT ![e] = s]}
      <3>1. CASE \E w \in Writes : admit_with_authority(e, w)
        BY <3>1, WrittenType DEF admit_with_authority
      <3>2. CASE \E w \in Writes : MarkApplying(e, w) BY <3>2, WrittenType DEF MarkApplying
      <3>3. CASE \E w \in Writes : Finish(e, w)
        <4> PICK w \in Writes : Finish(e, w) BY <3>3
        <4>1. CASE journal' \in {journal, [journal EXCEPT ![e] = "Succeeded"]} BY <4>1
        <4>2. CASE journal' \in {journal, [journal EXCEPT ![e] = "Unknown"]} BY <4>2
        <4>3. \/ journal' = Written(journal, [journal EXCEPT ![e] = "Succeeded"], w)
              \/ journal' = Written(journal, [journal EXCEPT ![e] = "Unknown"], w)
          BY DEF Finish
        <4>4. \/ journal' \in {journal, [journal EXCEPT ![e] = "Succeeded"]}
              \/ journal' \in {journal, [journal EXCEPT ![e] = "Unknown"]}
          BY <4>3 DEF Written
        <4> QED BY <4>1, <4>2, <4>4
      <3>4. CASE \E w \in Writes : Replay(e, w) BY <3>4 DEF Replay
      <3>5. CASE \/ \E t \in Tokens : execute(e, t) \/ take_lane(e, t)
                 \/ Refuse(e) \/ Mutate(e)
        BY <3>5 DEF execute, take_lane, Refuse, Mutate
      <3> QED BY <2>5, <3>1, <3>2, <3>3, <3>4, <3>5 DEF ExecuteStep
    <2>6. ASSUME NEW e \in Commands, ObserveStep(e)
          PROVE  journal' = journal \/ \E w \in Writes : Journaled(e) /\ reconcile(e, w)
      BY <2>6 DEF ObserveStep, observe, AnswerObserve
    <2>7. \/ \E e \in Commands : ExecuteStep(e) \/ ObserveStep(e)
          \/ \E S \in SUBSET Commands : open(S)
          \/ journal' = journal
      BY DEF Next, accept_lease, Tick, Crash, vars
    <2> QED BY <2>1, <2>2, <2>3, <2>4, <2>5, <2>6, <2>7
  <1>3. ASSUME lane'.step \in {"Admitted", "Applying"}
        PROVE  /\ lane'.cmd = lane.cmd
               /\ \/ lane.step \in {"Admitted", "Applying"}
                  \/ ~Journaled(lane.cmd) /\ ~Conflicts(lane.cmd)
    <2>1. lane' # Free BY <1>3 DEF Free
    <2>2. CASE lane' = lane BY <1>3, <2>2
    <2>3. CASE \E c \in Commands, w \in Writes : admit_with_authority(c, w)
      <3> PICK c \in Commands, w \in Writes : admit_with_authority(c, w) BY <2>3
      <3> QED BY <2>1 DEF admit_with_authority, At, NInv, TypeOK
    <2>4. CASE \E c \in Commands, w \in Writes : MarkApplying(c, w)
      <3> PICK c \in Commands, w \in Writes : MarkApplying(c, w) BY <2>4
      <3> QED BY <2>1 DEF MarkApplying, At, NInv, TypeOK
    <2>5. CASE \E c \in Commands, t \in Tokens : take_lane(c, t)
      <3> PICK c \in Commands, t \in Tokens : take_lane(c, t) BY <2>5
      <3>1. lane' = [cmd |-> c, token |-> t, step |-> "Checked"] BY <2>1 DEF take_lane
      <3> QED BY <1>3, <3>1
    <2>6. \/ lane' = lane \/ lane' = Free
          \/ \E c \in Commands, w \in Writes : admit_with_authority(c, w) \/ MarkApplying(c, w)
          \/ \E c \in Commands, t \in Tokens : take_lane(c, t)
      BY DEF Next, ExecuteStep, ObserveStep, accept_lease, Tick, execute, Refuse,
             Replay, Finish, observe, AnswerObserve, Crash, open, vars
    <2> QED BY <2>1, <2>2, <2>3, <2>4, <2>5, <2>6
  <1> QED BY <1>1, <1>2, <1>3

\* Every step but a mutation at most ends operations.
LEMMA CloseStep ==
  ASSUME NInv, [Next]_vars, ~ \E c \in Commands : Mutate(c)
  PROVE  Once!Close
  <1>1. /\ runs' = runs
        /\ \A d \in Commands : Journaled(d) => Journaled(d)'
        /\ lane'.step \in {"Admitted", "Applying"} =>
              /\ lane'.cmd = lane.cmd
              /\ \/ lane.step \in {"Admitted", "Applying"}
                 \/ ~Journaled(lane.cmd) /\ ~Conflicts(lane.cmd)
    BY Progress
  <1>2. ASSUME NEW o \in Operations, MayMutate(o)' PROVE MayMutate(o)
    <2>1. CASE \A c \in Commands : Identity[c] = o => ~Journaled(c)'
      BY <1>1, <2>1 DEF MayMutate
    <2>2. CASE \E c \in Commands : /\ Identity[c] = o /\ lane'.cmd = c
                                  /\ lane'.step \in {"Admitted", "Applying"}
      BY <1>1, <2>2 DEF MayMutate, Conflicts
    <2> QED BY <1>2, <2>1, <2>2 DEF MayMutate
  <1>3. PendingNow' \in SUBSET PendingNow BY <1>2 DEF PendingNow
  <1> QED BY <1>1, <1>3 DEF Once!Close, PendingNow

\* A mutation is one Run of its operation.
LEMMA RunStep ==
  ASSUME NInv, NEW c \in Commands, Mutate(c)
  PROVE  Once!Run(Identity[c])
  <1> DEFINE o == Identity[c]
  <1>1. /\ lane.cmd = c /\ lane.step = "Applying" /\ Journaled(c)
        /\ runs' = [runs EXCEPT ![o] = @ + 1] /\ journal' = journal
        /\ lane'.cmd = c /\ lane'.step \in {"Applied", "Failed"}
    BY MutateEffect
  <1>2. o \in Operations BY DEF Operations
  <1>3. MayMutate(o) BY <1>1 DEF MayMutate
  <1>4. ~MayMutate(o)' BY <1>1 DEF MayMutate, Journaled
  <1>5. ASSUME NEW p \in Operations, p # o PROVE MayMutate(p)' <=> MayMutate(p)
    BY <1>1, <1>5 DEF MayMutate, Journaled
  <1>6. o \in PendingNow /\ PendingNow' = PendingNow \ {o}
    BY <1>2, <1>3, <1>4, <1>5 DEF PendingNow
  <1> QED BY <1>1, <1>6 DEF Once!Run, PendingNow

\* The network agent implements the at-most-once executor that the control
\* plane relies on, for any commands, tokens, crashes, failing writes and hosts.
THEOREM AgentImplementsOnceExecutor == Spec => ImplementsOnceExecutor
  <1>1. Init => Once!Init
    <2> SUFFICES ASSUME Init PROVE Once!Init
      OBVIOUS
    <2>1. runs = [o \in Operations |-> 0] /\ \A c \in Commands : ~Journaled(c)
      BY DEF Init, Journaled
    <2>2. PendingNow = Operations BY <2>1 DEF PendingNow, MayMutate
    <2> QED BY <2>1, <2>2 DEF Once!Init, PendingNow
  <1>2. NInv /\ [Next]_vars => [Once!Next]_(Once!vars)
    <2> SUFFICES ASSUME NInv, [Next]_vars PROVE Once!Next
      OBVIOUS
    <2>1. CASE \E c \in Commands : Mutate(c)
      <3> PICK c \in Commands : Mutate(c) BY <2>1
      <3>1. Identity[c] \in Operations BY DEF Operations
      <3> QED BY <3>1, RunStep DEF Once!Next
    <2>2. CASE ~ \E c \in Commands : Mutate(c) BY <2>2, CloseStep DEF Once!Next
    <2> QED BY <2>1, <2>2
  <1> QED BY <1>1, <1>2, AgentInvariant, PTL DEF Spec, ImplementsOnceExecutor, Once!Spec
=============================================================================
