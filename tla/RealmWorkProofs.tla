-------------------------- MODULE RealmWorkProofs --------------------------
(***************************************************************************)
(* A realm has at most one open command, its host never goes back to an     *)
(* older plan, what was reported is held and what was superseded is not     *)
(* admitted, for any controllers, generations, tokens and faults.  The      *)
(* network agent takes part by its own theorems (NetworkAgentProofs).       *)
(***************************************************************************)
EXTENDS RealmWork, FiniteSetTheorems, TLAPS

AP == INSTANCE NetworkAgentProofs WITH
        Effect <- [c \in Commands |-> c.ver],
        Rank <- [c \in Commands |-> c.ver[1]],
        Held <- [v \in Versions \cup {NoVersion} |-> v[1]],
        Identity <- [c \in Commands |-> c.ver],
        Initial <- NoVersion, Partial <- NoVersion, TTL <- 1, WriteFaults <- {},
        HostFaults <- FALSE, MaxRuns <- 2, MaxTasks <- 2

\* A pass that has claimed the agent's lease, by what it claimed it for.
Asking == {"AskConnect", "AskLease", "Ask", "Watch", "Answered"}
Sending == {"Persist", "Run", "Connect", "Lease", "Send"}
Claiming == Asking \cup Sending \cup {"Await", "Record"}

\* A command that the agent has been sent and has not answered.
Flying(c, t) == <<c, t>> \in queued \/ (lane.cmd = c /\ lane.token = t)

-----------------------------------------------------------------------------
Passes == [step : Steps, kind : {"realm", "history"}, gen : 0..MaxGeneration,
           todo : SUBSET Commands, absent : SUBSET Commands,
           cmd : Commands \cup {NoCommand}, token : 0..MaxToken,
           reply : {"none", "error", "running", "not_found"} \cup A!Statuses]

\* A pass knows its generation once it began, and its command once it claimed
\* the agent's lease; it starts with nothing found.
Begun(k) ==
    /\ pass[k].step # "Idle" => pass[k].gen \in Generations
    /\ pass[k].step \in {"Idle", "Start"} => pass[k].todo = {} /\ pass[k].absent = {}
    /\ pass[k].step \in Claiming => pass[k].cmd \in Commands /\ pass[k].token # 0

\* Only a lease that was never taken has no token.
Numbered == agent_lease.live => agent_lease.token # 0

Typed ==
    /\ generation \in Generations
    /\ content \in Generations
    /\ rows \in [Commands -> {"Absent", "Pending", "Running", "Retryable",
                              "UnknownOutcome", "Succeeded", "Superseded"}]
    /\ created \in Seq(Commands)
    /\ realm_lease \in [owner : Controllers \cup {Nobody}, live : BOOLEAN]
    /\ agent_lease \in [owner : Controllers \cup {Nobody}, token : 0..MaxToken, live : BOOLEAN]
    /\ Numbered
    /\ pass \in [Controllers -> Passes]
    /\ \A k \in Controllers : Begun(k)

-----------------------------------------------------------------------------
\* The command that Derive chose for the rows S whose command is unknown.
Chosen(c, S) ==
    \/ S = {} /\ ~IsSuccessor(c)
    \/ \E h \in S : \/ ~IsSuccessor(h) /\ c.old = h.ver
                    \/ IsSuccessor(h) /\ c = h

\* What a pass knows of the rows while it holds the realm's lease.
Knows(k) ==
    /\ pass[k].step \notin {"Idle", "Start"}
    /\ pass[k].step \in Asking \cup {"Observe"} =>
          /\ pass[k].todo \subseteq Unresolved
          /\ pass[k].absent \subseteq Unresolved
          /\ pass[k].todo \cap pass[k].absent = {}
    /\ pass[k].step \in Asking => pass[k].cmd \in pass[k].todo
    /\ pass[k].step = "Persist" => Unresolved = pass[k].absent /\ Chosen(pass[k].cmd, pass[k].absent)
    /\ pass[k].step \in {"Run", "Connect", "Lease", "Send", "Await", "Record"} =>
          Unresolved = {pass[k].cmd}

Single == \A c, d \in Unresolved : c = d

\* A successor exists only once the row it replaces is superseded, for good.
Chain == \A c \in Commands :
            /\ IsSuccessor(c) /\ rows[c] # "Absent" => rows[New(c.old)] = "Superseded"
            /\ rows[c] = "Superseded" => ~IsSuccessor(c)

RowsInv == Single /\ Chain /\ \A k \in Controllers : HoldsRealm(k) => Knows(k)


-----------------------------------------------------------------------------
(***************************************************************************)
(* What the steps of a pass do, field by field.                             *)
(***************************************************************************)
Others(k) == \A j \in Controllers \ {k} : pass'[j] = pass[j]

\* Pass k goes to step s and keeps what it found and claimed.
Moves(k, s) ==
    /\ pass' \in [Controllers -> Passes]
    /\ Others(k)
    /\ pass'[k].step = s
    /\ pass'[k].gen = pass[k].gen
    /\ pass'[k].todo = pass[k].todo
    /\ pass'[k].absent = pass[k].absent
    /\ pass'[k].cmd = pass[k].cmd
    /\ pass'[k].token = pass[k].token

\* Pass k is over and holds nothing; the others hold what they held.
Quits(k) ==
    /\ pass' \in [Controllers -> Passes]
    /\ Others(k)
    /\ pass'[k] = Idle
    /\ realm_lease' \in [owner : Controllers \cup {Nobody}, live : BOOLEAN]
    /\ ~HoldsRealm(k)'
    /\ \A j \in Controllers \ {k} : HoldsRealm(j)' <=> HoldsRealm(j)

\* A pass that is not under way has the type of one.
LEMMA IdlePass == Idle \in Passes
  BY BoundsAssumption DEF Idle, Passes, Steps

\* One pass changes, the others stay.
LEMMA OnePass ==
  ASSUME Typed, NEW k \in Controllers, NEW p \in Passes, pass' = [pass EXCEPT ![k] = p]
  PROVE  pass' \in [Controllers -> Passes] /\ pass'[k] = p /\ Others(k)
  BY DEF Typed, Others

\* A pass that changes its step only.
LEMMA GoMoves ==
  ASSUME Typed, NEW k \in Controllers, NEW s \in Steps, Go(k, s)
  PROVE  Moves(k, s) /\ pass'[k].reply = pass[k].reply
  <1> DEFINE p == [pass[k] EXCEPT !.step = s]
  <1>1. pass[k] \in Passes BY DEF Typed
  <1>2. /\ p \in Passes /\ p.step = s /\ p.gen = pass[k].gen /\ p.todo = pass[k].todo
        /\ p.absent = pass[k].absent /\ p.cmd = pass[k].cmd /\ p.token = pass[k].token
        /\ p.reply = pass[k].reply
    BY <1>1 DEF Passes
  <1>3. pass' = [pass EXCEPT ![k] = p] BY DEF Go
  <1> HIDE DEF p
  <1> QED BY <1>2, <1>3, OnePass DEF Moves

\* A reply moves a pass to where it looks at the reply.
LEMMA AnsweredMoves ==
  ASSUME Typed, NEW k \in Controllers, NEW r,
         r \in {"none", "error", "running", "not_found"} \cup A!Statuses
  PROVE  LET p == Answered(pass[k], r)
         IN  /\ p \in Passes /\ p.reply = r
             /\ p.step = IF pass[k].step \in {"Lease", "Send", "Await"} THEN "Record" ELSE "Answered"
             /\ p.gen = pass[k].gen /\ p.todo = pass[k].todo
             /\ p.absent = pass[k].absent /\ p.cmd = pass[k].cmd /\ p.token = pass[k].token
  <1>1. pass[k] \in Passes BY DEF Typed
  <1> QED BY <1>1 DEF Answered, Passes, Steps

\* The end of a pass gives the realm's lease up, if the pass holds it.
LEMMA FinishedQuits ==
  ASSUME Typed, NEW k \in Controllers, Finished(k)
  PROVE  Quits(k)
  <1>1. pass' \in [Controllers -> Passes] /\ pass'[k] = Idle /\ Others(k)
    BY OnePass, IdlePass DEF Finished
  <1>2. realm_lease' \in [owner : Controllers \cup {Nobody}, live : BOOLEAN]
        /\ realm_lease'.owner = realm_lease.owner
        /\ (realm_lease.owner = k => realm_lease'.live = FALSE)
        /\ (realm_lease.owner # k => realm_lease' = realm_lease)
    BY DEF Finished, Typed
  <1>3. ~HoldsRealm(k)' BY <1>2 DEF HoldsRealm
  <1>4. \A j \in Controllers \ {k} : HoldsRealm(j)' <=> HoldsRealm(j)
    BY <1>2 DEF HoldsRealm
  <1> QED BY <1>1, <1>2, <1>3, <1>4 DEF Quits

\* A crash leaves the leases to a session that is gone.
LEMMA CrashQuits ==
  ASSUME Typed, NEW k \in Controllers, ControllerCrash(k)
  PROVE  /\ Quits(k)
         /\ agent_lease' \in [owner : Controllers \cup {Nobody}, token : 0..MaxToken, live : BOOLEAN]
         /\ agent_lease'.token = agent_lease.token
         /\ agent_lease'.live = agent_lease.live
         /\ agent_lease'.owner = IF agent_lease.owner = k THEN Nobody ELSE agent_lease.owner
         /\ UNCHANGED <<generation, content, rows, created, reported, broken, agent>>
  <1>1. pass' \in [Controllers -> Passes] /\ pass'[k] = Idle /\ Others(k)
    BY OnePass, IdlePass DEF ControllerCrash
  <1>2. /\ realm_lease' \in [owner : Controllers \cup {Nobody}, live : BOOLEAN]
        /\ realm_lease'.owner = IF realm_lease.owner = k THEN Nobody ELSE realm_lease.owner
        /\ realm_lease'.live = realm_lease.live
    BY DEF ControllerCrash, Typed
  <1>3. ~HoldsRealm(k)' BY <1>2, ControllersAssumption DEF HoldsRealm
  <1>4. \A j \in Controllers \ {k} : HoldsRealm(j)' <=> HoldsRealm(j)
    BY <1>2, ControllersAssumption DEF HoldsRealm
  <1>5. Quits(k) BY <1>1, <1>2, <1>3, <1>4 DEF Quits
  <1>6. /\ agent_lease' \in [owner : Controllers \cup {Nobody}, token : 0..MaxToken, live : BOOLEAN]
        /\ agent_lease'.token = agent_lease.token
        /\ agent_lease'.live = agent_lease.live
        /\ agent_lease'.owner = IF agent_lease.owner = k THEN Nobody ELSE agent_lease.owner
    BY DEF ControllerCrash, Typed
  <1> QED BY <1>5, <1>6 DEF ControllerCrash

\* What no step of a pass other than those that talk to the agent changes.
Aside == UNCHANGED <<generation, content, agent>>

\* A pass begins with what the realm's generation was.
LEMMA RequestDoes ==
  ASSUME Typed, NEW k \in Controllers, NEW kind \in {"realm", "history"}, Request(k, kind)
  PROVE  /\ pass' \in [Controllers -> Passes] /\ Others(k) /\ pass[k].step = "Idle"
         /\ pass'[k].step = "Start" /\ pass'[k].gen = generation
         /\ pass'[k].todo = {} /\ pass'[k].absent = {}
         /\ Aside /\ UNCHANGED <<rows, created, realm_lease, agent_lease, reported, broken>>
  <1> DEFINE p == [Idle EXCEPT !.step = "Start", !.kind = kind, !.gen = generation]
  <1>0. generation \in 0..MaxGeneration BY BoundsAssumption DEF Typed, Generations
  <1>1. /\ p \in Passes /\ p.step = "Start" /\ p.gen = generation /\ p.todo = {} /\ p.absent = {}
    <2>1. p \in Passes /\ p.step = "Start" /\ p.gen = generation
          /\ p.todo = Idle.todo /\ p.absent = Idle.absent
      BY <1>0, IdlePass DEF Passes, Steps
    <2> QED BY <2>1 DEF Idle
  <1>2. pass' = [pass EXCEPT ![k] = p] /\ pass[k].step = "Idle" BY DEF Request, At
  <1> HIDE DEF p
  <1>3. pass' \in [Controllers -> Passes] /\ Others(k) /\ pass'[k] = p BY <1>1, <1>2, OnePass
  <1> QED BY <1>1, <1>2, <1>3 DEF Request, Aside

\* A pass that gets the realm's lease has every unresolved row to do.
LEMMA AcquireDoes ==
  ASSUME Typed, NEW k \in Controllers, AcquireRealm(k)
  PROVE  /\ Aside /\ UNCHANGED <<rows, created, agent_lease, reported, broken>>
         /\ pass[k].step = "Start"
         /\ \/ Quits(k)
            \/ /\ pass' \in [Controllers -> Passes] /\ Others(k)
               /\ pass'[k].step = "Observe" /\ pass'[k].gen = pass[k].gen
               /\ pass'[k].todo = Unresolved /\ pass'[k].absent = pass[k].absent
               /\ realm_lease' = [owner |-> k, live |-> TRUE]
  <1>1. CASE realm_lease.live BY <1>1, FinishedQuits DEF AcquireRealm, Aside, At
  <1>2. CASE ~realm_lease.live
    <2> DEFINE p == [pass[k] EXCEPT !.step = "Observe", !.todo = Unresolved]
    <2>1. pass[k] \in Passes BY DEF Typed
    <2>2. /\ p \in Passes /\ p.step = "Observe" /\ p.gen = pass[k].gen /\ p.todo = Unresolved
          /\ p.absent = pass[k].absent
      BY <2>1 DEF Passes, Steps, Unresolved
    <2>3. /\ pass' = [pass EXCEPT ![k] = p] /\ pass[k].step = "Start"
          /\ realm_lease' = [owner |-> k, live |-> TRUE]
      BY <1>2, <2>1 DEF AcquireRealm, At, Typed
    <2> HIDE DEF p
    <2>4. pass' \in [Controllers -> Passes] /\ Others(k) /\ pass'[k] = p BY <2>2, <2>3, OnePass
    <2> QED BY <2>2, <2>3, <2>4 DEF AcquireRealm, Aside
  <1> QED BY <1>1, <1>2

\* The agent's lease as a pass claims it.
LEMMA ClaimDoes ==
  ASSUME Typed, NEW k \in Controllers, AgentLeaseFree(k), ClaimAgent(k)
  PROVE  /\ agent_lease' \in [owner : Controllers \cup {Nobody}, token : 0..MaxToken, live : BOOLEAN]
         /\ agent_lease'.owner = k /\ agent_lease'.token = NextToken /\ agent_lease'.live = TRUE
         /\ NextToken \in 0..MaxToken /\ NextToken # 0 /\ Numbered'
         /\ \/ agent_lease.live /\ agent_lease.owner = k /\ NextToken = agent_lease.token
            \/ NextToken = agent_lease.token + 1
  <1>1. agent_lease.token \in 0..MaxToken /\ agent_lease.live \in BOOLEAN BY DEF Typed
  <1>2. NextToken \in 0..MaxToken BY <1>1, BoundsAssumption DEF AgentLeaseFree, NextToken
  <1>3. \/ agent_lease.live /\ agent_lease.owner = k /\ NextToken = agent_lease.token
        \/ NextToken = agent_lease.token + 1
    BY DEF AgentLeaseFree, NextToken
  <1>4. NextToken # 0 BY <1>1, BoundsAssumption DEF NextToken, Typed, Numbered
  <1> HIDE DEF NextToken
  <1> QED BY <1>2, <1>3, <1>4 DEF ClaimAgent, Numbered

\* A pass that may ask about a row claims the agent's lease for it.
LEMMA ObserveNextDoes ==
  ASSUME Typed, NEW k \in Controllers, NEW c \in pass[k].todo, ObserveNext(k, c)
  PROVE  /\ Aside /\ UNCHANGED <<rows, created, reported, broken>>
         /\ pass[k].step = "Observe" /\ c \in Commands
         /\ \/ Quits(k) /\ UNCHANGED agent_lease
            \/ /\ pass' \in [Controllers -> Passes] /\ Others(k)
               /\ pass'[k].step = "AskConnect" /\ pass'[k].gen = pass[k].gen
               /\ pass'[k].todo = pass[k].todo /\ pass'[k].absent = pass[k].absent
               /\ pass'[k].cmd = c /\ pass'[k].token = NextToken
               /\ HoldsRealm(k) /\ AgentLeaseFree(k) /\ ClaimAgent(k)
               /\ UNCHANGED realm_lease
  <1>0. pass[k] \in Passes /\ c \in Commands BY DEF Typed, Passes
  <1>1. CASE ~(HoldsRealm(k) /\ AgentLeaseFree(k))
    BY <1>0, <1>1, FinishedQuits DEF ObserveNext, Aside, At
  <1>2. CASE HoldsRealm(k) /\ AgentLeaseFree(k)
    <2> DEFINE p == [pass[k] EXCEPT !.step = "AskConnect", !.cmd = c, !.token = NextToken]
    <2>1. ClaimAgent(k) /\ UNCHANGED realm_lease /\ pass[k].step = "Observe"
      BY <1>2 DEF ObserveNext, At
    <2>2. NextToken \in 0..MaxToken BY <1>2, <2>1, ClaimDoes
    <2>3. /\ p \in Passes /\ p.step = "AskConnect" /\ p.gen = pass[k].gen /\ p.todo = pass[k].todo
          /\ p.absent = pass[k].absent /\ p.cmd = c /\ p.token = NextToken
      BY <1>0, <2>2 DEF Passes, Steps
    <2>4. pass' = [pass EXCEPT ![k] = p]
      BY <1>0, <1>2 DEF ObserveNext, Typed
    <2> HIDE DEF p
    <2>5. pass' \in [Controllers -> Passes] /\ Others(k) /\ pass'[k] = p BY <2>3, <2>4, OnePass
    <2> QED BY <1>0, <1>2, <2>1, <2>3, <2>5 DEF ObserveNext, Aside
  <1> QED BY <1>1, <1>2

\* An answer that is not an error gives the agent's lease up and settles the
\* row, unless it is still running or unknown to the agent.
LEMMA SettleDoes ==
  ASSUME Typed, NEW k \in Controllers, Settle(k)
  PROVE  /\ Aside /\ UNCHANGED <<created, reported, broken>>
         /\ pass[k].step = "Answered" /\ pass[k].cmd \in Commands
         /\ \/ Quits(k) /\ UNCHANGED <<rows, agent_lease>>
            \/ /\ CanSettle(k) /\ CloseAgent /\ pass[k].reply # "error"
               /\ rows' = IF pass[k].reply \in {"not_found", "running"} THEN rows
                          ELSE [rows EXCEPT ![pass[k].cmd] = Settled(pass[k].reply)]
               /\ \/ Quits(k)
                  \/ /\ pass' \in [Controllers -> Passes] /\ Others(k)
                     /\ pass'[k].step = "Observe" /\ pass'[k].gen = pass[k].gen
                     /\ pass'[k].todo = pass[k].todo \ {pass[k].cmd}
                     /\ pass'[k].absent = IF pass[k].reply = "not_found"
                                          THEN pass[k].absent \cup {pass[k].cmd} ELSE pass[k].absent
                     /\ UNCHANGED realm_lease
  <1>0. /\ pass[k] \in Passes /\ pass[k].step = "Answered" /\ pass[k].cmd \in Commands
        /\ Aside /\ UNCHANGED <<created, reported, broken>>
    BY DEF Settle, At, Typed, Begun, Claiming, Asking, Aside
  <1>1. CASE ~CanSettle(k) \/ pass[k].reply = "error"
    BY <1>0, <1>1, FinishedQuits DEF Settle
  <1>2. CASE CanSettle(k) /\ pass[k].reply # "error"
    <2>1. /\ CloseAgent
          /\ rows' = IF pass[k].reply \in {"not_found", "running"} THEN rows
                     ELSE [rows EXCEPT ![pass[k].cmd] = Settled(pass[k].reply)]
      BY <1>2 DEF Settle
    <2>2. CASE pass[k].reply = "Unknown"
      BY <1>0, <1>2, <2>1, <2>2, FinishedQuits DEF Settle
    <2>3. CASE pass[k].reply # "Unknown"
      <3> DEFINE done == [pass[k] EXCEPT !.step = "Observe", !.todo = @ \ {pass[k].cmd}]
                 p == IF pass[k].reply = "not_found"
                      THEN [done EXCEPT !.absent = @ \cup {pass[k].cmd}] ELSE done
      <3>1. /\ p \in Passes /\ p.step = "Observe" /\ p.gen = pass[k].gen
            /\ p.todo = pass[k].todo \ {pass[k].cmd}
            /\ p.absent = IF pass[k].reply = "not_found"
                          THEN pass[k].absent \cup {pass[k].cmd} ELSE pass[k].absent
        BY <1>0 DEF Passes, Steps
      <3>2. pass' = [pass EXCEPT ![k] = p] /\ UNCHANGED realm_lease
        BY <1>2, <2>3 DEF Settle
      <3> HIDE DEF p
      <3>3. pass' \in [Controllers -> Passes] /\ Others(k) /\ pass'[k] = p BY <3>1, <3>2, OnePass
      <3> QED BY <1>0, <1>2, <2>1, <3>1, <3>2, <3>3
    <2> QED BY <2>2, <2>3
  <1> QED BY <1>1, <1>2

\* A version is not the empty sequence that marks a command without ancestor.
LEMMA VersionsNonempty == \A v \in Versions : v # <<>>
  BY DEF Versions, Generations

\* The command that is derived has the version that was read.
LEMMA DerivedIs ==
  ASSUME NEW v \in Versions, NEW S \in SUBSET Commands, Derived(v, S) # NoCommand
  PROVE  /\ Derived(v, S) \in Commands
         /\ Derived(v, S).ver = v
         /\ Chosen(Derived(v, S), S)
  <1>1. CASE S = {}
    BY <1>1 DEF Derived, New, Commands, Chosen, IsSuccessor
  <1>2. CASE S # {}
    <2> DEFINE h == CHOOSE c \in S : TRUE
    <2>1. h \in S /\ h \in Commands BY <1>2
    <2>2. Derived(v, S) = IF ~IsSuccessor(h) THEN [ver |-> v, old |-> h.ver]
                          ELSE IF h.ver = v THEN h ELSE NoCommand
      BY <1>2 DEF Derived
    <2> HIDE DEF h
    <2>3. CASE ~IsSuccessor(h)
      <3>1. Derived(v, S) = [ver |-> v, old |-> h.ver] BY <2>2, <2>3
      <3>2. h.ver \in Versions BY <2>1 DEF Commands
      <3>3. /\ [ver |-> v, old |-> h.ver] \in Commands
            /\ [ver |-> v, old |-> h.ver].ver = v /\ [ver |-> v, old |-> h.ver].old = h.ver
        BY <3>2 DEF Commands
      <3> QED BY <3>1, <3>3, <2>1, <2>3 DEF Chosen
    <2>4. CASE IsSuccessor(h)
      <3>1. Derived(v, S) = h /\ h.ver = v BY <2>2, <2>4
      <3> QED BY <3>1, <2>1, <2>4 DEF Chosen
    <2> QED BY <2>3, <2>4
  <1> QED BY <1>1, <1>2

\* A pass that may dispatch has found every unresolved row unknown to the
\* agent, and derives its command from the content of that moment.
LEMMA DeriveDoes ==
  ASSUME Typed, NEW k \in Controllers, Derive(k)
  PROVE  /\ Aside /\ UNCHANGED <<rows, created, reported, broken>>
         /\ pass[k].step = "Observe" /\ pass[k].todo = {}
         /\ \/ Quits(k) /\ UNCHANGED agent_lease
            \/ /\ pass' \in [Controllers -> Passes] /\ Others(k)
               /\ pass'[k].step = "Persist" /\ pass'[k].gen = pass[k].gen
               /\ pass'[k].todo = pass[k].todo /\ pass'[k].absent = pass[k].absent
               /\ pass'[k].cmd \in Commands /\ pass'[k].token = NextToken
               /\ pass'[k].cmd.ver[2] = content /\ Chosen(pass'[k].cmd, pass[k].absent)
               /\ HoldsRealm(k) /\ AgentLeaseFree(k) /\ ClaimAgent(k)
               /\ Unresolved \subseteq pass[k].absent
               /\ UNCHANGED realm_lease
  <1> DEFINE v == <<pass[k].gen, content>>
             S == pass[k].absent
             c == Derived(v, S)
             gives_up == \/ pass[k].kind = "history" \/ ~HoldsRealm(k) \/ Ambiguous
                         \/ c = NoCommand \/ Blocked(S) \/ ~AgentLeaseFree(k)
  <1>0. /\ pass[k] \in Passes /\ pass[k].step = "Observe" /\ pass[k].todo = {}
        /\ S \in SUBSET Commands /\ v \in Versions /\ v[2] = content
        /\ Aside /\ UNCHANGED <<rows, created, reported, broken>>
    BY DEF Derive, At, Typed, Begun, Passes, Versions, Aside
  <1>1. CASE gives_up BY <1>0, <1>1, FinishedQuits DEF Derive
  <1>2. CASE ~gives_up
    <2> DEFINE p == [pass[k] EXCEPT !.step = "Persist", !.cmd = c, !.token = NextToken,
                                    !.todo = {}, !.reply = "none"]
    <2>1. /\ ClaimAgent(k) /\ UNCHANGED realm_lease /\ HoldsRealm(k) /\ AgentLeaseFree(k)
          /\ Unresolved \subseteq S /\ c # NoCommand
      BY <1>2 DEF Derive, Blocked
    <2>2. NextToken \in 0..MaxToken BY <2>1, ClaimDoes
    <2>3. c \in Commands /\ c.ver = v /\ Chosen(c, S) BY <1>0, <2>1, DerivedIs
    <2>4. pass' = [pass EXCEPT ![k] = p]
      BY <1>0, <1>2 DEF Derive, Typed
    <2> HIDE DEF c, v
    <2>5. /\ p \in Passes /\ p.step = "Persist" /\ p.gen = pass[k].gen /\ p.todo = {}
          /\ p.absent = pass[k].absent /\ p.cmd = c /\ p.token = NextToken
      BY <1>0, <2>2, <2>3 DEF Passes, Steps
    <2> HIDE DEF p
    <2>6. pass' \in [Controllers -> Passes] /\ Others(k) /\ pass'[k] = p BY <2>4, <2>5, OnePass
    <2> QED BY <1>0, <2>1, <2>3, <2>5, <2>6
  <1> QED BY <1>1, <1>2

\* A command is written before it is sent, or was proved already.
LEMMA PersistDoes ==
  ASSUME Typed, NEW k \in Controllers, Persist(k)
  PROVE  /\ Aside /\ UNCHANGED <<agent_lease, broken>>
         /\ pass[k].step = "Persist" /\ pass[k].cmd \in Commands
         /\ \/ /\ HoldsRealm(k) /\ Moves(k, "Run")
               /\ rows[pass[k].cmd] = "Absent" \/ IsSuccessor(pass[k].cmd)
               /\ rows' = Persisted(pass[k].cmd)
               /\ created' \in {created, Append(created, pass[k].cmd)}
               /\ UNCHANGED <<realm_lease, reported>>
            \/ HoldsRealm(k) /\ Proved(pass[k].cmd) /\ Quits(k) /\ Report(k) /\ UNCHANGED <<rows, created>>
            \/ Quits(k) /\ UNCHANGED <<rows, created, reported>>
  <1>0. /\ pass[k].step = "Persist" /\ pass[k].cmd \in Commands
        /\ Aside /\ UNCHANGED <<agent_lease, broken>>
    BY DEF Persist, At, Typed, Begun, Claiming, Sending, Aside
  <1>1. "Run" \in Steps BY DEF Steps
  <1>2. CASE Go(k, "Run")
    <2>1. Moves(k, "Run") BY <1>1, <1>2, GoMoves
    <2>2. pass'[k] # Idle BY <2>1 DEF Moves, Idle
    <2>3. ~Finished(k) BY <2>2, FinishedQuits DEF Quits
    <2> QED BY <1>0, <2>1, <2>3 DEF Persist
  <1>3. CASE ~Go(k, "Run") BY <1>0, <1>3, FinishedQuits DEF Persist
  <1> QED BY <1>2, <1>3

\* The row is marked before the agent is called.
LEMMA RunDoes ==
  ASSUME Typed, NEW k \in Controllers, Run(k)
  PROVE  /\ Aside /\ UNCHANGED <<created, agent_lease, reported, broken>>
         /\ pass[k].step = "Run" /\ pass[k].cmd \in Commands
         /\ \/ /\ HoldsRealm(k) /\ Moves(k, "Connect") /\ UNCHANGED realm_lease
               /\ rows' = [rows EXCEPT ![pass[k].cmd] = "Running"]
            \/ Quits(k) /\ UNCHANGED rows
  <1>0. /\ pass[k].step = "Run" /\ pass[k].cmd \in Commands
        /\ Aside /\ UNCHANGED <<created, agent_lease, reported, broken>>
    BY DEF Run, At, Typed, Begun, Claiming, Sending, Aside
  <1>1. "Connect" \in Steps BY DEF Steps
  <1> QED BY <1>0, <1>1, GoMoves, FinishedQuits DEF Run

\* A stream is set up.
LEMMA ConnectDoes ==
  ASSUME Typed, NEW k \in Controllers, connect(k)
  PROVE  /\ Aside /\ UNCHANGED <<rows, created, agent_lease, reported, broken>>
         /\ \/ /\ \/ pass[k].step = "Connect" /\ Moves(k, "Lease")
                  \/ pass[k].step = "AskConnect" /\ Moves(k, "AskLease")
               /\ pass'[k].reply = pass[k].reply
               /\ UNCHANGED realm_lease
            \/ pass[k].step = "Connect" /\ Quits(k)
  <1>1. "Lease" \in Steps /\ "AskLease" \in Steps BY DEF Steps
  <1> QED BY <1>1, GoMoves, FinishedQuits DEF connect, At, Aside

\* A stream cannot be set up: the command was not sent.
LEMMA ConnectFailsDoes ==
  ASSUME Typed, NEW k \in Controllers, ConnectFails(k)
  PROVE  /\ Aside /\ UNCHANGED <<created, agent_lease, reported, broken>>
         /\ pass[k].step \in {"Connect", "AskConnect"} /\ pass[k].cmd \in Commands
         /\ Quits(k)
         /\ \/ UNCHANGED rows
            \/ /\ pass[k].step = "Connect" /\ CanSettle(k)
               /\ rows' = [rows EXCEPT ![pass[k].cmd] = "Retryable"]
  <1>1. Quits(k) BY FinishedQuits DEF ConnectFails
  <1>2. pass[k].step \in {"Connect", "AskConnect"} /\ pass[k].cmd \in Commands
    BY DEF ConnectFails, Typed, Begun, Claiming, Sending, Asking
  <1> QED BY <1>1, <1>2 DEF ConnectFails, At, Aside

\* The outcome is written, if the leases are still held, and the pass ends.
LEMMA RecordDoes ==
  ASSUME Typed, NEW k \in Controllers, Record(k)
  PROVE  /\ Aside /\ UNCHANGED <<created, broken>>
         /\ pass[k].step = "Record" /\ pass[k].cmd \in Commands
         /\ Quits(k)
         /\ \/ UNCHANGED <<rows, agent_lease, reported>>
            \/ /\ CanSettle(k)
               /\ rows' = [rows EXCEPT ![pass[k].cmd] =
                              IF pass[k].reply = "error" THEN "UnknownOutcome"
                              ELSE Settled(pass[k].reply)]
               /\ \/ pass[k].reply = "error" /\ UNCHANGED agent_lease
                  \/ pass[k].reply # "error" /\ CloseAgent
               /\ \/ pass[k].reply = "Succeeded" /\ Report(k)
                  \/ pass[k].reply # "Succeeded" /\ UNCHANGED reported
  <1>1. Quits(k) BY FinishedQuits DEF Record
  <1>2. pass[k].step = "Record" /\ pass[k].cmd \in Commands
    BY DEF Record, At, Typed, Begun, Claiming
  <1>3. CASE CanSettle(k) BY <1>1, <1>2, <1>3 DEF Record, Aside
  <1>4. CASE ~CanSettle(k) BY <1>1, <1>2, <1>4 DEF Record, Aside
  <1> QED BY <1>3, <1>4

-----------------------------------------------------------------------------
(***************************************************************************)
(* The agent.  A and AP are the same agent, with and without its proofs.    *)
(***************************************************************************)
\* The two instances have the same steps, initial states and types.
LEMMA SameAgent ==
  /\ A!Next <=> AP!Next
  /\ A!Init <=> AP!Init
  /\ A!TypeOK <=> AP!TypeOK
  /\ A!vars = agent /\ AP!vars = agent
  <1>1. A!TaskLeft = AP!TaskLeft
    BY DEF A!TaskLeft, AP!TaskLeft, A!Cardinality, AP!Cardinality
  <1>2. \A t, w : A!accept_lease(t, w) <=> AP!accept_lease(t, w)
    BY DEF A!accept_lease, AP!accept_lease, A!StaleLease, AP!StaleLease, A!provider, AP!provider, A!history,
       AP!history
  <1>3. A!Tick <=> AP!Tick
    BY DEF A!Tick, AP!Tick, A!Elapse, AP!Elapse, A!provider, AP!provider, A!history, AP!history
  <1>4. \A c, t : A!execute(c, t) <=> AP!execute(c, t)
    BY <1>1 DEF A!execute, AP!execute, A!current_authority, AP!current_authority,
       A!provider, AP!provider, A!history, AP!history
  <1>5. \A c, t : A!take_lane(c, t) <=> AP!take_lane(c, t)
    BY DEF A!take_lane, AP!take_lane, A!Free, AP!Free, A!current_authority,
       AP!current_authority, A!provider, AP!provider, A!history, AP!history
  <1>6. \A c, w : A!admit_with_authority(c, w) <=> AP!admit_with_authority(c, w)
    BY DEF A!admit_with_authority, AP!admit_with_authority, A!At, AP!At, A!Journaled,
       AP!Journaled, A!Conflicts, AP!Conflicts, A!Written, AP!Written, A!Max2, AP!Max2,
       A!Free, AP!Free, A!provider, AP!provider
  <1>7. \A c : A!Refuse(c) <=> AP!Refuse(c)
    BY DEF A!Refuse, AP!Refuse, A!At, AP!At, A!Journaled, AP!Journaled, A!Conflicts,
       AP!Conflicts, A!Free, AP!Free, A!provider, AP!provider, A!history, AP!history
  <1>8. \A c, w : A!Replay(c, w) <=> AP!Replay(c, w)
    BY DEF A!Replay, AP!Replay, A!At, AP!At, A!Journaled, AP!Journaled, A!reconcile,
       AP!reconcile, A!Observed, AP!Observed, A!Written, AP!Written, A!Free, AP!Free,
       A!provider, AP!provider, A!history, AP!history
  <1>9. \A c, w : A!MarkApplying(c, w) <=> AP!MarkApplying(c, w)
    BY DEF A!MarkApplying, AP!MarkApplying, A!At, AP!At, A!Written, AP!Written, A!Free,
       AP!Free, A!provider, AP!provider, A!history, AP!history
  <1>10. \A c : A!Mutate(c) <=> AP!Mutate(c)
    BY DEF A!Mutate, AP!Mutate, A!At, AP!At, A!StalePlan, AP!StalePlan
  <1>11. \A c, w : A!Finish(c, w) <=> AP!Finish(c, w)
    BY DEF A!Finish, AP!Finish, A!Written, AP!Written, A!Free, AP!Free, A!provider, AP!provider, A!history,
       AP!history
  <1>12. \A c, t : A!observe(c, t) <=> AP!observe(c, t)
    BY <1>1 DEF A!observe, AP!observe, A!running, AP!running, A!provider, AP!provider, A!history, AP!history
  <1>13. \A c, t, w : A!AnswerObserve(c, t, w) <=> AP!AnswerObserve(c, t, w)
    BY DEF A!AnswerObserve, AP!AnswerObserve, A!LaneForObserve, AP!LaneForObserve, A!Free,
       AP!Free, A!Journaled, AP!Journaled, A!reconcile, AP!reconcile, A!Observed,
       AP!Observed, A!Written, AP!Written, A!Max2, AP!Max2, A!provider, AP!provider
  <1>14. A!Crash <=> AP!Crash
    BY DEF A!Crash, AP!Crash, A!NoLease, AP!NoLease, A!Free, AP!Free, A!provider, AP!provider, A!history,
       AP!history
  <1>15. \A S : A!open(S) <=> AP!open(S)
    BY DEF A!open, AP!open, A!Pending, AP!Pending, A!reconcile_pending,
       AP!reconcile_pending, A!Observed, AP!Observed, A!load_lease, AP!load_lease,
       A!validate_loaded_state, AP!validate_loaded_state,
       A!provider, AP!provider, A!history, AP!history
  <1>16. A!Tokens = AP!Tokens /\ A!Writes = AP!Writes
    BY DEF A!Tokens, AP!Tokens, A!Writes, AP!Writes
  <1>17. A!Next <=> AP!Next
    BY <1>2, <1>3, <1>4, <1>5, <1>6, <1>7, <1>8, <1>9, <1>10, <1>11, <1>12, <1>13, <1>14,
       <1>15, <1>16, <1>16 DEF A!Next, AP!Next, A!ExecuteStep, AP!ExecuteStep,
       A!ObserveStep, AP!ObserveStep
  <1>18. A!Init <=> AP!Init
    BY DEF A!Init, AP!Init, A!NoLease, AP!NoLease, A!Free, AP!Free, A!Operations, AP!Operations
  <1>19. A!TypeOK <=> AP!TypeOK
    BY DEF A!TypeOK, AP!TypeOK, A!Leases, AP!Leases, A!Statuses, AP!Statuses, A!Requests,
           AP!Requests, A!Plans, AP!Plans, A!Tokens, AP!Tokens, A!Operations, AP!Operations
  <1>20. A!vars = agent /\ AP!vars = agent BY DEF A!vars, AP!vars, agent
  <1> QED BY <1>17, <1>18, <1>19, <1>20

\* The agent's own invariant holds at first and is kept by its steps.
LEMMA AgentKeeps ==
  /\ A!Init => AP!NInv
  /\ AP!NInv /\ (A!Next \/ UNCHANGED agent) => AP!NInv'
  /\ AP!NInv => A!TypeOK
  <1>1. A!Init => AP!NInv
    BY SameAgent, AP!InitInv, CommandAssumption, BoundsAssumption
  <1>2. ASSUME AP!NInv, AP!Next \/ UNCHANGED AP!vars PROVE AP!NInv'
    BY <1>2, AP!NextInv, CommandAssumption, BoundsAssumption
  <1>3. AP!NInv => A!TypeOK BY SameAgent DEF AP!NInv
  <1>4. UNCHANGED agent => UNCHANGED AP!vars BY DEF agent, AP!vars
  <1> QED BY <1>1, <1>2, <1>3, <1>4, SameAgent

\* A command under way and its token are those of the agent's model.
LEMMA ClaimingTyped ==
  ASSUME Typed, NEW k \in Controllers, pass[k].step \in Claiming
  PROVE  pass[k].cmd \in Commands /\ pass[k].token \in A!Tokens /\ pass[k].token \in Nat
  <1>1. /\ pass[k].cmd \in Commands /\ pass[k].token \in 0..MaxToken /\ pass[k].token # 0
    BY DEF Typed, Begun, Passes
  <1> QED BY <1>1, BoundsAssumption DEF A!Tokens

\* Whatever the controllers do, the agent takes one of its own steps or none.
LEMMA AgentSteps ==
  ASSUME Typed, [Next]_vars
  PROVE  A!Next \/ UNCHANGED agent
  <1>0. "ok" \in A!Writes BY DEF A!Writes
  <1>1. ASSUME NEW k \in Controllers, SendLease(k) PROVE A!Next
    <2>1. pass[k].token \in A!Tokens
      BY <1>1, ClaimingTyped DEF SendLease, Claiming, Sending, Asking
    <2> QED BY <1>0, <1>1, <2>1 DEF SendLease, A!Next
  <1>2. ASSUME NEW k \in Controllers, execute(k) PROVE A!Next
    <2>1. pass[k].token \in A!Tokens /\ pass[k].cmd \in Commands
      BY <1>2, ClaimingTyped DEF execute, At, Claiming, Sending, Asking
    <2> QED BY <1>2, <2>1 DEF execute, A!Next, A!ExecuteStep
  <1>3. ASSUME NEW k \in Controllers, observe(k) PROVE A!Next
    <2>1. pass[k].token \in A!Tokens /\ pass[k].cmd \in Commands
      BY <1>3, ClaimingTyped DEF observe, At, Claiming, Sending, Asking
    <2> QED BY <1>3, <2>1 DEF observe, A!Next, A!ObserveStep
  <1>4. ASSUME NEW c \in Met, AgentStep(c) PROVE A!Next
    <2>1. c \in Commands BY DEF Met
    <2> QED BY <1>0, <1>4, <2>1 DEF AgentStep, A!Next, A!ExecuteStep, A!ObserveStep
  <1>5. ASSUME AgentOpen PROVE A!Next
    <2>1. A!Pending \in SUBSET Commands BY DEF A!Pending
    <2> QED BY <1>5, <2>1 DEF AgentOpen, A!Next
  <1>6. ASSUME Tick \/ AgentCrash PROVE A!Next BY <1>6 DEF Tick, AgentCrash, A!Next
  <1>7. ASSUME NEW k \in Controllers, PassStep(k) PROVE A!Next \/ UNCHANGED agent
    BY <1>1, <1>2, <1>3, <1>7
    DEF PassStep, AcquireRealm, ObserveNext, Settle, Derive, Persist, Run, connect,
        ObserveRunning, Refused, Record
  <1>8. ASSUME FaultStep PROVE A!Next \/ UNCHANGED agent
    BY <1>6, <1>8 DEF FaultStep, ConnectFails, StreamBreaks, ControllerCrash
  <1>9. ASSUME UNCHANGED vars PROVE UNCHANGED agent BY <1>9 DEF vars
  <1> QED BY <1>4, <1>5, <1>7, <1>8, <1>9 DEF Next, AdvanceGeneration, UpdateBinding, Request, Expire

-----------------------------------------------------------------------------
(***************************************************************************)
(* Steps on a stream, of the agent and of the environment: they write no    *)
(* row and claim no lease.                                                  *)
(***************************************************************************)
\* A pass keeps what it found and claimed, and waits or goes on to the next
\* step of its stream.
Onward(k) ==
    /\ pass'[k].gen = pass[k].gen
    /\ pass'[k].todo = pass[k].todo
    /\ pass'[k].absent = pass[k].absent
    /\ pass'[k].cmd = pass[k].cmd
    /\ pass'[k].token = pass[k].token
    /\ \/ pass'[k].step = pass[k].step
       \/ pass[k].step = "AskConnect" /\ pass'[k].step = "AskLease"
       \/ pass[k].step = "AskLease" /\ pass'[k].step = "Ask"
       \/ pass[k].step = "Ask" /\ pass'[k].step = "Watch"
       \/ pass[k].step \in {"AskLease", "Ask", "Watch"} /\ pass'[k].step = "Answered"
       \/ pass[k].step = "Connect" /\ pass'[k].step = "Lease"
       \/ pass[k].step = "Lease" /\ pass'[k].step = "Send"
       \/ pass[k].step = "Send" /\ pass'[k].step = "Await"
       \/ pass[k].step \in {"Lease", "Send", "Await"} /\ pass'[k].step = "Record"

Talks ==
    /\ pass' \in [Controllers -> Passes]
    /\ \A k \in Controllers : Onward(k)
    /\ UNCHANGED <<rows, created, realm_lease, agent_lease>>

Replies == {"none", "error", "running", "not_found"} \cup A!Statuses

\* A reply reaches the pass that waits for it and no other.
LEMMA DeliverDoes ==
  ASSUME Typed, NEW step \in {"Await", "Watch"}, NEW c, NEW t, NEW r \in Replies,
         Deliver(step, c, t, r)
  PROVE  /\ pass' \in [Controllers -> Passes]
         /\ \A k \in Controllers :
              IF pass[k].step = step /\ pass[k].cmd = c /\ pass[k].token = t
              THEN /\ Onward(k) /\ pass'[k].reply = r
                   /\ pass'[k].step = IF step = "Await" THEN "Record" ELSE "Answered"
              ELSE pass'[k] = pass[k]
  <1>1. pass' = [k \in Controllers |->
                IF pass[k].step = step /\ pass[k].cmd = c /\ pass[k].token = t
                THEN Answered(pass[k], r) ELSE pass[k]]
    BY DEF Deliver
  <1>2. ASSUME NEW k \in Controllers
        PROVE  /\ pass'[k] \in Passes
               /\ IF pass[k].step = step /\ pass[k].cmd = c /\ pass[k].token = t
                  THEN /\ Onward(k) /\ pass'[k].reply = r
                       /\ pass'[k].step = IF step = "Await" THEN "Record" ELSE "Answered"
                  ELSE pass'[k] = pass[k]
    <2>1. CASE pass[k].step = step /\ pass[k].cmd = c /\ pass[k].token = t
      <3> DEFINE p == Answered(pass[k], r)
      <3>1. /\ p \in Passes /\ p.reply = r
            /\ p.step = IF pass[k].step \in {"Lease", "Send", "Await"} THEN "Record" ELSE "Answered"
            /\ p.gen = pass[k].gen /\ p.todo = pass[k].todo
            /\ p.absent = pass[k].absent /\ p.cmd = pass[k].cmd /\ p.token = pass[k].token
        BY AnsweredMoves DEF Replies
      <3>2. pass'[k] = p BY <1>1, <2>1
      <3> HIDE DEF p
      <3> QED BY <2>1, <3>1, <3>2 DEF Onward
    <2>2. CASE ~(pass[k].step = step /\ pass[k].cmd = c /\ pass[k].token = t)
      BY <1>1, <2>2 DEF Typed
    <2> QED BY <2>1, <2>2
  <1>3. pass' \in [Controllers -> Passes] BY <1>1, <1>2
  <1> QED BY <1>2, <1>3

\* The lease is presented, a command is sent, a question is asked.
LEMMA StreamDoes ==
  ASSUME Typed, NEW k \in Controllers, SendLease(k) \/ execute(k) \/ observe(k)
  PROVE  /\ \/ pass[k].step = "Lease" /\ Moves(k, "Send")
            \/ pass[k].step = "AskLease" /\ Moves(k, "Ask")
            \/ pass[k].step = "Send" /\ Moves(k, "Await") /\ execute(k)
            \/ pass[k].step = "Ask" /\ Moves(k, "Watch") /\ observe(k)
         /\ pass'[k].reply = pass[k].reply
         /\ UNCHANGED <<generation, content, rows, created, realm_lease, agent_lease, reported, broken>>
  <1>1. {"Send", "Ask", "Await", "Watch"} \subseteq Steps BY DEF Steps
  <1>2. ASSUME SendLease(k)
        PROVE  /\ \/ pass[k].step = "Lease" /\ Moves(k, "Send")
                  \/ pass[k].step = "AskLease" /\ Moves(k, "Ask")
               /\ pass'[k].reply = pass[k].reply
    BY <1>1, <1>2, GoMoves DEF SendLease, At
  <1>3. ASSUME execute(k)
        PROVE  pass[k].step = "Send" /\ Moves(k, "Await") /\ pass'[k].reply = pass[k].reply
    BY <1>1, <1>3, GoMoves DEF execute, At
  <1>4. ASSUME observe(k)
        PROVE  pass[k].step = "Ask" /\ Moves(k, "Watch") /\ pass'[k].reply = pass[k].reply
    BY <1>1, <1>4, GoMoves DEF observe, At
  <1>5. UNCHANGED <<generation, content, rows, created, realm_lease, agent_lease, reported, broken>>
    BY DEF SendLease, execute, observe
  <1> QED BY <1>2, <1>3, <1>4, <1>5

\* An answer of the agent's that does not wait for the lane, a refusal, or
\* the end of the stream.
LEMMA AnswerDoes ==
  ASSUME Typed, NEW k \in Controllers, ObserveRunning(k) \/ Refused(k) \/ StreamBreaks(k)
  PROVE  /\ \/ pass[k].step \in {"Lease", "Send", "Await"} /\ Moves(k, "Record")
            \/ pass[k].step \in {"AskLease", "Ask", "Watch"} /\ Moves(k, "Answered")
         /\ pass'[k].reply \in {"error", "running"}
         /\ pass[k].step = "Await" => broken' = TRUE
         /\ broken' = broken \/ broken' = TRUE
         /\ UNCHANGED <<generation, content, rows, created, realm_lease, agent_lease, reported, agent>>
  <1>1. CASE Refused(k) \/ StreamBreaks(k)
    <2> DEFINE p == Answered(pass[k], "error")
    <2>1. /\ p \in Passes /\ p.reply = "error"
          /\ p.step = IF pass[k].step \in {"Lease", "Send", "Await"} THEN "Record" ELSE "Answered"
          /\ p.gen = pass[k].gen /\ p.todo = pass[k].todo
          /\ p.absent = pass[k].absent /\ p.cmd = pass[k].cmd /\ p.token = pass[k].token
      BY AnsweredMoves
    <2>2. pass' = [pass EXCEPT ![k] = p]
          /\ pass[k].step \in {"Lease", "Send", "Await", "AskLease", "Ask", "Watch"}
      BY <1>1 DEF Refused, StreamBreaks, At
    <2> HIDE DEF p
    <2>3. pass' \in [Controllers -> Passes] /\ Others(k) /\ pass'[k] = p BY <2>1, <2>2, OnePass
    <2>4. /\ \/ pass[k].step \in {"Lease", "Send", "Await"} /\ Moves(k, "Record")
             \/ pass[k].step \in {"AskLease", "Ask", "Watch"} /\ Moves(k, "Answered")
          /\ pass'[k].reply = "error"
      BY <2>1, <2>2, <2>3 DEF Moves
    <2>5. UNCHANGED <<generation, content, rows, created, realm_lease, agent_lease, reported, agent>>
      BY <1>1 DEF Refused, StreamBreaks
    <2>6. (broken' = broken \/ broken' = TRUE) /\ (pass[k].step = "Await" => broken' = TRUE)
      BY <1>1 DEF Refused, StreamBreaks, At
    <2> QED BY <2>4, <2>5, <2>6
  <1>2. CASE ObserveRunning(k)
    <2> DEFINE p == [pass[k] EXCEPT !.step = "Answered", !.reply = "running"]
    <2>0. pass[k] \in Passes BY DEF Typed
    <2>1. /\ p \in Passes /\ p.reply = "running" /\ p.step = "Answered"
          /\ p.gen = pass[k].gen /\ p.todo = pass[k].todo
          /\ p.absent = pass[k].absent /\ p.cmd = pass[k].cmd /\ p.token = pass[k].token
      BY <2>0 DEF Passes, Steps
    <2>2. pass' = [pass EXCEPT ![k] = p] /\ pass[k].step = "Ask"
      BY <1>2, <2>0 DEF ObserveRunning, At, Typed
    <2> HIDE DEF p
    <2>3. pass' \in [Controllers -> Passes] /\ Others(k) /\ pass'[k] = p BY <2>1, <2>2, OnePass
    <2> QED BY <1>2, <2>1, <2>2, <2>3 DEF Moves, ObserveRunning
  <1> QED BY <1>1, <1>2

\* A crash of the agent breaks the streams.
LEMMA AgentCrashDoes ==
  ASSUME Typed, AgentCrash
  PROVE  /\ pass' \in [Controllers -> Passes]
         /\ \A k \in Controllers : Onward(k)
         /\ \A k \in Controllers : \/ pass'[k] = pass[k] /\ pass[k].step # "Await"
                                   \/ pass'[k].reply = "error"
         /\ UNCHANGED <<generation, content, rows, created, realm_lease, agent_lease, reported, broken>>
  <1>1. pass' = [k \in Controllers |->
                  IF pass[k].step \in {"Await", "Watch"} THEN Answered(pass[k], "error")
                  ELSE pass[k]]
    BY DEF AgentCrash
  <1>2. ASSUME NEW k \in Controllers
        PROVE  /\ pass'[k] \in Passes /\ Onward(k)
               /\ \/ pass'[k] = pass[k] /\ pass[k].step # "Await"
                  \/ pass'[k].reply = "error"
    <2>1. CASE pass[k].step \in {"Await", "Watch"}
      <3> DEFINE p == Answered(pass[k], "error")
      <3>1. /\ p \in Passes /\ p.reply = "error"
            /\ p.step = IF pass[k].step \in {"Lease", "Send", "Await"} THEN "Record" ELSE "Answered"
            /\ p.gen = pass[k].gen /\ p.todo = pass[k].todo
            /\ p.absent = pass[k].absent /\ p.cmd = pass[k].cmd /\ p.token = pass[k].token
        BY AnsweredMoves
      <3>2. pass'[k] = p BY <1>1, <2>1
      <3> HIDE DEF p
      <3> QED BY <2>1, <3>1, <3>2 DEF Onward
    <2>2. CASE pass[k].step \notin {"Await", "Watch"} BY <1>1, <2>2 DEF Typed, Onward
    <2> QED BY <2>1, <2>2
  <1>3. pass' \in [Controllers -> Passes] BY <1>1, <1>2
  <1> QED BY <1>2, <1>3 DEF AgentCrash

\* The agent's steps only reach passes that wait for a reply.
LEMMA AgentStepTalks ==
  ASSUME Typed, AP!NInv', NEW c \in Met, AgentStep(c)
  PROVE  Talks
  <1>0. c \in Commands /\ A!TypeOK'
    <2>1. A!TypeOK' BY AgentKeeps, PTL
    <2> QED BY <2>1 DEF Met
  <1>1. journal'[c] \in Replies
    BY <1>0 DEF A!TypeOK, Replies
  <1>2. "error" \in Replies /\ "not_found" \in Replies BY DEF Replies
  <1>3. pass' \in [Controllers -> Passes] /\ \A k \in Controllers : Onward(k)
    <2>1. CASE UNCHANGED pass BY <2>1 DEF Typed, Onward
    <2>2. ASSUME NEW step \in {"Await", "Watch"}, NEW t, NEW r \in Replies, Deliver(step, c, t, r)
          PROVE  pass' \in [Controllers -> Passes] /\ \A k \in Controllers : Onward(k)
      <3>1. /\ pass' \in [Controllers -> Passes]
            /\ \A k \in Controllers : Onward(k) \/ pass'[k] = pass[k]
        BY <2>2, DeliverDoes
      <3>2. \A k \in Controllers : pass'[k] = pass[k] => Onward(k) BY DEF Onward
      <3> QED BY <3>1, <3>2
    <2>3. \/ UNCHANGED pass
          \/ \E t : Deliver("Await", c, t, "error")
          \/ \E t : Deliver("Await", c, t, journal'[c])
          \/ \E t : Deliver("Watch", c, t, journal'[c])
          \/ \E t : Deliver("Watch", c, t, "not_found")
      BY DEF AgentStep
    <2> QED BY <1>1, <1>2, <2>1, <2>2, <2>3
  <1> QED BY <1>3 DEF AgentStep, Talks

\* A pass that moves on a stream goes onward.
LEMMA MovesOnward ==
  ASSUME Typed, NEW k \in Controllers, NEW s, Moves(k, s),
         \/ pass[k].step = "AskConnect" /\ s = "AskLease"
         \/ pass[k].step = "AskLease" /\ s = "Ask"
         \/ pass[k].step = "Ask" /\ s = "Watch"
         \/ pass[k].step \in {"AskLease", "Ask", "Watch"} /\ s = "Answered"
         \/ pass[k].step = "Connect" /\ s = "Lease"
         \/ pass[k].step = "Lease" /\ s = "Send"
         \/ pass[k].step = "Send" /\ s = "Await"
         \/ pass[k].step \in {"Lease", "Send", "Await"} /\ s = "Record"
  PROVE  pass' \in [Controllers -> Passes] /\ \A j \in Controllers : Onward(j)
  <1>1. Onward(k) BY DEF Moves, Onward
  <1>2. \A j \in Controllers \ {k} : Onward(j) BY DEF Moves, Others, Onward
  <1> QED BY <1>1, <1>2 DEF Moves

\* Every step is one that leaves the rows and the leases alone, or one of the
\* eleven that do not; a binding, a lease's end and a pass's end are among them.
LEMMA StepKinds ==
  ASSUME Typed, AP!NInv', [Next]_vars
  PROVE  \/ Talks /\ UNCHANGED <<generation, content>>
         \/ AdvanceGeneration
         \/ UpdateBinding
         \/ Expire
         \/ \E k \in Controllers :
              \/ \E kind \in {"realm", "history"} : Request(k, kind)
              \/ AcquireRealm(k)
              \/ \E c \in pass[k].todo : ObserveNext(k, c)
              \/ Settle(k) \/ Derive(k) \/ Persist(k) \/ Run(k)
              \/ connect(k) /\ Quits(k) /\ Aside
                            /\ UNCHANGED <<rows, created, agent_lease, reported, broken>>
              \/ ConnectFails(k) \/ Record(k) \/ ControllerCrash(k)
  <1>1. ASSUME UNCHANGED pass, UNCHANGED <<rows, created, realm_lease, agent_lease>> PROVE Talks
    BY <1>1 DEF Typed, Talks, Onward
  <1>2. ASSUME NEW k \in Controllers, connect(k)
        PROVE  Aside /\ UNCHANGED <<rows, created, agent_lease, reported, broken>> /\ (Talks \/ Quits(k))
    <2>1. /\ Aside /\ UNCHANGED <<rows, created, agent_lease, reported, broken>>
          /\ \/ pass[k].step = "Connect" /\ Moves(k, "Lease") /\ UNCHANGED realm_lease
             \/ pass[k].step = "AskConnect" /\ Moves(k, "AskLease") /\ UNCHANGED realm_lease
             \/ Quits(k)
      BY <1>2, ConnectDoes
    <2>2. CASE pass[k].step = "Connect" /\ Moves(k, "Lease") /\ UNCHANGED realm_lease
      BY <2>1, <2>2, MovesOnward DEF Talks
    <2>3. CASE pass[k].step = "AskConnect" /\ Moves(k, "AskLease") /\ UNCHANGED realm_lease
      BY <2>1, <2>3, MovesOnward DEF Talks
    <2> QED BY <2>1, <2>2, <2>3
  <1>3. ASSUME NEW k \in Controllers, SendLease(k) \/ execute(k) \/ observe(k)
        PROVE  Talks /\ UNCHANGED <<generation, content>>
    BY <1>3, StreamDoes, MovesOnward DEF Talks
  <1>4. ASSUME NEW k \in Controllers, ObserveRunning(k) \/ Refused(k) \/ StreamBreaks(k)
        PROVE  Talks /\ UNCHANGED <<generation, content>>
    BY <1>4, AnswerDoes, MovesOnward DEF Talks
  <1>5. ASSUME AgentCrash PROVE Talks /\ UNCHANGED <<generation, content>>
    BY <1>5, AgentCrashDoes DEF Talks
  <1>6. ASSUME NEW c \in Met, AgentStep(c) PROVE Talks /\ UNCHANGED <<generation, content>>
    BY <1>6, AgentStepTalks DEF AgentStep
  <1>7. ASSUME Tick \/ AgentOpen \/ UNCHANGED vars PROVE Talks /\ UNCHANGED <<generation, content>>
    BY <1>1, <1>7 DEF Tick, AgentOpen, control, vars
  <1>8. ASSUME NEW k \in Controllers, PassStep(k)
        PROVE  \/ Talks /\ UNCHANGED <<generation, content>>
               \/ AcquireRealm(k)
               \/ \E c \in pass[k].todo : ObserveNext(k, c)
               \/ Settle(k) \/ Derive(k) \/ Persist(k) \/ Run(k)
               \/ connect(k) /\ Quits(k) /\ Aside
                             /\ UNCHANGED <<rows, created, agent_lease, reported, broken>>
               \/ Record(k)
    <2> QED BY <1>2, <1>3, <1>4, <1>8 DEF PassStep, Aside
  <1>9. ASSUME FaultStep
        PROVE  \/ Talks /\ UNCHANGED <<generation, content>>
               \/ \E k \in Controllers : ConnectFails(k) \/ ControllerCrash(k)
    BY <1>4, <1>5, <1>7, <1>9 DEF FaultStep
  <1> QED BY <1>6, <1>7, <1>8, <1>9 DEF Next

-----------------------------------------------------------------------------
(***************************************************************************)
(* Types.                                                                   *)
(***************************************************************************)
States == {"Absent", "Pending", "Running", "Retryable", "UnknownOutcome", "Succeeded", "Superseded"}

\* A controller starts without passes and without rows.
LEMMA TypedInit == Init => Typed
  <1> SUFFICES ASSUME Init PROVE Typed
    OBVIOUS
  <1>1. 1 \in Generations BY BoundsAssumption DEF Generations
  <1>2. pass \in [Controllers -> Passes] /\ \A k \in Controllers : pass[k] = Idle
    BY IdlePass DEF Init
  <1>3. \A k \in Controllers : Begun(k)
    BY <1>2 DEF Begun, Idle, Claiming, Asking, Sending
  <1>4. created \in Seq(Commands) BY DEF Init
  <1>5. rows \in [Commands -> States] BY DEF Init, States
  <1>6. /\ realm_lease \in [owner : Controllers \cup {Nobody}, live : BOOLEAN]
        /\ agent_lease \in [owner : Controllers \cup {Nobody}, token : 0..MaxToken, live : BOOLEAN]
    BY BoundsAssumption DEF Init
  <1>7. Numbered BY DEF Init, Numbered
  <1> QED BY <1>1, <1>2, <1>3, <1>4, <1>5, <1>6, <1>7 DEF Typed, Init, States

\* The writes of a row.
LEMMA RowsTyped ==
  ASSUME Typed, NEW c \in Commands
  PROVE  /\ \A s \in States : [rows EXCEPT ![c] = s] \in [Commands -> States]
         /\ \A r : Settled(r) \in States
         /\ Persisted(c) \in [Commands -> States]
  <1>1. rows \in [Commands -> States] BY DEF Typed, States
  <1>2. \A s \in States : [rows EXCEPT ![c] = s] \in [Commands -> States] BY <1>1
  <1>3. \A r : Settled(r) \in States BY DEF Settled, States
  <1> DEFINE S == IF rows[c] = "Absent" /\ IsSuccessor(c)
                  THEN [rows EXCEPT ![New(c.old)] = "Superseded"] ELSE rows
             s == CASE rows[c] = "Absent" -> "Pending"
                    [] rows[c] \in {"Running", "UnknownOutcome"} -> "Retryable"
                    [] OTHER -> S[c]
  <1>4. S \in [Commands -> States] BY <1>1 DEF States
  <1>5. Persisted(c) = [S EXCEPT ![c] = s] BY DEF Persisted
  <1> HIDE DEF S
  <1>6. s \in States BY <1>4 DEF States
  <1> HIDE DEF s
  <1>7. Persisted(c) \in [Commands -> States] BY <1>4, <1>5, <1>6
  <1> QED BY <1>2, <1>3, <1>7

\* What a pass knows stays with it.
LEMMA BegunOthers ==
  ASSUME Typed, NEW k \in Controllers, Others(k), Begun(k)'
  PROVE  \A j \in Controllers : Begun(j)'
  BY DEF Typed, Others, Begun

\* A pass that is over knows nothing.
LEMMA QuitsBegun ==
  ASSUME Typed, NEW k \in Controllers, Quits(k)
  PROVE  /\ pass' \in [Controllers -> Passes]
         /\ \A j \in Controllers : Begun(j)'
         /\ realm_lease' \in [owner : Controllers \cup {Nobody}, live : BOOLEAN]
  <1>1. Begun(k)' BY DEF Quits, Begun, Idle, Claiming, Asking, Sending
  <1> QED BY <1>1, BegunOthers DEF Quits

\* Type correctness of the controllers' state is kept.
LEMMA TypedNext ==
  ASSUME Typed, AP!NInv', [Next]_vars
  PROVE  Typed'
  <1> DEFINE RealmLeases == [owner : Controllers \cup {Nobody}, live : BOOLEAN]
             AgentLeases == [owner : Controllers \cup {Nobody}, token : 0..MaxToken, live : BOOLEAN]
  <1>0. /\ generation \in Generations /\ content \in Generations /\ rows \in [Commands -> States]
        /\ created \in Seq(Commands) /\ realm_lease \in RealmLeases /\ agent_lease \in AgentLeases
        /\ Numbered
    BY DEF Typed, States
  <1>1. CloseAgent => agent_lease' \in AgentLeases /\ Numbered' BY <1>0 DEF CloseAgent, Numbered
  <1>2. CASE Talks /\ UNCHANGED <<generation, content>>
    <2>1. \A k \in Controllers : Begun(k)'
      BY <1>2 DEF Talks, Onward, Typed, Begun, Claiming, Asking, Sending
    <2> QED BY <1>0, <1>2, <2>1 DEF Talks, Typed, Numbered, States
  <1>3. CASE AdvanceGeneration
    BY <1>0, <1>3, BoundsAssumption DEF AdvanceGeneration, Typed, Generations, Begun, Numbered
  <1>4. CASE UpdateBinding
    <2>1. content' \in Generations
      BY <1>0, <1>4, BoundsAssumption DEF UpdateBinding, Typed, Generations
    <2> QED BY <1>0, <1>4, <2>1 DEF UpdateBinding, Typed, Begun, Numbered
  <1>5. CASE Expire
    <2>1. realm_lease' \in RealmLeases /\ agent_lease' \in AgentLeases /\ Numbered'
      BY <1>0, <1>5 DEF Expire, Numbered
    <2> QED BY <1>0, <1>5, <2>1 DEF Expire, Typed, Begun
  <1>6. ASSUME NEW k \in Controllers, NEW kind \in {"realm", "history"}, Request(k, kind) PROVE Typed'
    <2>1. /\ pass' \in [Controllers -> Passes] /\ Others(k)
          /\ pass'[k].step = "Start" /\ pass'[k].gen = generation
          /\ pass'[k].todo = {} /\ pass'[k].absent = {}
          /\ Aside /\ UNCHANGED <<rows, created, realm_lease, agent_lease, reported, broken>>
      BY <1>6, RequestDoes
    <2>2. Begun(k)' BY <1>0, <2>1 DEF Begun, Claiming, Asking, Sending
    <2> QED BY <1>0, <2>1, <2>2, BegunOthers DEF Typed, Aside, States, Numbered
  <1>7. ASSUME NEW k \in Controllers, AcquireRealm(k) PROVE Typed'
    <2>1. Aside /\ UNCHANGED <<rows, created, agent_lease>> /\ pass[k].step = "Start"
      BY <1>7, AcquireDoes
    <2>2. CASE Quits(k) BY <1>0, <2>1, <2>2, QuitsBegun DEF Typed, Aside, States, Numbered
    <2>3. CASE ~Quits(k)
      <3>1. /\ pass' \in [Controllers -> Passes] /\ Others(k)
            /\ pass'[k].step = "Observe" /\ pass'[k].gen = pass[k].gen
            /\ realm_lease' = [owner |-> k, live |-> TRUE]
        BY <1>7, <2>3, AcquireDoes
      <3>2. Begun(k)' BY <2>1, <3>1 DEF Typed, Begun, Claiming, Asking, Sending
      <3>3. realm_lease' \in RealmLeases BY <3>1
      <3> QED BY <1>0, <2>1, <3>1, <3>2, <3>3, BegunOthers DEF Typed, Aside, States, Numbered
    <2> QED BY <2>2, <2>3
  <1>8. ASSUME NEW k \in Controllers, NEW c \in pass[k].todo, ObserveNext(k, c) PROVE Typed'
    <2>1. Aside /\ UNCHANGED <<rows, created>> /\ pass[k].step = "Observe" /\ c \in Commands
      BY <1>8, ObserveNextDoes
    <2>2. CASE Quits(k) /\ UNCHANGED agent_lease BY <1>0, <2>1, <2>2, QuitsBegun DEF Typed, Aside, States, Numbered
    <2>3. CASE ~(Quits(k) /\ UNCHANGED agent_lease)
      <3>1. /\ pass' \in [Controllers -> Passes] /\ Others(k)
            /\ pass'[k].step = "AskConnect" /\ pass'[k].gen = pass[k].gen
            /\ pass'[k].cmd = c /\ pass'[k].token = NextToken
            /\ AgentLeaseFree(k) /\ ClaimAgent(k) /\ UNCHANGED realm_lease
        BY <1>8, <2>3, ObserveNextDoes
      <3>2. agent_lease' \in AgentLeases /\ NextToken # 0 /\ Numbered' BY <3>1, ClaimDoes
      <3>3. Begun(k)' BY <2>1, <3>1, <3>2 DEF Typed, Begun, Claiming, Asking, Sending
      <3> QED BY <1>0, <2>1, <3>1, <3>2, <3>3, BegunOthers DEF Typed, Aside, States
    <2> QED BY <2>2, <2>3
  <1>9. ASSUME NEW k \in Controllers, Settle(k) PROVE Typed'
    <2>1. /\ Aside /\ UNCHANGED created /\ pass[k].step = "Answered" /\ pass[k].cmd \in Commands
          /\ \/ UNCHANGED agent_lease \/ CloseAgent
          /\ \/ UNCHANGED rows \/ rows' = [rows EXCEPT ![pass[k].cmd] = Settled(pass[k].reply)]
      BY <1>9, SettleDoes
    <2>2. rows' \in [Commands -> States] /\ agent_lease' \in AgentLeases /\ Numbered'
      BY <1>0, <1>1, <2>1, RowsTyped DEF Numbered
    <2>3. CASE Quits(k) BY <1>0, <2>1, <2>2, <2>3, QuitsBegun DEF Typed, Aside, States
    <2>4. CASE ~Quits(k)
      <3>1. /\ pass' \in [Controllers -> Passes] /\ Others(k)
            /\ pass'[k].step = "Observe" /\ pass'[k].gen = pass[k].gen
            /\ UNCHANGED realm_lease
        BY <1>9, <2>4, SettleDoes
      <3>2. Begun(k)' BY <2>1, <3>1 DEF Typed, Begun, Claiming, Asking, Sending
      <3> QED BY <1>0, <2>1, <2>2, <3>1, <3>2, BegunOthers DEF Typed, Aside, States
    <2> QED BY <2>3, <2>4
  <1>10. ASSUME NEW k \in Controllers, Derive(k) PROVE Typed'
    <2>1. Aside /\ UNCHANGED <<rows, created>> /\ pass[k].step = "Observe"
      BY <1>10, DeriveDoes
    <2>2. CASE Quits(k) /\ UNCHANGED agent_lease
      BY <1>0, <2>1, <2>2, QuitsBegun DEF Typed, Aside, States, Numbered
    <2>3. CASE ~(Quits(k) /\ UNCHANGED agent_lease)
      <3>1. /\ pass' \in [Controllers -> Passes] /\ Others(k)
            /\ pass'[k].step = "Persist" /\ pass'[k].gen = pass[k].gen
            /\ pass'[k].cmd \in Commands /\ pass'[k].token = NextToken
            /\ AgentLeaseFree(k) /\ ClaimAgent(k) /\ UNCHANGED realm_lease
        BY <1>10, <2>3, DeriveDoes
      <3>2. agent_lease' \in AgentLeases /\ NextToken # 0 /\ Numbered' BY <3>1, ClaimDoes
      <3>3. Begun(k)' BY <2>1, <3>1, <3>2 DEF Typed, Begun, Claiming, Asking, Sending
      <3> QED BY <1>0, <2>1, <3>1, <3>2, <3>3, BegunOthers DEF Typed, Aside, States
    <2> QED BY <2>2, <2>3
  <1>11. ASSUME NEW k \in Controllers, Persist(k) PROVE Typed'
    <2>1. /\ Aside /\ UNCHANGED agent_lease /\ pass[k].step = "Persist" /\ pass[k].cmd \in Commands
          /\ \/ rows' = Persisted(pass[k].cmd) \/ UNCHANGED rows
          /\ created' \in {created, Append(created, pass[k].cmd)}
          /\ \/ Moves(k, "Run") /\ UNCHANGED realm_lease
             \/ Quits(k)
      BY <1>11, PersistDoes
    <2>2. rows' \in [Commands -> States] /\ created' \in Seq(Commands)
      <3>1. rows' \in [Commands -> States] BY <1>0, <2>1, RowsTyped
      <3>2. Append(created, pass[k].cmd) \in Seq(Commands) BY <1>0, <2>1
      <3> QED BY <1>0, <2>1, <3>1, <3>2
    <2>3. CASE Quits(k) BY <1>0, <2>1, <2>2, <2>3, QuitsBegun DEF Typed, Aside, States, Numbered
    <2>4. CASE Moves(k, "Run") /\ UNCHANGED realm_lease
      <3>1. Begun(k)' /\ Others(k)
        BY <2>1, <2>4 DEF Moves, Typed, Begun, Claiming, Asking, Sending
      <3> QED BY <1>0, <2>1, <2>2, <2>4, <3>1, BegunOthers DEF Typed, Aside, States, Numbered, Moves
    <2> QED BY <2>1, <2>3, <2>4
  <1>12. ASSUME NEW k \in Controllers, Run(k) PROVE Typed'
    <2>1. /\ Aside /\ UNCHANGED <<created, agent_lease>>
          /\ pass[k].step = "Run" /\ pass[k].cmd \in Commands
          /\ \/ rows' = [rows EXCEPT ![pass[k].cmd] = "Running"] \/ UNCHANGED rows
          /\ \/ Moves(k, "Connect") /\ UNCHANGED realm_lease
             \/ Quits(k)
      BY <1>12, RunDoes
    <2>2. rows' \in [Commands -> States] BY <1>0, <2>1, RowsTyped DEF States
    <2>3. CASE Quits(k) BY <1>0, <2>1, <2>2, <2>3, QuitsBegun DEF Typed, Aside, States, Numbered
    <2>4. CASE Moves(k, "Connect") /\ UNCHANGED realm_lease
      <3>1. Begun(k)' /\ Others(k)
        BY <2>1, <2>4 DEF Moves, Typed, Begun, Claiming, Asking, Sending
      <3> QED BY <1>0, <2>1, <2>2, <2>4, <3>1, BegunOthers DEF Typed, Aside, States, Numbered, Moves
    <2> QED BY <2>1, <2>3, <2>4
  <1>13. ASSUME NEW k \in Controllers, Quits(k), Aside, UNCHANGED <<rows, created, agent_lease>>
         PROVE  Typed'
    BY <1>0, <1>13, QuitsBegun DEF Typed, Aside, States, Numbered
  <1>14. ASSUME NEW k \in Controllers, ConnectFails(k) PROVE Typed'
    <2>1. /\ Aside /\ UNCHANGED <<created, agent_lease>> /\ Quits(k) /\ pass[k].cmd \in Commands
          /\ \/ UNCHANGED rows \/ rows' = [rows EXCEPT ![pass[k].cmd] = "Retryable"]
      BY <1>14, ConnectFailsDoes
    <2>2. rows' \in [Commands -> States] BY <1>0, <2>1, RowsTyped DEF States
    <2> QED BY <1>0, <2>1, <2>2, QuitsBegun DEF Typed, Aside, States, Numbered
  <1>15. ASSUME NEW k \in Controllers, Record(k) PROVE Typed'
    <2>1. /\ Aside /\ UNCHANGED created /\ Quits(k) /\ pass[k].cmd \in Commands
          /\ \/ UNCHANGED agent_lease \/ CloseAgent
          /\ \/ UNCHANGED rows
             \/ rows' = [rows EXCEPT ![pass[k].cmd] = "UnknownOutcome"]
             \/ rows' = [rows EXCEPT ![pass[k].cmd] = Settled(pass[k].reply)]
      BY <1>15, RecordDoes
    <2>2. rows' \in [Commands -> States] /\ agent_lease' \in AgentLeases /\ Numbered'
      <3>1. "UnknownOutcome" \in States BY DEF States
      <3> QED BY <1>0, <1>1, <2>1, <3>1, RowsTyped DEF Numbered
    <2> QED BY <1>0, <2>1, <2>2, QuitsBegun DEF Typed, Aside, States
  <1>16. ASSUME NEW k \in Controllers, ControllerCrash(k) PROVE Typed'
    <2>1. /\ Quits(k) /\ agent_lease' \in AgentLeases /\ agent_lease'.token = agent_lease.token
          /\ agent_lease'.live = agent_lease.live
          /\ UNCHANGED <<generation, content, rows, created>>
      BY <1>16, CrashQuits
    <2>2. Numbered' BY <1>0, <2>1 DEF Numbered
    <2> QED BY <1>0, <2>1, <2>2, QuitsBegun DEF Typed, States
  <1> QED BY StepKinds, <1>2, <1>3, <1>4, <1>5, <1>6, <1>7, <1>8, <1>9, <1>10, <1>11, <1>12,
             <1>13, <1>14, <1>15, <1>16

-----------------------------------------------------------------------------
(***************************************************************************)
(* The rows.  Only the holder of the realm's lease writes them, so what a   *)
(* pass found stays true until it loses the lease, which it never regains.  *)
(***************************************************************************)
Late == {"Run", "Connect", "Lease", "Send", "Await", "Record"}

\* The rows and the holder's findings as they were: nothing new to know.
LEMMA RowsStay ==
  ASSUME RowsInv, rows' = rows,
         \A k \in Controllers : HoldsRealm(k)' =>
            /\ HoldsRealm(k)
            /\ pass[k].step \notin {"Idle", "Start"} =>
                 /\ pass'[k].todo = pass[k].todo
                 /\ pass'[k].absent = pass[k].absent
                 /\ pass'[k].cmd = pass[k].cmd
                 /\ \/ pass'[k].step = pass[k].step
                    \/ pass[k].step \in Asking /\ pass'[k].step \in Asking
                    \/ pass[k].step \in Late /\ pass'[k].step \in Late
  PROVE  RowsInv'
  <1>1. Unresolved' = Unresolved BY DEF Unresolved
  <1>2. Single' /\ Chain' BY <1>1 DEF RowsInv, Single, Chain
  <1>3. ASSUME NEW k \in Controllers, HoldsRealm(k)' PROVE Knows(k)'
    <2>1. Knows(k) /\ pass[k].step \notin {"Idle", "Start"} BY <1>3 DEF RowsInv, Knows
    <2>2. /\ pass'[k].todo = pass[k].todo
          /\ pass'[k].absent = pass[k].absent
          /\ pass'[k].cmd = pass[k].cmd
          /\ \/ pass'[k].step = pass[k].step
             \/ pass[k].step \in Asking /\ pass'[k].step \in Asking
             \/ pass[k].step \in Late /\ pass'[k].step \in Late
      BY <1>3, <2>1
    <2> QED BY <1>1, <2>1, <2>2 DEF Knows, Asking, Late, Chosen
  <1> QED BY <1>2, <1>3 DEF RowsInv

\* The lease in the same hands.
LEMMA RealmStays ==
  ASSUME realm_lease' = realm_lease
  PROVE  \A k \in Controllers : HoldsRealm(k)' <=> HoldsRealm(k)
  BY DEF HoldsRealm

\* A lease has one holder.
LEMMA OneHolder ==
  ASSUME NEW j \in Controllers, NEW k \in Controllers, HoldsRealm(j), HoldsRealm(k)
  PROVE  j = k
  BY DEF HoldsRealm

\* A pass that ends without a write.
LEMMA RowsQuit ==
  ASSUME RowsInv, NEW k \in Controllers, Quits(k), rows' = rows
  PROVE  RowsInv'
  BY RowsStay DEF Quits, Others

\* The holder writes the row of its command.
LEMMA Rewritten ==
  ASSUME Typed, NEW c \in Commands, NEW s \in States, rows' = [rows EXCEPT ![c] = s]
  PROVE  /\ s \notin {"Absent", "Succeeded", "Superseded"} => Unresolved' = Unresolved \cup {c}
         /\ s \in {"Absent", "Succeeded", "Superseded"} => Unresolved' = Unresolved \ {c}
         /\ rows'[c] = s /\ \A d \in Commands \ {c} : rows'[d] = rows[d]
  BY DEF Typed, Unresolved, States

\* The chain of successors, when the row of an unresolved command is settled.
LEMMA ChainKept ==
  ASSUME Typed, Chain, NEW c \in Unresolved, NEW s \in States \ {"Absent", "Superseded"},
         rows' = [rows EXCEPT ![c] = s]
  PROVE  Chain'
  <1>1. c \in Commands /\ rows[c] \notin {"Absent", "Superseded"} BY DEF Unresolved
  <1>2. rows'[c] = s /\ \A d \in Commands \ {c} : rows'[d] = rows[d] BY <1>1, Rewritten
  <1>3. \A d \in Commands : (rows'[d] = "Absent" <=> rows[d] = "Absent")
                         /\ (rows'[d] = "Superseded" <=> rows[d] = "Superseded")
    BY <1>1, <1>2
  <1>4. \A d \in Commands : IsSuccessor(d) => New(d.old) \in Commands
    BY DEF IsSuccessor, New, Commands
  <1> QED BY <1>3, <1>4 DEF Chain

\* The rows once a command of a holder is written: a new one, with the row it
\* supersedes, or one that an earlier pass left behind.
LEMMA PersistedRows ==
  ASSUME Typed, RowsInv, NEW k \in Controllers, HoldsRealm(k), pass[k].step = "Persist",
         pass[k].cmd \in Commands, rows[pass[k].cmd] = "Absent" \/ IsSuccessor(pass[k].cmd),
         rows' = Persisted(pass[k].cmd)
  PROVE  /\ Unresolved' = {pass[k].cmd}
         /\ Chain'
         /\ \A d \in Commands : \/ rows'[d] = rows[d] \/ d = pass[k].cmd
                                \/ rows'[d] = "Superseded" /\ d \in pass[k].absent
         /\ rows'[pass[k].cmd] \in {"Pending", "Retryable"}
  <1> DEFINE c == pass[k].cmd
             h == New(c.old)
  <1>0. /\ Unresolved = pass[k].absent /\ Chosen(c, pass[k].absent) /\ Single /\ Chain
        /\ rows \in [Commands -> States]
    BY DEF RowsInv, Knows, Typed, States
  <1>1. CASE rows[c] = "Absent" /\ ~IsSuccessor(c)
    <2>1. Unresolved = {}
      <3>1. pass[k].absent # {} => \E e \in pass[k].absent : ~IsSuccessor(e) /\ c.old = e.ver
        BY <1>0, <1>1 DEF Chosen
      <3>2. \A e \in Unresolved : e.ver \in Versions BY DEF Unresolved, Commands
      <3> QED BY <1>0, <1>1, <3>1, <3>2, VersionsNonempty DEF IsSuccessor
    <2>2. rows' = [rows EXCEPT ![c] = "Pending"] BY <1>1 DEF Persisted
    <2>3. Unresolved' = {c} /\ rows'[c] = "Pending" /\ \A d \in Commands \ {c} : rows'[d] = rows[d]
      BY <2>1, <2>2, Rewritten DEF States
    <2>4. Chain'
      <3>1. ASSUME NEW d \in Commands
            PROVE  /\ IsSuccessor(d) /\ rows'[d] # "Absent" => rows'[New(d.old)] = "Superseded"
                   /\ rows'[d] = "Superseded" => ~IsSuccessor(d)
        <4>1. CASE d = c BY <1>1, <2>3, <4>1
        <4>2. CASE d # c
          <5>1. rows'[d] = rows[d] BY <2>3, <4>2
          <5>2. IsSuccessor(d) => New(d.old) \in Commands BY DEF IsSuccessor, New, Commands
          <5>3. IsSuccessor(d) /\ rows'[d] # "Absent" => rows[New(d.old)] = "Superseded"
            BY <1>0, <5>1 DEF Chain
          <5> QED BY <1>0, <1>1, <2>3, <5>1, <5>2, <5>3 DEF Chain
        <4> QED BY <4>1, <4>2
      <3> QED BY <3>1 DEF Chain
    <2> QED BY <2>3, <2>4
  <1>2. CASE rows[c] = "Absent" /\ IsSuccessor(c)
    <2>1. /\ h \in pass[k].absent /\ ~IsSuccessor(h) /\ h \in Commands
      <3>1. c \notin Unresolved BY <1>2 DEF Unresolved
      <3>2. PICK e \in pass[k].absent : ~IsSuccessor(e) /\ c.old = e.ver
        BY <1>0, <1>2, <3>1 DEF Chosen
      <3>3. e \in Commands BY <1>0 DEF Unresolved
      <3>4. e = New(e.ver) BY <3>2, <3>3 DEF IsSuccessor, New, Commands
      <3> QED BY <3>2, <3>3, <3>4
    <2>2. c # h BY <1>2, <2>1
    <2>3. \A d \in Unresolved : d = h BY <1>0, <2>1 DEF Single
    <2>4. rows' = [[rows EXCEPT ![h] = "Superseded"] EXCEPT ![c] = "Pending"]
      BY <1>2 DEF Persisted
    <2> HIDE DEF h
    <2>5. /\ rows'[c] = "Pending" /\ rows'[h] = "Superseded"
          /\ \A d \in Commands \ {c, h} : rows'[d] = rows[d]
      BY <1>0, <2>1, <2>2, <2>4
    <2>6. Unresolved' = {c} BY <2>1, <2>2, <2>3, <2>5 DEF Unresolved
    <2>7. Chain'
      <3>1. ASSUME NEW d \in Commands
            PROVE  /\ IsSuccessor(d) /\ rows'[d] # "Absent" => rows'[New(d.old)] = "Superseded"
                   /\ rows'[d] = "Superseded" => ~IsSuccessor(d)
        <4>1. CASE d = c BY <2>1, <2>2, <2>5, <4>1 DEF h
        <4>2. CASE d = h BY <2>1, <4>2
        <4>3. CASE d \notin {c, h}
          <5>1. rows'[d] = rows[d] BY <2>5, <4>3
          <5>2. IsSuccessor(d) => New(d.old) \in Commands BY DEF IsSuccessor, New, Commands
          <5>3. IsSuccessor(d) /\ rows'[d] # "Absent" => rows[New(d.old)] = "Superseded"
            BY <1>0, <5>1 DEF Chain
          <5> QED BY <1>0, <1>2, <2>5, <5>1, <5>2, <5>3 DEF Chain
        <4> QED BY <4>1, <4>2, <4>3
      <3> QED BY <3>1 DEF Chain
    <2> QED BY <2>1, <2>5, <2>6, <2>7
  <1>3. CASE rows[c] # "Absent" /\ IsSuccessor(c)
    <2>1. c \in Unresolved
      <3>1. rows[h] = "Superseded" BY <1>0, <1>3 DEF Chain
      <3>2. h \notin Unresolved BY <3>1 DEF Unresolved
      <3>3. pass[k].absent # {} BY <1>0, <1>3 DEF Chosen
      <3>4. ASSUME NEW e \in pass[k].absent, ~IsSuccessor(e), c.old = e.ver PROVE FALSE
        <4>1. e \in Commands BY <1>0 DEF Unresolved
        <4>2. e = New(e.ver) BY <3>4, <4>1 DEF IsSuccessor, New, Commands
        <4> QED BY <1>0, <3>2, <3>4, <4>2
      <3> QED BY <1>0, <1>3, <3>3, <3>4 DEF Chosen
    <2> DEFINE s == IF rows[c] \in {"Running", "UnknownOutcome"} THEN "Retryable" ELSE rows[c]
    <2>2. rows' = [rows EXCEPT ![c] = s] BY <1>0, <1>3 DEF Persisted
    <2>3. s \in States \ {"Absent", "Succeeded", "Superseded"} /\ s \in {"Pending", "Retryable"}
      BY <1>0, <2>1 DEF Unresolved, States
    <2> HIDE DEF s
    <2>4. Chain' BY <1>0, <2>1, <2>2, <2>3, ChainKept
    <2>5. Unresolved' = Unresolved \cup {c} /\ rows'[c] = s /\ \A d \in Commands \ {c} : rows'[d] = rows[d]
      BY <2>2, <2>3, Rewritten
    <2>6. Unresolved' = {c} BY <1>0, <2>1, <2>5 DEF Single
    <2> QED BY <2>3, <2>4, <2>5, <2>6
  <1> QED BY <1>1, <1>2, <1>3

\* The holder settles the row of its command, or leaves it, and goes on or ends.
LEMMA RowsWritten ==
  ASSUME Typed, RowsInv, NEW k \in Controllers, HoldsRealm(k), NEW c \in Unresolved,
         NEW s \in States \ {"Absent", "Superseded"}, rows' = [rows EXCEPT ![c] = s],
         \A j \in Controllers \ {k} : ~HoldsRealm(j)',
         HoldsRealm(k)' => Knows(k)'
  PROVE  RowsInv'
  <1>1. Chain' BY ChainKept DEF RowsInv
  <1>2. Unresolved' \subseteq Unresolved \cup {c} BY Rewritten DEF Unresolved
  <1>3. Single' BY <1>2 DEF RowsInv, Single
  <1> QED BY <1>1, <1>3 DEF RowsInv

\* What a pass knows of the rows holds from step to step.
LEMMA RowsNext ==
  ASSUME Typed, RowsInv, AP!NInv', [Next]_vars
  PROVE  RowsInv'
  <1>1. CASE Talks /\ UNCHANGED <<generation, content>>
    <2>1. \A k \in Controllers : HoldsRealm(k)' <=> HoldsRealm(k) BY <1>1, RealmStays DEF Talks
    <2> QED BY <1>1, <2>1, RowsStay DEF Talks, Onward, Asking, Late
  <1>2. CASE AdvanceGeneration \/ UpdateBinding
    <2>1. UNCHANGED <<rows, pass, realm_lease>> BY <1>2 DEF AdvanceGeneration, UpdateBinding
    <2> QED BY <2>1, RealmStays, RowsStay
  <1>3. CASE Expire
    <2>1. UNCHANGED <<rows, pass>> BY <1>3 DEF Expire
    <2>2. \A k \in Controllers : HoldsRealm(k)' => HoldsRealm(k)
      BY <1>3 DEF Expire, HoldsRealm, Typed
    <2> QED BY <2>1, <2>2, RowsStay
  <1>4. ASSUME NEW k \in Controllers, NEW kind \in {"realm", "history"}, Request(k, kind) PROVE RowsInv'
    <2>1. Others(k) /\ pass[k].step = "Idle" /\ UNCHANGED <<rows, realm_lease>>
      BY <1>4, RequestDoes
    <2>2. \A j \in Controllers : HoldsRealm(j)' <=> HoldsRealm(j) BY <2>1, RealmStays
    <2> QED BY <2>1, <2>2, RowsStay DEF Others
  <1>5. ASSUME NEW k \in Controllers, AcquireRealm(k) PROVE RowsInv'
    <2>1. UNCHANGED rows /\ pass[k].step = "Start" BY <1>5, AcquireDoes
    <2>2. CASE Quits(k) BY <2>1, <2>2, RowsQuit
    <2>3. CASE ~Quits(k)
      <3>1. /\ Others(k) /\ pass'[k].step = "Observe" /\ pass'[k].todo = Unresolved
            /\ pass'[k].absent = {} /\ realm_lease' = [owner |-> k, live |-> TRUE]
        BY <1>5, <2>1, <2>3, AcquireDoes DEF Typed, Begun
      <3>2. \A j \in Controllers \ {k} : ~HoldsRealm(j)' BY <3>1 DEF HoldsRealm
      <3>3. Unresolved' = Unresolved BY <2>1 DEF Unresolved
      <3>4. Knows(k)' BY <3>1, <3>3 DEF Knows, Asking
      <3>5. Single' /\ Chain' BY <2>1, <3>3 DEF RowsInv, Single, Chain
      <3> QED BY <3>2, <3>4, <3>5 DEF RowsInv
    <2> QED BY <2>2, <2>3
  <1>6. ASSUME NEW k \in Controllers, NEW c \in pass[k].todo, ObserveNext(k, c) PROVE RowsInv'
    <2>1. UNCHANGED rows /\ pass[k].step = "Observe" BY <1>6, ObserveNextDoes
    <2>2. CASE Quits(k) BY <2>1, <2>2, RowsQuit
    <2>3. CASE ~Quits(k)
      <3>1. /\ Others(k) /\ pass'[k].step = "AskConnect" /\ pass'[k].todo = pass[k].todo
            /\ pass'[k].absent = pass[k].absent /\ pass'[k].cmd = c
            /\ HoldsRealm(k) /\ UNCHANGED realm_lease
        BY <1>6, <2>3, ObserveNextDoes
      <3>2. \A j \in Controllers : HoldsRealm(j)' <=> HoldsRealm(j) BY <3>1, RealmStays
      <3>3. Unresolved' = Unresolved BY <2>1 DEF Unresolved
      <3>4. Knows(k)' BY <1>6, <2>1, <3>1, <3>3 DEF RowsInv, Knows, Asking
      <3>5. Single' /\ Chain' BY <2>1, <3>3 DEF RowsInv, Single, Chain
      <3>6. \A j \in Controllers \ {k} : ~HoldsRealm(j)' BY <3>1, <3>2, OneHolder
      <3> QED BY <3>4, <3>5, <3>6 DEF RowsInv
    <2> QED BY <2>2, <2>3
  <1>7. ASSUME NEW k \in Controllers, Settle(k) PROVE RowsInv'
    <2> DEFINE c == pass[k].cmd
    <2>1. pass[k].step = "Answered" /\ c \in Commands BY <1>7, SettleDoes
    <2>2. CASE Quits(k) /\ UNCHANGED rows BY <2>2, RowsQuit
    <2>3. CASE ~(Quits(k) /\ UNCHANGED rows)
      <3>1. /\ HoldsRealm(k)
            /\ rows' = IF pass[k].reply \in {"not_found", "running"} THEN rows
                       ELSE [rows EXCEPT ![c] = Settled(pass[k].reply)]
            /\ \/ Quits(k)
               \/ /\ Others(k) /\ pass'[k].step = "Observe"
                  /\ pass'[k].todo = pass[k].todo \ {c}
                  /\ pass'[k].absent = IF pass[k].reply = "not_found"
                                       THEN pass[k].absent \cup {c} ELSE pass[k].absent
                  /\ UNCHANGED realm_lease
        BY <1>7, <2>3, SettleDoes DEF CanSettle
      <3>2. \A j \in Controllers \ {k} : ~HoldsRealm(j)'
        BY <3>1, RealmStays, OneHolder DEF Quits
      <3>3. /\ c \in Unresolved /\ c \in pass[k].todo /\ pass[k].todo \subseteq Unresolved
            /\ pass[k].absent \subseteq Unresolved /\ pass[k].todo \cap pass[k].absent = {}
        BY <2>1, <3>1 DEF RowsInv, Knows, Asking
      <3>4. Unresolved \ {c} \subseteq Unresolved'
            /\ (pass[k].reply = "not_found" => Unresolved \subseteq Unresolved')
        BY <2>1, <3>1, Rewritten, RowsTyped DEF Unresolved
      <3>5. HoldsRealm(k)' => Knows(k)'
        BY <3>1, <3>3, <3>4 DEF Knows, Asking, Quits
      <3>6. CASE rows' = rows
        <4>1. Unresolved' = Unresolved BY <3>6 DEF Unresolved
        <4>2. Single' /\ Chain' BY <3>6, <4>1 DEF RowsInv, Single, Chain
        <4> QED BY <3>2, <3>5, <4>2 DEF RowsInv
      <3>7. CASE rows' # rows
        <4>1. rows' = [rows EXCEPT ![c] = Settled(pass[k].reply)] BY <3>1, <3>7
        <4>2. Settled(pass[k].reply) \in States \ {"Absent", "Superseded"} BY DEF Settled, States
        <4> QED BY <3>1, <3>2, <3>3, <3>5, <4>1, <4>2, RowsWritten
      <3> QED BY <3>6, <3>7
    <2> QED BY <2>2, <2>3
  <1>8. ASSUME NEW k \in Controllers, Derive(k) PROVE RowsInv'
    <2>1. UNCHANGED rows /\ pass[k].step = "Observe" BY <1>8, DeriveDoes
    <2>2. CASE Quits(k) BY <2>1, <2>2, RowsQuit
    <2>3. CASE ~Quits(k)
      <3>1. /\ Others(k) /\ pass'[k].step = "Persist" /\ pass'[k].absent = pass[k].absent
            /\ Chosen(pass'[k].cmd, pass[k].absent) /\ Unresolved \subseteq pass[k].absent
            /\ HoldsRealm(k) /\ UNCHANGED realm_lease
        BY <1>8, <2>3, DeriveDoes
      <3>2. \A j \in Controllers : HoldsRealm(j)' <=> HoldsRealm(j) BY <3>1, RealmStays
      <3>3. Unresolved' = Unresolved BY <2>1 DEF Unresolved
      <3>4. pass[k].absent = Unresolved BY <2>1, <3>1 DEF RowsInv, Knows
      <3>5. Knows(k)' BY <3>1, <3>3, <3>4 DEF Knows, Asking, Chosen
      <3>6. Single' /\ Chain' BY <2>1, <3>3 DEF RowsInv, Single, Chain
      <3>7. \A j \in Controllers \ {k} : ~HoldsRealm(j)' BY <3>1, <3>2, OneHolder
      <3> QED BY <3>5, <3>6, <3>7 DEF RowsInv
    <2> QED BY <2>2, <2>3
  <1>9. ASSUME NEW k \in Controllers, Persist(k) PROVE RowsInv'
    <2>1. pass[k].step = "Persist" /\ pass[k].cmd \in Commands BY <1>9, PersistDoes
    <2>2. CASE Quits(k) /\ UNCHANGED rows BY <2>2, RowsQuit
    <2>3. CASE ~(Quits(k) /\ UNCHANGED rows)
      <3>1. /\ HoldsRealm(k) /\ Moves(k, "Run") /\ UNCHANGED realm_lease
            /\ rows[pass[k].cmd] = "Absent" \/ IsSuccessor(pass[k].cmd)
            /\ rows' = Persisted(pass[k].cmd)
        BY <1>9, <2>3, PersistDoes
      <3>2. Unresolved' = {pass[k].cmd} /\ Chain' BY <2>1, <3>1, PersistedRows
      <3>3. \A j \in Controllers : HoldsRealm(j)' <=> HoldsRealm(j) BY <3>1, RealmStays
      <3>4. Knows(k)' BY <3>1, <3>2 DEF Moves, Knows, Asking
      <3>5. Single' BY <3>2 DEF Single
      <3>6. \A j \in Controllers \ {k} : ~HoldsRealm(j)' BY <3>1, <3>3, OneHolder
      <3> QED BY <3>2, <3>4, <3>5, <3>6 DEF RowsInv
    <2> QED BY <2>2, <2>3
  <1>10. ASSUME NEW k \in Controllers, Run(k) PROVE RowsInv'
    <2>1. pass[k].step = "Run" /\ pass[k].cmd \in Commands BY <1>10, RunDoes
    <2>2. CASE Quits(k) /\ UNCHANGED rows BY <2>2, RowsQuit
    <2>3. CASE ~(Quits(k) /\ UNCHANGED rows)
      <3>1. /\ HoldsRealm(k) /\ Moves(k, "Connect") /\ UNCHANGED realm_lease
            /\ rows' = [rows EXCEPT ![pass[k].cmd] = "Running"]
        BY <1>10, <2>3, RunDoes
      <3>2. "Running" \in States \ {"Absent", "Succeeded", "Superseded"} BY DEF States
      <3>3. Unresolved = {pass[k].cmd} BY <2>1, <3>1 DEF RowsInv, Knows
      <3>4. Unresolved' = {pass[k].cmd} BY <2>1, <3>1, <3>2, <3>3, Rewritten
      <3>5. \A j \in Controllers : HoldsRealm(j)' <=> HoldsRealm(j) BY <3>1, RealmStays
      <3>6. Knows(k)' BY <3>1, <3>4 DEF Moves, Knows, Asking
      <3>7. \A j \in Controllers \ {k} : ~HoldsRealm(j)' BY <3>1, <3>5, OneHolder
      <3> QED BY <3>1, <3>2, <3>3, <3>6, <3>7, RowsWritten
    <2> QED BY <2>2, <2>3
  <1>11. ASSUME NEW k \in Controllers, Quits(k), HoldsRealm(k), pass[k].step \in Late,
                NEW s \in States \ {"Absent", "Superseded"}, rows' = [rows EXCEPT ![pass[k].cmd] = s]
         PROVE  RowsInv'
    <2>1. Unresolved = {pass[k].cmd} BY <1>11 DEF RowsInv, Knows, Late
    <2>2. \A j \in Controllers : ~HoldsRealm(j)' BY <1>11, OneHolder DEF Quits
    <2> QED BY <1>11, <2>1, <2>2, RowsWritten
  <1>12. ASSUME NEW k \in Controllers, ConnectFails(k) PROVE RowsInv'
    <2>1. Quits(k) BY <1>12, ConnectFailsDoes
    <2>2. CASE UNCHANGED rows BY <2>1, <2>2, RowsQuit
    <2>3. CASE ~UNCHANGED rows
      <3>1. /\ pass[k].step \in Late /\ HoldsRealm(k)
            /\ rows' = [rows EXCEPT ![pass[k].cmd] = "Retryable"]
        BY <1>12, <2>3, ConnectFailsDoes DEF CanSettle, Late
      <3> QED BY <1>11, <2>1, <3>1 DEF States
    <2> QED BY <2>2, <2>3
  <1>13. ASSUME NEW k \in Controllers, Record(k) PROVE RowsInv'
    <2>1. Quits(k) BY <1>13, RecordDoes
    <2>2. CASE UNCHANGED rows BY <2>1, <2>2, RowsQuit
    <2>3. CASE ~UNCHANGED rows
      <3> DEFINE s == IF pass[k].reply = "error" THEN "UnknownOutcome" ELSE Settled(pass[k].reply)
      <3>1. /\ pass[k].step \in Late /\ HoldsRealm(k)
            /\ rows' = [rows EXCEPT ![pass[k].cmd] = s]
        BY <1>13, <2>3, RecordDoes DEF CanSettle, Late
      <3>2. s \in States \ {"Absent", "Superseded"} BY DEF Settled, States
      <3> HIDE DEF s
      <3> QED BY <1>11, <2>1, <3>1, <3>2
    <2> QED BY <2>2, <2>3
  <1>14. ASSUME NEW k \in Controllers, ControllerCrash(k) PROVE RowsInv'
    BY <1>14, CrashQuits, RowsQuit
  <1>15. ASSUME NEW k \in Controllers, Quits(k), UNCHANGED rows PROVE RowsInv'
    BY <1>15, RowsQuit
  <1> QED BY StepKinds, <1>1, <1>2, <1>3, <1>4, <1>5, <1>6, <1>7, <1>8, <1>9, <1>10,
             <1>12, <1>13, <1>14, <1>15

-----------------------------------------------------------------------------
\* The agent's and the controllers' state so far.
Core == Typed /\ AP!NInv /\ RowsInv

\* Nobody holds a lease and there is no row.
LEMMA CoreInit == Init => Core
  <1> SUFFICES ASSUME Init PROVE Core
    OBVIOUS
  <1>1. Typed BY TypedInit
  <1>2. AP!NInv BY AgentKeeps DEF Init
  <1>3. \A k \in Controllers : ~HoldsRealm(k) BY DEF Init, HoldsRealm
  <1>4. Unresolved = {} BY DEF Init, Unresolved
  <1>5. Single /\ Chain BY <1>4 DEF Init, Single, Chain
  <1> QED BY <1>1, <1>2, <1>3, <1>5 DEF Core, RowsInv

\* It is kept by every step.
LEMMA CoreNext ==
  ASSUME Core, [Next]_vars
  PROVE  Core'
  <1>1. Typed /\ AP!NInv /\ RowsInv BY DEF Core
  <1>2. AP!NInv' BY <1>1, AgentSteps, AgentKeeps
  <1>3. Typed' BY <1>1, <1>2, TypedNext
  <1>4. RowsInv' BY <1>1, <1>2, RowsNext
  <1> QED BY <1>2, <1>3, <1>4 DEF Core

\* The types and the owners of a realm hold in every state.
LEMMA CoreAlways == Spec => []Core
  BY CoreInit, CoreNext, PTL DEF Spec

\* The rows, the leases, the passes and the agent they drive are well typed,
\* for any controllers, generations, tokens and faults.
THEOREM RealmTypeCorrect == Spec => []TypeOK
  <1>1. Core => TypeOK
    <2> SUFFICES ASSUME Core PROVE TypeOK
      OBVIOUS
    <2>1. A!TypeOK BY AgentKeeps DEF Core
    <2>2. \A i \in DOMAIN created : created[i] \in Commands BY DEF Core, Typed
    <2>3. \A k \in Controllers : /\ pass[k].step \in Steps
                                 /\ pass[k].cmd \in Commands \cup {NoCommand}
                                 /\ pass[k].token \in 0..MaxToken
      BY DEF Core, Typed, Passes
    <2> QED BY <2>1, <2>2, <2>3 DEF Core, Typed, TypeOK
  <1> QED BY <1>1, CoreAlways, PTL

\* FabricRealmReconciler leaves at most one command of a realm open, however
\* many controllers reconcile it, crash or lose their leases on the way.
THEOREM AtMostOneUnresolved == Spec => []OneUnresolved
  <1>1. Core => OneUnresolved
    <2> SUFFICES ASSUME Core PROVE OneUnresolved
      OBVIOUS
    <2>1. Single BY DEF Core, RowsInv
    <2>2. CASE Unresolved = {} BY <2>2, FS_EmptySet DEF OneUnresolved
    <2>3. CASE Unresolved # {}
      <3>1. PICK c \in Unresolved : TRUE BY <2>3
      <3>2. Unresolved = {c} BY <2>1, <3>1 DEF Single
      <3> QED BY <3>2, FS_Singleton DEF OneUnresolved
    <2> QED BY <2>2, <2>3
  <1> QED BY <1>1, CoreAlways, PTL

\* NetworkAgentDispatcher drives the agent by requests that the agent's own
\* specification allows: what is proved of the agent alone (NetworkAgentProofs)
\* holds of it under these controllers.
THEOREM ControllersDriveAgent == Spec => A!Spec
  <1>1. Init => A!Init BY DEF Init
  <1>2. Core /\ [Next]_vars => [A!Next]_(A!vars)
    <2> SUFFICES ASSUME Core, [Next]_vars PROVE [A!Next]_(A!vars)
      OBVIOUS
    <2>1. A!Next \/ UNCHANGED agent BY AgentSteps DEF Core
    <2>2. UNCHANGED agent => UNCHANGED A!vars BY DEF agent, A!vars
    <2> QED BY <2>1, <2>2
  <1> QED BY <1>1, <1>2, CoreAlways, PTL DEF Spec, A!Spec

-----------------------------------------------------------------------------
(***************************************************************************)
(* What a step does to the agent, as far as the controllers depend on it.   *)
(***************************************************************************)
\* Requests leave the queue for the lane, and the lane for good.
Lands ==
    /\ queued' \subseteq queued
    /\ \/ lane'.cmd = lane.cmd /\ lane'.token = lane.token
       \/ lane'.cmd = NoCommand /\ lane'.token = 0
       \/ <<lane'.cmd, lane'.token>> \in queued \ queued'

\* The fence is the token of the last admission.
FenceMoves ==
    \/ /\ fence' = fence
       /\ lane'.step \in {"Admitted", "Applying"} =>
             lane.step \in {"Admitted", "Applying"} /\ lane'.token = lane.token
    \/ /\ lane.step = "Checked" /\ lane'.cmd = lane.cmd /\ lane'.token = lane.token
       /\ fence' = lane.token /\ fence <= lane.token

\* The host changes by the command in the lane, which is of no older generation.
HostMoves ==
    \/ host' = host
    \/ /\ lane.step = "Applying" /\ lane.cmd \in Commands /\ host' = lane.cmd.ver
       /\ host[1] <= lane.cmd.ver[1]
       /\ fence' = fence /\ journal' = journal /\ not_found' = not_found

\* A command is journaled by its admission, and succeeds when the host holds
\* its plan.
JournalMoves ==
    \A c \in Commands :
        /\ journal[c] = "Absent" /\ journal'[c] # "Absent" => lane.step = "Checked" /\ lane.cmd = c
        /\ journal'[c] = "Succeeded" => journal[c] = "Succeeded" \/ (host = c.ver /\ host' = host)

AnswersStay == \A c \in Commands : not_found'[c] >= not_found[c]

Effects == FenceMoves /\ HostMoves /\ JournalMoves /\ AnswersStay

\* What the agent's invariant says of the lane, the queue and the histories.
LEMMA AgentFacts ==
  ASSUME AP!NInv
  PROVE  /\ queued \subseteq Commands \X A!Tokens
         /\ lane.cmd \in Commands \cup {NoCommand} /\ lane.token \in Nat
         /\ lane.step = "Free" <=> lane.cmd = NoCommand
         /\ lane.step = "Free" => lane.token = 0
         /\ lane = [cmd |-> lane.cmd, token |-> lane.token, step |-> lane.step]
         /\ lane.step = "Checked" => fence <= lane.token /\ not_found[lane.cmd] <= lane.token
         /\ lane.step = "Applied" => host = lane.cmd.ver
         /\ fence \in Nat /\ host \in Versions \cup {NoVersion}
         /\ host[1] \in Nat /\ host[2] \in Nat
         /\ not_found \in [Commands -> Nat]
         /\ journal \in [Commands -> A!Statuses]
         /\ ~up => queued = {} /\ lane.cmd = NoCommand /\ lane.token = 0
  <1>1. A!TypeOK BY AgentKeeps
  <1>2. AP!Free.cmd = NoCommand /\ AP!Free.token = 0 BY DEF AP!Free
  <1>3. /\ queued \subseteq Commands \X A!Tokens
        /\ lane.cmd \in Commands \cup {NoCommand} /\ lane.token \in Nat
        /\ lane = [cmd |-> lane.cmd, token |-> lane.token, step |-> lane.step]
        /\ fence \in Nat /\ not_found \in [Commands -> Nat] /\ journal \in [Commands -> A!Statuses]
    BY <1>1, BoundsAssumption DEF A!TypeOK, A!Requests
  <1>4. host \in Versions \cup {NoVersion} /\ host[1] \in Nat /\ host[2] \in Nat
    <2>1. \A c \in Commands : c.ver \in Versions BY DEF Commands
    <2>2. host \in Versions \cup {NoVersion} BY <1>1, <2>1 DEF A!TypeOK, A!Plans
    <2>3. \A v \in Versions : v[1] \in Nat /\ v[2] \in Nat
      BY BoundsAssumption DEF Versions, Generations
    <2> QED BY <2>2, <2>3 DEF NoVersion
  <1>5. /\ lane.step = "Free" <=> lane.cmd = NoCommand
        /\ lane.step = "Free" => lane.token = 0
        /\ ~up => queued = {} /\ lane.cmd = NoCommand /\ lane.token = 0
    BY <1>2 DEF AP!NInv, AP!Idle
  <1>6. lane.step = "Applied" => host = lane.cmd.ver
    <2>1. lane.step = "Applied" => lane.cmd \in Commands BY <1>3, <1>5
    <2> QED BY <2>1 DEF AP!NInv, AP!InLane
  <1>7. lane.step = "Checked" => fence <= lane.token /\ not_found[lane.cmd] <= lane.token
    BY DEF AP!NInv, AP!Fences
  <1> QED BY <1>3, <1>4, <1>5, <1>6, <1>7

\* Steps that leave the lane and its queue alone.
LEMMA AgentAside ==
  ASSUME AP!NInv, UNCHANGED <<journal, queued, lane, host, fence, not_found>>
  PROVE  Lands /\ Effects
  <1>1. not_found \in [Commands -> Nat] BY AgentFacts
  <1> QED BY <1>1 DEF Lands, Effects, FenceMoves, HostMoves, JournalMoves, AnswersStay

\* An observation of a journaled command.
LEMMA ReconcileMoves ==
  ASSUME AP!NInv, NEW c \in Commands, A!Journaled(c), A!reconcile(c, "ok"), host' = host
  PROVE  /\ JournalMoves
         /\ \A d \in Commands : journal'[d] = "Absent" <=> journal[d] = "Absent"
  <1>0. journal \in [Commands -> A!Statuses] BY AgentFacts
  <1>1. CASE journal' = journal BY <1>1 DEF JournalMoves
  <1>2. CASE journal' # journal
    <2>1. PICK s \in A!Observed(c) : journal' = [journal EXCEPT ![c] = s]
      BY <1>2 DEF A!reconcile, A!Written
    <2>2. s \in {"Unknown", "Succeeded"} /\ (s = "Succeeded" => host = c.ver)
      BY DEF A!Observed
    <2> QED BY <1>0, <2>1, <2>2 DEF A!Journaled, JournalMoves
  <1> QED BY <1>1, <1>2

\* The steps of a request in the lane.
LEMMA LaneMoves ==
  ASSUME AP!NInv, NEW c \in Commands,
         \/ \E t \in A!Tokens : A!take_lane(c, t)
         \/ A!admit_with_authority(c, "ok")
         \/ A!Refuse(c)
         \/ A!Replay(c, "ok")
         \/ A!MarkApplying(c, "ok")
         \/ A!Mutate(c)
         \/ A!Finish(c, "ok")
  PROVE  Lands /\ Effects
  <1>0. /\ journal \in [Commands -> A!Statuses] /\ not_found \in [Commands -> Nat]
        /\ lane.token \in Nat /\ fence \in Nat
        /\ lane = [cmd |-> lane.cmd, token |-> lane.token, step |-> lane.step]
        /\ lane.step = "Checked" => fence <= lane.token
        /\ lane.step = "Applied" => host = lane.cmd.ver
    BY AgentFacts
  <1>1. A!Free.cmd = NoCommand /\ A!Free.token = 0 /\ A!Free.step = "Free" BY DEF A!Free
  <1>2. ASSUME NEW t \in A!Tokens, A!take_lane(c, t) PROVE Lands /\ Effects
    <2>1. /\ <<c, t>> \in queued /\ queued' = queued \ {<<c, t>>}
          /\ lane' \in {A!Free, [cmd |-> c, token |-> t, step |-> "Checked"]}
          /\ UNCHANGED <<journal, host, fence, not_found>>
      BY <1>2 DEF A!take_lane, A!provider, A!history
    <2>2. Lands BY <1>1, <2>1 DEF Lands
    <2>3. FenceMoves BY <1>1, <2>1 DEF FenceMoves
    <2> QED BY <1>0, <2>1, <2>2, <2>3 DEF Effects, HostMoves, JournalMoves, AnswersStay
  <1>3. ASSUME A!admit_with_authority(c, "ok") PROVE Lands /\ Effects
    <2>1. /\ lane.cmd = c /\ lane.step = "Checked"
          /\ journal' = [journal EXCEPT ![c] = "Accepted"]
          /\ fence' = A!Max2(fence, lane.token)
          /\ lane' = [lane EXCEPT !.step = "Admitted"]
          /\ UNCHANGED <<queued, host, not_found>>
      BY <1>3 DEF A!admit_with_authority, A!At, A!Written, A!provider
    <2>2. fence' = lane.token BY <1>0, <2>1 DEF A!Max2
    <2>3. lane'.cmd = lane.cmd /\ lane'.token = lane.token BY <1>0, <2>1
    <2>4. JournalMoves BY <1>0, <2>1 DEF JournalMoves
    <2> QED BY <1>0, <2>1, <2>2, <2>3, <2>4 DEF Lands, Effects, FenceMoves, HostMoves, AnswersStay
  <1>4. ASSUME A!Refuse(c) PROVE Lands /\ Effects
    <2>1. lane' = A!Free /\ UNCHANGED <<queued, journal, host, fence, not_found>>
      BY <1>4 DEF A!Refuse, A!provider, A!history
    <2> QED BY <1>0, <1>1, <2>1 DEF Lands, Effects, FenceMoves, HostMoves, JournalMoves, AnswersStay
  <1>5. ASSUME A!Replay(c, "ok") PROVE Lands /\ Effects
    <2>1. /\ lane' = A!Free /\ A!Journaled(c) /\ A!reconcile(c, "ok")
          /\ UNCHANGED <<queued, host, fence, not_found>>
      BY <1>5 DEF A!Replay, A!provider, A!history
    <2>2. JournalMoves BY <2>1, ReconcileMoves
    <2> QED BY <1>0, <1>1, <2>1, <2>2 DEF Lands, Effects, FenceMoves, HostMoves, AnswersStay
  <1>6. ASSUME A!MarkApplying(c, "ok") PROVE Lands /\ Effects
    <2>1. /\ lane.cmd = c /\ lane.step = "Admitted"
          /\ journal' = [journal EXCEPT ![c] = "Applying"]
          /\ lane' = [lane EXCEPT !.step = "Applying"]
          /\ UNCHANGED <<queued, host, fence, not_found>>
      BY <1>6 DEF A!MarkApplying, A!At, A!Written, A!provider, A!history
    <2>2. lane'.cmd = lane.cmd /\ lane'.token = lane.token BY <1>0, <2>1
    <2>3. journal[c] # "Absent"
      BY <2>1 DEF AP!NInv, AP!InLane, AP!Journaled
    <2>4. JournalMoves BY <1>0, <2>1, <2>3 DEF JournalMoves
    <2> QED BY <1>0, <2>1, <2>2, <2>4 DEF Lands, Effects, FenceMoves, HostMoves, AnswersStay
  <1>7. ASSUME A!Mutate(c) PROVE Lands /\ Effects
    <2>1. /\ lane.cmd = c /\ lane.step = "Applying"
          /\ host' = host \/ (host' = c.ver /\ ~A!StalePlan(c))
          /\ \E s \in {"Applied", "Failed"} : lane' = [lane EXCEPT !.step = s]
          /\ UNCHANGED <<queued, journal, fence, not_found>>
      BY <1>7 DEF A!Mutate, A!At
    <2>2. /\ lane'.cmd = lane.cmd /\ lane'.token = lane.token
          /\ lane'.step \in {"Applied", "Failed"}
      BY <1>0, <2>1
    <2>3. ~A!StalePlan(c) => host[1] <= c.ver[1]
      <3>1. c.ver[1] \in Nat /\ host[1] \in Nat /\ host \in Versions \cup {NoVersion}
        BY AgentFacts, BoundsAssumption DEF Commands, Versions, Generations
      <3> QED BY <3>1 DEF A!StalePlan
    <2>4. HostMoves BY <2>1, <2>3 DEF HostMoves
    <2>5. JournalMoves BY <1>0, <2>1 DEF JournalMoves
    <2> QED BY <1>0, <2>1, <2>2, <2>4, <2>5 DEF Lands, Effects, FenceMoves, AnswersStay
  <1>8. ASSUME A!Finish(c, "ok") PROVE Lands /\ Effects
    <2>1. /\ lane.cmd = c /\ lane.step \in {"Applied", "Failed"} /\ lane' = A!Free
          /\ journal' = [journal EXCEPT ![c] = IF lane.step = "Applied" THEN "Succeeded" ELSE "Unknown"]
          /\ UNCHANGED <<queued, host, fence, not_found>>
      BY <1>8 DEF A!Finish, A!Written, A!provider, A!history
    <2>2. journal[c] # "Absent"
      BY <2>1 DEF AP!NInv, AP!InLane, AP!Journaled
    <2>3. JournalMoves BY <1>0, <2>1, <2>2 DEF JournalMoves
    <2> QED BY <1>0, <1>1, <2>1, <2>3 DEF Lands, Effects, FenceMoves, HostMoves, AnswersStay
  <1> QED BY <1>2, <1>3, <1>4, <1>5, <1>6, <1>7, <1>8

\* An answer to an observation, which finds the lane free.
LEMMA AnswerMoves ==
  ASSUME AP!NInv, NEW c \in Commands, NEW t \in A!Tokens, A!AnswerObserve(c, t, "ok")
  PROVE  /\ Lands /\ Effects
         /\ lane.cmd = NoCommand /\ lane' = lane /\ queued' = queued
         /\ journal[c] = "Absent" => journal' = journal /\ not_found'[c] >= t
         /\ journal'[c] = "Absent" <=> journal[c] = "Absent"
  <1>0. /\ journal \in [Commands -> A!Statuses] /\ not_found \in [Commands -> Nat]
        /\ t \in Nat
    BY AgentFacts, BoundsAssumption DEF A!Tokens
  <1>1. lane = A!Free /\ UNCHANGED <<queued, lane, host, fence>>
    BY DEF A!AnswerObserve, A!LaneForObserve, A!provider
  <1>2. lane.cmd = NoCommand BY <1>1 DEF A!Free
  <1>3. CASE A!Journaled(c)
    <2>1. A!reconcile(c, "ok") /\ not_found' = not_found BY <1>3 DEF A!AnswerObserve
    <2>2. /\ JournalMoves
          /\ \A d \in Commands : journal'[d] = "Absent" <=> journal[d] = "Absent"
      BY <1>1, <1>3, <2>1, ReconcileMoves
    <2> QED BY <1>0, <1>1, <1>2, <1>3, <2>1, <2>2
            DEF Lands, Effects, FenceMoves, HostMoves, AnswersStay, A!Journaled
  <1>4. CASE ~A!Journaled(c)
    <2>1. /\ not_found' = [not_found EXCEPT ![c] = A!Max2(not_found[c], t)] /\ journal' = journal
          /\ journal[c] = "Absent"
      BY <1>4 DEF A!AnswerObserve, A!Journaled
    <2>2. A!Max2(not_found[c], t) >= t /\ A!Max2(not_found[c], t) >= not_found[c]
      BY <1>0 DEF A!Max2
    <2>3. AnswersStay /\ not_found'[c] >= t BY <1>0, <2>1, <2>2 DEF AnswersStay
    <2>4. JournalMoves BY <2>1 DEF JournalMoves
    <2> QED BY <1>1, <1>2, <2>1, <2>3, <2>4 DEF Lands, Effects, FenceMoves, HostMoves
  <1> QED BY <1>3, <1>4

\* A crash empties the lane and the queue; a start observes what is pending.
LEMMA CrashMoves ==
  ASSUME AP!NInv, A!Crash \/ A!open(A!Pending)
  PROVE  Lands /\ Effects
  <1>0. journal \in [Commands -> A!Statuses] /\ not_found \in [Commands -> Nat] BY AgentFacts
  <1>1. CASE A!Crash
    <2>1. A!Free.cmd = NoCommand /\ A!Free.token = 0 /\ A!Free.step = "Free" BY DEF A!Free
    <2>2. queued' = {} /\ lane' = A!Free /\ UNCHANGED <<journal, host, fence, not_found>>
      BY <1>1 DEF A!Crash, A!provider, A!history
    <2> QED BY <1>0, <2>1, <2>2 DEF Lands, Effects, FenceMoves, HostMoves, JournalMoves, AnswersStay
  <1>2. CASE A!open(A!Pending)
    <2>1. UNCHANGED <<queued, lane, host, fence, not_found>> /\ A!reconcile_pending(A!Pending)
      BY <1>2 DEF A!open, A!provider, A!history
    <2>2. PICK seen \in [A!Pending -> {"Unknown", "Succeeded"}] :
            /\ \A c \in A!Pending : seen[c] \in A!Observed(c)
            /\ journal' = [c \in Commands |-> IF c \in A!Pending THEN seen[c] ELSE journal[c]]
      BY <2>1 DEF A!reconcile_pending
    <2>3. ASSUME NEW c \in Commands
          PROVE  /\ journal[c] = "Absent" => journal'[c] = "Absent"
                 /\ journal'[c] = "Succeeded" => journal[c] = "Succeeded" \/ host = c.ver
      <3>1. CASE c \in A!Pending
        <4>1. journal'[c] \in A!Observed(c) /\ journal[c] # "Absent" BY <2>2, <3>1 DEF A!Pending
        <4> QED BY <4>1 DEF A!Observed
      <3>2. CASE c \notin A!Pending BY <2>2, <3>2
      <3> QED BY <3>1, <3>2
    <2>4. JournalMoves BY <2>1, <2>3 DEF JournalMoves
    <2> QED BY <1>0, <2>1, <2>4 DEF Lands, Effects, FenceMoves, HostMoves, AnswersStay
  <1> QED BY <1>1, <1>2

\* A step that sends a command, and the others.
Launches(k) ==
    /\ pass[k].step = "Send" /\ Moves(k, "Await") /\ UNCHANGED <<rows, agent_lease, realm_lease>>
    /\ queued' = queued \cup {<<pass[k].cmd, pass[k].token>>}
    /\ lane' = lane

\* Every step is one the agent allows: an effect on the host, and an answer or a launch.
LEMMA AgentMoves ==
  ASSUME Core, [Next]_vars
  PROVE  Effects /\ (Lands \/ \E k \in Controllers : Launches(k))
  <1>0. AP!NInv /\ Typed BY DEF Core
  <1>1. ASSUME NEW k \in Controllers, execute(k) PROVE Effects /\ Launches(k)
    <2>1. /\ queued' = queued \cup {<<pass[k].cmd, pass[k].token>>}
          /\ UNCHANGED <<journal, lane, host, fence, not_found>>
          /\ UNCHANGED <<rows, agent_lease, realm_lease>> /\ pass[k].step = "Send"
      BY <1>1 DEF execute, At, A!execute, A!provider, A!history
    <2>2. not_found \in [Commands -> Nat] BY <1>0, AgentFacts
    <2>3. Moves(k, "Await") BY <1>0, <1>1, <2>1, StreamDoes
    <2> QED BY <2>1, <2>2, <2>3 DEF Launches, Effects, FenceMoves, HostMoves, JournalMoves, AnswersStay
  <1>2. ASSUME UNCHANGED agent \/ Tick \/ \E k \in Controllers : SendLease(k) \/ observe(k)
        PROVE  Lands /\ Effects
    <2>1. UNCHANGED <<journal, queued, lane, host, fence, not_found>>
      BY <1>2 DEF agent, Tick, SendLease, observe, A!Tick, A!accept_lease, A!observe, A!provider, A!history
    <2> QED BY <1>0, <2>1, AgentAside
  <1>3. ASSUME NEW c \in Met, AgentStep(c) PROVE Lands /\ Effects
    <2>1. c \in Commands BY DEF Met
    <2>2. \/ \E t \in A!Tokens : A!take_lane(c, t)
          \/ A!admit_with_authority(c, "ok") \/ A!Refuse(c) \/ A!Replay(c, "ok")
          \/ A!MarkApplying(c, "ok") \/ A!Mutate(c) \/ A!Finish(c, "ok")
          \/ \E t \in A!Tokens : A!AnswerObserve(c, t, "ok")
      BY <1>3 DEF AgentStep
    <2> QED BY <1>0, <2>1, <2>2, LaneMoves, AnswerMoves
  <1>4. ASSUME AgentCrash \/ AgentOpen PROVE Lands /\ Effects
    BY <1>0, <1>4, CrashMoves DEF AgentCrash, AgentOpen
  <1>5. ASSUME NEW k \in Controllers, PassStep(k)
        PROVE  execute(k) \/ UNCHANGED agent \/ SendLease(k) \/ observe(k)
    BY <1>5 DEF PassStep, AcquireRealm, ObserveNext, Settle, Derive, Persist, Run, connect,
        ObserveRunning, Refused, Record
  <1>6. ASSUME FaultStep PROVE UNCHANGED agent \/ Tick \/ AgentCrash
    BY <1>6 DEF FaultStep, ConnectFails, StreamBreaks, ControllerCrash
  <1>7. ASSUME UNCHANGED vars PROVE UNCHANGED agent BY <1>7 DEF vars
  <1>8. ASSUME \/ AdvanceGeneration \/ UpdateBinding \/ Expire
               \/ \E k \in Controllers, kind \in {"realm", "history"} : Request(k, kind)
        PROVE  UNCHANGED agent
    BY <1>8 DEF AdvanceGeneration, UpdateBinding, Request, Expire
  <1> QED BY <1>1, <1>2, <1>3, <1>4, <1>5, <1>6, <1>7, <1>8 DEF Next

\* An answer "not_found" of the agent (NetworkAgentService::observe) fences out the
\* controllers with smaller tokens, for any number of controllers that break off in
\* the middle of a dispatch.
THEOREM AnswersFenceControllers == Spec => NotFoundFences
  <1>1. ASSUME Core, [Next]_vars, NEW c \in Commands, journal[c] = "Absent", journal'[c] # "Absent"
        PROVE  lane.token >= not_found[c]
    <2>1. lane.step = "Checked" /\ lane.cmd = c BY <1>1, AgentMoves DEF Effects, JournalMoves
    <2>2. not_found[c] <= lane.token /\ lane.token \in Nat /\ not_found[c] \in Nat
      BY <1>1, <2>1, AgentFacts DEF Core
    <2> QED BY <2>2
  <1>2. Core /\ [Next]_vars =>
          [\A c \in Commands :
              journal[c] = "Absent" /\ journal'[c] # "Absent" => lane.token >= not_found[c]]_vars
    BY <1>1
  <1> QED BY <1>2, CoreAlways, PTL DEF Spec, NotFoundFences

-----------------------------------------------------------------------------
(***************************************************************************)
(* The agent's lease and its tokens.                                        *)
(***************************************************************************)
\* Pass k claims the agent's lease, to ask about a row or to dispatch a command.
Claims(k) ==
    /\ pass[k].step = "Observe" /\ Others(k)
    /\ HoldsRealm(k) /\ AgentLeaseFree(k) /\ ClaimAgent(k)
    /\ UNCHANGED <<rows, realm_lease, content, agent, reported, broken>>
    /\ pass' \in [Controllers -> Passes]
    /\ pass'[k].cmd \in Commands /\ pass'[k].token = NextToken
    /\ pass'[k].todo = pass[k].todo /\ pass'[k].absent = pass[k].absent
    /\ \/ pass'[k].step = "AskConnect" /\ pass'[k].cmd \in pass[k].todo
       \/ /\ pass'[k].step = "Persist" /\ pass'[k].cmd.ver[2] = content
          /\ pass[k].todo = {} /\ Unresolved \subseteq pass[k].absent

\* No pass does: who has a token had it.
Continues(k) ==
    /\ pass[k].step \in Claiming
    /\ pass'[k].cmd = pass[k].cmd /\ pass'[k].token = pass[k].token
    /\ agent_lease.owner = k => agent_lease'.owner = k
    /\ HoldsRealm(k)' => HoldsRealm(k)
    /\ pass'[k].step \in Sending => pass[k].step \in Sending
    /\ pass'[k].step \in {"Send", "Await"} => pass[k].step \in {"Lease", "Send", "Await"}

NoClaim ==
    /\ agent_lease'.token = agent_lease.token
    /\ agent_lease'.live => agent_lease.live
    /\ agent_lease'.owner \in {agent_lease.owner, Nobody}
    /\ \A k \in Controllers : pass'[k].step \in Claiming => Continues(k)

\* The end of a pass claims nothing.
LEMMA QuitsClaimNothing ==
  ASSUME Typed, NEW k \in Controllers, Quits(k), agent_lease'.token = agent_lease.token,
         agent_lease'.live => agent_lease.live, agent_lease'.owner \in {agent_lease.owner, Nobody},
         agent_lease.owner # k => agent_lease'.owner = agent_lease.owner
  PROVE  NoClaim
  <1>1. pass'[k].step \notin Claiming BY DEF Quits, Idle, Claiming, Asking, Sending
  <1>2. \A j \in Controllers \ {k} : pass'[j].step \in Claiming => Continues(j)
    BY DEF Quits, Others, Continues, Sending
  <1> QED BY <1>1, <1>2 DEF NoClaim

\* A pass that takes one step, with the leases as they are or closed.
LEMMA StepClaimsNothing ==
  ASSUME Typed, NEW k \in Controllers, Others(k), realm_lease' = realm_lease,
         \/ agent_lease' = agent_lease
         \/ CloseAgent,
         pass'[k].step \in Claiming =>
            /\ pass[k].step \in Claiming
            /\ pass'[k].cmd = pass[k].cmd /\ pass'[k].token = pass[k].token
            /\ pass'[k].step \in Sending => pass[k].step \in Sending
            /\ pass'[k].step \in {"Send", "Await"} => pass[k].step \in {"Lease", "Send", "Await"}
  PROVE  NoClaim
  <1>1. /\ agent_lease'.token = agent_lease.token /\ agent_lease'.owner = agent_lease.owner
        /\ agent_lease'.live => agent_lease.live
    BY DEF CloseAgent, Typed
  <1>2. \A j \in Controllers : HoldsRealm(j)' <=> HoldsRealm(j) BY RealmStays
  <1>3. \A j \in Controllers : pass'[j].step \in Claiming => Continues(j)
    BY <1>1, <1>2 DEF Others, Continues, Sending
  <1> QED BY <1>1, <1>3 DEF NoClaim

\* Each step claims the agent's lease or leaves the tokens alone.
LEMMA ClaimSteps ==
  ASSUME Core, [Next]_vars
  PROVE  NoClaim \/ \E k \in Controllers : Claims(k)
  <1>0. Typed /\ AP!NInv' BY CoreNext DEF Core
  <1>1. CASE Talks /\ UNCHANGED <<generation, content>>
    <2>1. \A k \in Controllers : HoldsRealm(k)' <=> HoldsRealm(k) BY <1>1, RealmStays DEF Talks
    <2>2. \A k \in Controllers : pass'[k].step \in Claiming => Continues(k)
      BY <1>1, <2>1 DEF Talks, Onward, Continues, Claiming, Asking, Sending
    <2> QED BY <1>1, <2>2 DEF Talks, NoClaim
  <1>2. CASE AdvanceGeneration \/ UpdateBinding
    <2>1. UNCHANGED <<agent_lease, pass, realm_lease>> BY <1>2 DEF AdvanceGeneration, UpdateBinding
    <2>2. \A k \in Controllers : HoldsRealm(k)' <=> HoldsRealm(k) BY <2>1, RealmStays
    <2> QED BY <2>1, <2>2 DEF NoClaim, Continues, Sending
  <1>3. CASE Expire
    <2>1. /\ UNCHANGED pass /\ agent_lease'.token = agent_lease.token
          /\ agent_lease'.owner = agent_lease.owner /\ (agent_lease'.live => agent_lease.live)
      BY <1>0, <1>3 DEF Expire, Typed
    <2>2. \A k \in Controllers : HoldsRealm(k)' => HoldsRealm(k)
      BY <1>0, <1>3 DEF Expire, HoldsRealm, Typed
    <2> QED BY <2>1, <2>2 DEF NoClaim, Continues, Sending
  <1>4. ASSUME NEW k \in Controllers, NEW kind \in {"realm", "history"}, Request(k, kind) PROVE NoClaim
    <2>1. Others(k) /\ pass'[k].step = "Start" /\ UNCHANGED <<agent_lease, realm_lease>>
      BY <1>0, <1>4, RequestDoes
    <2> QED BY <1>0, <2>1, StepClaimsNothing DEF Claiming, Asking, Sending
  <1>5. ASSUME NEW k \in Controllers, AcquireRealm(k) PROVE NoClaim
    <2>1. UNCHANGED agent_lease BY <1>0, <1>5, AcquireDoes
    <2>2. CASE Quits(k) BY <1>0, <2>1, <2>2, QuitsClaimNothing
    <2>3. CASE ~Quits(k)
      <3>1. /\ Others(k) /\ pass'[k].step = "Observe" /\ realm_lease' = [owner |-> k, live |-> TRUE]
        BY <1>0, <1>5, <2>3, AcquireDoes
      <3>2. pass'[k].step \notin Claiming BY <3>1 DEF Claiming, Asking, Sending
      <3>3. \A j \in Controllers \ {k} : ~HoldsRealm(j)' BY <3>1 DEF HoldsRealm
      <3>4. \A j \in Controllers : pass'[j].step \in Claiming => Continues(j)
        BY <2>1, <3>1, <3>2, <3>3 DEF Others, Continues, Sending
      <3> QED BY <2>1, <3>4 DEF NoClaim
    <2> QED BY <2>2, <2>3
  <1>6. ASSUME NEW k \in Controllers, NEW c \in pass[k].todo, ObserveNext(k, c)
        PROVE  NoClaim \/ Claims(k)
    <2>1. CASE Quits(k) /\ UNCHANGED agent_lease BY <1>0, <2>1, QuitsClaimNothing
    <2>2. CASE ~(Quits(k) /\ UNCHANGED agent_lease)
      BY <1>0, <1>6, <2>2, ObserveNextDoes DEF Claims, Aside
    <2> QED BY <2>1, <2>2
  <1>7. ASSUME NEW k \in Controllers, Derive(k) PROVE NoClaim \/ Claims(k)
    <2>1. CASE Quits(k) /\ UNCHANGED agent_lease BY <1>0, <2>1, QuitsClaimNothing
    <2>2. CASE ~(Quits(k) /\ UNCHANGED agent_lease)
      BY <1>0, <1>7, <2>2, DeriveDoes DEF Claims, Aside
    <2> QED BY <2>1, <2>2
  <1>8. ASSUME NEW k \in Controllers, Quits(k), UNCHANGED agent_lease \/ CloseAgent PROVE NoClaim
    <2>1. /\ agent_lease'.token = agent_lease.token /\ agent_lease'.owner = agent_lease.owner
          /\ agent_lease'.live => agent_lease.live
      BY <1>0, <1>8 DEF CloseAgent, Typed
    <2> QED BY <1>0, <1>8, <2>1, QuitsClaimNothing
  <1>9. ASSUME NEW k \in Controllers, Settle(k) PROVE NoClaim
    <2>1. /\ UNCHANGED agent_lease \/ CloseAgent
          /\ \/ Quits(k)
             \/ Others(k) /\ pass'[k].step = "Observe" /\ UNCHANGED realm_lease
      BY <1>0, <1>9, SettleDoes
    <2>2. CASE Quits(k) BY <1>8, <2>1, <2>2
    <2>3. CASE Others(k) /\ pass'[k].step = "Observe" /\ UNCHANGED realm_lease
      BY <1>0, <2>1, <2>3, StepClaimsNothing DEF Claiming, Asking, Sending
    <2> QED BY <2>1, <2>2, <2>3
  <1>10. ASSUME NEW k \in Controllers, Persist(k) PROVE NoClaim
    <2>1. /\ pass[k].step = "Persist" /\ UNCHANGED agent_lease
          /\ Quits(k) \/ (Moves(k, "Run") /\ UNCHANGED realm_lease)
      BY <1>0, <1>10, PersistDoes
    <2>2. CASE Quits(k) BY <1>8, <2>1, <2>2
    <2>3. CASE Moves(k, "Run") /\ UNCHANGED realm_lease
      BY <1>0, <2>1, <2>3, StepClaimsNothing DEF Moves, Claiming, Asking, Sending
    <2> QED BY <2>1, <2>2, <2>3
  <1>11. ASSUME NEW k \in Controllers, Run(k) PROVE NoClaim
    <2>1. /\ pass[k].step = "Run" /\ UNCHANGED agent_lease
          /\ Quits(k) \/ (Moves(k, "Connect") /\ UNCHANGED realm_lease)
      BY <1>0, <1>11, RunDoes
    <2>2. CASE Quits(k) BY <1>8, <2>1, <2>2
    <2>3. CASE Moves(k, "Connect") /\ UNCHANGED realm_lease
      BY <1>0, <2>1, <2>3, StepClaimsNothing DEF Moves, Claiming, Asking, Sending
    <2> QED BY <2>1, <2>2, <2>3
  <1>12. ASSUME NEW k \in Controllers, ConnectFails(k) \/ Record(k) PROVE NoClaim
    <2>1. Quits(k) /\ (UNCHANGED agent_lease \/ CloseAgent)
      BY <1>0, <1>12, ConnectFailsDoes, RecordDoes
    <2> QED BY <1>8, <2>1
  <1>13. ASSUME NEW k \in Controllers, ControllerCrash(k) PROVE NoClaim
    BY <1>0, <1>13, CrashQuits, QuitsClaimNothing
  <1> QED BY <1>0, StepKinds, <1>1, <1>2, <1>3, <1>4, <1>5, <1>6, <1>7, <1>8, <1>9, <1>10, <1>11,
             <1>12, <1>13

\* A token belongs to one pass, to the owner of the lease while it is the
\* lease's, and the pass that holds the realm's lease has the newest.
Owners ==
    \A k \in Controllers : pass[k].step \in Claiming =>
        /\ pass[k].token <= agent_lease.token
        /\ pass[k].token = agent_lease.token => agent_lease.owner = k
        /\ HoldsRealm(k) => pass[k].token = agent_lease.token
        /\ \A j \in Controllers \ {k} :
              pass[j].step \in Claiming => pass[j].token # pass[k].token

\* A token is used to send one command, once.
Flights ==
    /\ \A c \in Commands : \A t \in A!Tokens : Flying(c, t) => t <= agent_lease.token
    /\ \A k \in Controllers : pass[k].step \in Sending =>
          \A c \in Commands : ~Flying(c, pass[k].token)
    /\ \A q \in queued : lane.token # q[2]
    /\ \A q, r \in queued : q[2] = r[2] => q = r
    /\ lane.cmd \in Commands => lane.token \in A!Tokens

\* A command that was written to be sent and is not answered.
Open(c, t) ==
    \/ Flying(c, t)
    \/ \E k \in Controllers : /\ pass[k].step \in {"Connect", "Lease", "Send", "Await"}
                              /\ pass[k].cmd = c
                              /\ pass[k].token = t

\* While the lease of its token lives, its row is not resolved, and whoever
\* reconciles the realm has it to do.
Pinned ==
    \A c \in Commands : agent_lease.live /\ Open(c, agent_lease.token) =>
        /\ c \in Unresolved
        /\ \A k \in Controllers :
              HoldsRealm(k) /\ pass[k].step \in Asking \cup {"Observe"} => c \in pass[k].todo

\* The tokens stay apart.
LEMMA OwnersNext ==
  ASSUME Core, Owners, [Next]_vars
  PROVE  Owners'
  <1>0. Typed /\ Typed' BY CoreNext DEF Core
  <1>1. agent_lease.token \in Nat /\ agent_lease'.token \in Nat
    BY <1>0, BoundsAssumption DEF Typed
  <1>2. \A j \in Controllers : pass[j].token \in Nat /\ pass'[j].token \in Nat
    <2>1. ASSUME NEW j \in Controllers PROVE pass[j].token \in Nat /\ pass'[j].token \in Nat
      <3>1. pass[j] \in Passes /\ pass'[j] \in Passes BY <1>0 DEF Typed
      <3>2. pass[j].token \in 0..MaxToken /\ pass'[j].token \in 0..MaxToken BY <3>1 DEF Passes
      <3> QED BY <3>2
    <2> QED BY <2>1
  <1>3. CASE NoClaim BY <1>1, <1>2, <1>3 DEF NoClaim, Continues, Owners
  <1>4. ASSUME NEW k \in Controllers, Claims(k) PROVE Owners'
    <2>1. /\ agent_lease'.owner = k /\ agent_lease'.token = NextToken /\ NextToken \in Nat
          /\ \/ agent_lease.owner = k /\ NextToken = agent_lease.token
             \/ NextToken = agent_lease.token + 1
      BY <1>0, <1>1, <1>4, ClaimDoes DEF Claims
    <2>2. /\ pass'[k].token = NextToken /\ Others(k) /\ HoldsRealm(k)
          /\ \A j \in Controllers : HoldsRealm(j)' <=> HoldsRealm(j)
      BY <1>4, RealmStays DEF Claims
    <2>3. \A j \in Controllers \ {k} : ~HoldsRealm(j)' /\ pass'[j] = pass[j]
      BY <2>2, OneHolder DEF Others
    <2>4. \A j \in Controllers \ {k} : pass[j].step \in Claiming =>
             pass[j].token <= NextToken /\ pass[j].token # NextToken
      BY <1>1, <1>2, <2>1 DEF Owners
    <2> QED BY <1>2, <2>1, <2>2, <2>3, <2>4 DEF Owners
  <1> QED BY <1>3, <1>4, ClaimSteps

\* What is under way at the agent was sent to it.
LEMMA FlyingLands ==
  ASSUME Lands, NEW c \in Commands, NEW t, Flying(c, t)'
  PROVE  Flying(c, t)
  BY CommandAssumption DEF Lands, Flying

\* A request that lands leaves one place for another.
LEMMA LandsApart ==
  ASSUME AP!NInv, AP!NInv', Flights, Lands
  PROVE  /\ \A q \in queued' : lane'.token # q[2]
         /\ \A q, r \in queued' : q[2] = r[2] => q = r
         /\ lane'.cmd \in Commands => lane'.token \in A!Tokens
  <1>1. \A q \in queued : q[2] \in A!Tokens /\ q[2] # 0 /\ q = <<q[1], q[2]>>
    BY AgentFacts, BoundsAssumption DEF A!Tokens
  <1>2. CASE lane'.cmd = lane.cmd /\ lane'.token = lane.token BY <1>2 DEF Lands, Flights
  <1>3. CASE lane'.cmd = NoCommand /\ lane'.token = 0
    BY <1>1, <1>3, CommandAssumption DEF Lands, Flights
  <1>4. CASE <<lane'.cmd, lane'.token>> \in queued \ queued'
    BY <1>1, <1>4 DEF Lands, Flights
  <1> QED BY <1>2, <1>3, <1>4 DEF Lands

\* A token is used once.
LEMMA FlightsNext ==
  ASSUME Core, Owners, Flights, Pinned, [Next]_vars
  PROVE  Flights'
  <1>0. Typed /\ AP!NInv /\ AP!NInv' /\ RowsInv BY CoreNext DEF Core
  <1>1. agent_lease.token \in Nat /\ agent_lease'.token \in Nat
    <2>1. Typed' BY CoreNext DEF Core
    <2> QED BY <1>0, <2>1, BoundsAssumption DEF Typed
  <1>2. \A t \in A!Tokens : t \in Nat BY BoundsAssumption DEF A!Tokens
  <1>3. agent_lease.token <= agent_lease'.token
    <2>1. CASE NoClaim BY <1>1, <2>1 DEF NoClaim
    <2>2. ASSUME NEW k \in Controllers, Claims(k) PROVE agent_lease.token <= agent_lease'.token
      <3>1. AgentLeaseFree(k) /\ ClaimAgent(k) BY <2>2 DEF Claims
      <3>2. agent_lease'.token = agent_lease.token \/ agent_lease'.token = agent_lease.token + 1
        BY <1>0, <3>1, ClaimDoes
      <3> QED BY <1>1, <3>2
    <2> QED BY <2>1, <2>2, ClaimSteps
  <1>4. CASE Lands
    <2>1. \A c \in Commands : \A t \in A!Tokens : Flying(c, t)' => t <= agent_lease'.token
      BY <1>1, <1>2, <1>3, <1>4, FlyingLands DEF Flights
    <2>2. ASSUME NEW k \in Controllers, pass'[k].step \in Sending, NEW c \in Commands,
                 Flying(c, pass[k].token)'
          PROVE  FALSE
      <3> DEFINE t == pass'[k].token
      <3>1. Flying(c, t)
        <4>1. <<c, t>> \in queued' \/ (lane'.cmd = c /\ lane'.token = t) BY <2>2 DEF Flying
        <4> QED BY <1>4, <4>1, CommandAssumption DEF Lands, Flying
      <3>2. CASE NoClaim
        <4>1. pass'[k].step \in Claiming BY <2>2 DEF Claiming
        <4>2. t = pass[k].token /\ pass[k].step \in Sending
          BY <2>2, <3>2, <4>1 DEF NoClaim, Continues
        <4> QED BY <3>1, <4>2 DEF Flights
      <3>3. ASSUME NEW j \in Controllers, Claims(j), j # k PROVE FALSE
        BY <2>2, <3>1, <3>3 DEF Claims, Others, Flights
      <3>4. CASE Claims(k)
        <4>1. /\ pass'[k].step = "Persist" /\ pass'[k].token = NextToken
              /\ pass[k].todo = {} /\ HoldsRealm(k) /\ pass[k].step = "Observe"
          BY <2>2, <3>4 DEF Claims, Sending
        <4>2. /\ NextToken \in A!Tokens
              /\ \/ agent_lease.live /\ NextToken = agent_lease.token
                 \/ NextToken = agent_lease.token + 1
          <5>1. AgentLeaseFree(k) /\ ClaimAgent(k) BY <3>4 DEF Claims
          <5>2. NextToken \in 0..MaxToken /\ NextToken # 0
            BY <1>0, <5>1, ClaimDoes
          <5>3. NextToken \in A!Tokens BY <5>2, BoundsAssumption DEF A!Tokens
          <5> QED BY <1>0, <5>1, <5>3, ClaimDoes
        <4>3. Flying(c, NextToken) /\ NextToken <= agent_lease.token
          BY <3>1, <4>1, <4>2 DEF Flights
        <4>4. agent_lease.live /\ NextToken = agent_lease.token BY <1>1, <4>2, <4>3
        <4>5. c \in pass[k].todo BY <4>1, <4>3, <4>4 DEF Pinned, Open
        <4> QED BY <4>1, <4>5
      <3> QED BY <3>2, <3>3, <3>4, ClaimSteps
    <2>3. /\ \A q \in queued' : lane'.token # q[2]
          /\ \A q, r \in queued' : q[2] = r[2] => q = r
          /\ lane'.cmd \in Commands => lane'.token \in A!Tokens
      BY <1>0, <1>4, LandsApart
    <2> QED BY <2>1, <2>2, <2>3 DEF Flights
  <1>5. ASSUME NEW k \in Controllers, Launches(k) PROVE Flights'
    <2> DEFINE c == pass[k].cmd
               t == pass[k].token
    <2>1. /\ pass[k].step = "Send" /\ pass'[k].step = "Await" /\ Others(k)
          /\ queued' = queued \cup {<<c, t>>} /\ lane' = lane /\ agent_lease' = agent_lease
      BY <1>5 DEF Launches, Moves
    <2>2. c \in Commands /\ t \in A!Tokens /\ t \in Nat
      BY <1>0, <2>1, ClaimingTyped DEF Claiming, Sending
    <2>3. t <= agent_lease.token BY <2>1 DEF Owners, Claiming, Sending
    <2>4. \A d \in Commands : ~Flying(d, t) BY <2>1 DEF Flights, Sending
    <2>5. queued \subseteq Commands \X A!Tokens /\ (lane.cmd = NoCommand => lane.token = 0)
          /\ lane.cmd \in Commands \cup {NoCommand}
      BY <1>0, AgentFacts
    <2> HIDE DEF c, t
    <2>6. \A d \in Commands : \A s : Flying(d, s)' => Flying(d, s) \/ (d = c /\ s = t)
      BY <2>1 DEF Flying
    <2>7. \A d \in Commands : \A s \in A!Tokens : Flying(d, s)' => s <= agent_lease'.token
      BY <2>1, <2>3, <2>6 DEF Flights
    <2>8. ASSUME NEW j \in Controllers, pass'[j].step \in Sending, NEW d \in Commands
          PROVE  ~Flying(d, pass[j].token)'
      <3>1. j # k /\ pass'[j] = pass[j] BY <2>1, <2>8 DEF Others, Sending
      <3>2. pass[j].token # t
        BY <2>1, <2>8, <3>1 DEF Owners, Claiming, Sending, t
      <3>3. ~Flying(d, pass[j].token) BY <2>8, <3>1 DEF Flights
      <3>4. ~(<<d, pass[j].token>> \in queued') /\ ~(lane.cmd = d /\ lane.token = pass[j].token)
        BY <2>1, <3>2, <3>3 DEF Flying
      <3> QED BY <2>1, <3>1, <3>4 DEF Flying
    <2>9. \A q \in queued : q[2] # t
      <3>1. ASSUME NEW q \in queued, q[2] = t PROVE FALSE
        <4>1. q[1] \in Commands /\ q = <<q[1], t>> BY <2>5, <3>1
        <4> QED BY <2>4, <4>1 DEF Flying
      <3> QED BY <3>1
    <2>10. lane.token # t
      <3>1. CASE lane.cmd = NoCommand BY <2>2, <2>5, <3>1 DEF A!Tokens
      <3>2. CASE lane.cmd \in Commands BY <2>4, <3>2 DEF Flying
      <3> QED BY <2>5, <3>1, <3>2
    <2>11. /\ \A q \in queued' : lane'.token # q[2]
           /\ \A q, r \in queued' : q[2] = r[2] => q = r
      BY <2>1, <2>9, <2>10 DEF Flights
    <2> QED BY <2>1, <2>7, <2>8, <2>11 DEF Flights
  <1> QED BY <1>4, <1>5, AgentMoves

\* A pass that has a command to send keeps it until it is answered.
Dispatching == {"Connect", "Lease", "Send", "Await"}
Dispatches(k) ==
    pass'[k].step \in Dispatching =>
        /\ pass'[k].cmd = pass[k].cmd /\ pass'[k].token = pass[k].token
        /\ pass[k].step \in Dispatching \cup {"Run"}

\* A pass that reconciles the realm has something to do or has done it.
Reviews(k) == HoldsRealm(k) /\ pass[k].step \in Asking \cup {"Observe"}

\* Only the write of its row gives a pass a command to send.
LEMMA DispatchSteps ==
  ASSUME Core, [Next]_vars, NEW k \in Controllers
  PROVE  Dispatches(k) /\ (pass[k].step = "Run" /\ pass'[k].step \in Dispatching => Run(k))
  <1>0. Typed /\ AP!NInv' BY CoreNext DEF Core
  <1>1. CASE Talks BY <1>1 DEF Talks, Onward, Dispatches, Dispatching
  <1>2. CASE AdvanceGeneration \/ UpdateBinding \/ Expire
    BY <1>2 DEF AdvanceGeneration, UpdateBinding, Expire, Dispatches, Dispatching
  <1>3. ASSUME NEW j \in Controllers, Quits(j)
        PROVE  Dispatches(k) /\ (pass[k].step = "Run" => pass'[k].step \notin Dispatching)
    <2>1. CASE j = k BY <1>3, <2>1 DEF Quits, Idle, Dispatches, Dispatching
    <2>2. CASE j # k BY <1>3, <2>2 DEF Quits, Others, Dispatches, Dispatching
    <2> QED BY <2>1, <2>2
  <1>4. ASSUME NEW j \in Controllers, Others(j), pass'[j].step \notin Dispatching
        PROVE Dispatches(k) /\ (pass[k].step = "Run" => pass'[k].step \notin Dispatching)
    <2>1. CASE j = k BY <1>4, <2>1 DEF Dispatches
    <2>2. CASE j # k BY <1>4, <2>2 DEF Others, Dispatches, Dispatching
    <2> QED BY <2>1, <2>2
  <1>5. ASSUME NEW j \in Controllers, \E kind \in {"realm", "history"} : Request(j, kind)
        PROVE Dispatches(k) /\ (pass[k].step = "Run" => pass'[k].step \notin Dispatching)
    BY <1>0, <1>4, <1>5, RequestDoes DEF Dispatching
  <1>6. ASSUME NEW j \in Controllers, AcquireRealm(j)
        PROVE Dispatches(k) /\ (pass[k].step = "Run" => pass'[k].step \notin Dispatching)
    BY <1>0, <1>3, <1>4, <1>6, AcquireDoes DEF Dispatching
  <1>7. ASSUME NEW j \in Controllers, \E c \in pass[j].todo : ObserveNext(j, c)
        PROVE Dispatches(k) /\ (pass[k].step = "Run" => pass'[k].step \notin Dispatching)
    BY <1>0, <1>3, <1>4, <1>7, ObserveNextDoes DEF Dispatching
  <1>8. ASSUME NEW j \in Controllers, Settle(j)
        PROVE Dispatches(k) /\ (pass[k].step = "Run" => pass'[k].step \notin Dispatching)
    BY <1>0, <1>3, <1>4, <1>8, SettleDoes DEF Dispatching
  <1>9. ASSUME NEW j \in Controllers, Derive(j)
        PROVE Dispatches(k) /\ (pass[k].step = "Run" => pass'[k].step \notin Dispatching)
    BY <1>0, <1>3, <1>4, <1>9, DeriveDoes DEF Dispatching
  <1>10. ASSUME NEW j \in Controllers, Persist(j)
         PROVE Dispatches(k) /\ (pass[k].step = "Run" => pass'[k].step \notin Dispatching)
    BY <1>0, <1>3, <1>4, <1>10, PersistDoes DEF Dispatching, Moves
  <1>11. ASSUME NEW j \in Controllers, Run(j)
         PROVE Dispatches(k) /\ (pass[k].step = "Run" /\ pass'[k].step \in Dispatching => Run(k))
    <2>1. CASE Quits(j) BY <1>3, <2>1
    <2>2. CASE Moves(j, "Connect") /\ pass[j].step = "Run"
      <3>1. CASE j = k BY <1>11, <2>2, <3>1 DEF Moves, Dispatches
      <3>2. CASE j # k BY <2>2, <3>2 DEF Moves, Others, Dispatches, Dispatching
      <3> QED BY <3>1, <3>2
    <2> QED BY <1>0, <1>11, <2>1, <2>2, RunDoes
  <1>12. ASSUME NEW j \in Controllers, ConnectFails(j) \/ Record(j)
         PROVE Dispatches(k) /\ (pass[k].step = "Run" => pass'[k].step \notin Dispatching)
    BY <1>0, <1>3, <1>12, ConnectFailsDoes, RecordDoes
  <1>13. ASSUME NEW j \in Controllers, ControllerCrash(j)
         PROVE Dispatches(k) /\ (pass[k].step = "Run" => pass'[k].step \notin Dispatching)
    BY <1>0, <1>3, <1>13, CrashQuits
  <1> QED BY <1>0, StepKinds, <1>1, <1>2, <1>3, <1>5, <1>6, <1>7, <1>8, <1>9, <1>10, <1>11, <1>12,
             <1>13

\* What is open was open, or its row has just been written.
LEMMA OpenMoves ==
  ASSUME Core, [Next]_vars, NEW c \in Commands, NEW t, t = agent_lease'.token,
         Open(c, agent_lease.token)'
  PROVE  \/ Open(c, t)
         \/ \E k \in Controllers : Run(k) /\ pass'[k].step \in Dispatching /\ pass[k].cmd = c
                                   /\ pass[k].token = t
  <1>0. \/ <<c, t>> \in queued' \/ (lane'.cmd = c /\ lane'.token = t)
        \/ \E k \in Controllers : /\ pass'[k].step \in Dispatching
                                  /\ pass'[k].cmd = c
                                  /\ pass'[k].token = t
    BY DEF Open, Flying, Dispatching
  <1>1. ASSUME NEW k \in Controllers, pass'[k].step \in Dispatching, pass'[k].cmd = c, pass'[k].token = t
        PROVE  \/ Open(c, t)
               \/ Run(k) /\ pass'[k].step \in Dispatching /\ pass[k].cmd = c /\ pass[k].token = t
    BY <1>1, DispatchSteps DEF Dispatches, Open, Dispatching
  <1>2. ASSUME <<c, t>> \in queued' \/ (lane'.cmd = c /\ lane'.token = t)
        PROVE  Open(c, t)
    <2>1. CASE Lands BY <1>2, <2>1, CommandAssumption DEF Lands, Open, Flying
    <2>2. ASSUME NEW k \in Controllers, Launches(k) PROVE Open(c, t)
      BY <1>2, <2>2 DEF Launches, Open, Flying
    <2> QED BY <2>1, <2>2, AgentMoves
  <1> QED BY <1>0, <1>1, <1>2

\* No command is open under the token of the pass that writes the row.
LEMMA NothingOpen ==
  ASSUME Owners, Flights, NEW k \in Controllers, HoldsRealm(k), pass[k].step \in {"Persist", "Run"},
         NEW c \in Commands
  PROVE  ~Open(c, agent_lease.token)
  <1>1. pass[k].token = agent_lease.token /\ pass[k].step \in Claiming
    BY DEF Owners, Claiming, Sending
  <1>2. ~Flying(c, agent_lease.token) BY <1>1 DEF Flights, Sending
  <1>3. ASSUME NEW j \in Controllers, pass[j].step \in {"Connect", "Lease", "Send", "Await"},
               pass[j].token = agent_lease.token
        PROVE  FALSE
    <2>1. j # k /\ pass[j].step \in Claiming BY <1>3 DEF Claiming, Sending
    <2> QED BY <1>1, <1>3, <2>1 DEF Owners
  <1> QED BY <1>2, <1>3 DEF Open

\* What leaves the open commands to be done leaves Pinned.
LEMMA PinnedKept ==
  ASSUME Core, Pinned, [Next]_vars, agent_lease'.token = agent_lease.token,
         agent_lease'.live => agent_lease.live,
         \A k \in Controllers : ~(Run(k) /\ pass'[k].step \in Dispatching),
         agent_lease'.live => \A c \in Unresolved : Open(c, agent_lease.token) => c \in Unresolved',
         \A k \in Controllers : agent_lease'.live /\ Reviews(k)' =>
            \/ Reviews(k) /\ pass[k].todo \subseteq pass'[k].todo
            \/ Unresolved' \subseteq pass'[k].todo
  PROVE  Pinned'
  <1> SUFFICES ASSUME NEW c \in Commands, agent_lease'.live, Open(c, agent_lease.token)'
               PROVE  /\ c \in Unresolved'
                      /\ \A k \in Controllers : Reviews(k)' => c \in pass'[k].todo
    BY DEF Pinned, Reviews
  <1> DEFINE t == agent_lease'.token
  <1>1. Open(c, t)
    <2>1. t = agent_lease'.token OBVIOUS
    <2> HIDE DEF t
    <2> QED BY <2>1, OpenMoves
  <1>2. Open(c, agent_lease.token) /\ agent_lease.live BY <1>1
  <1>3. c \in Unresolved' BY <1>2 DEF Pinned
  <1>4. ASSUME NEW k \in Controllers, Reviews(k)' PROVE c \in pass'[k].todo
    <2>1. CASE Reviews(k) /\ pass[k].todo \subseteq pass'[k].todo BY <1>2, <2>1 DEF Pinned, Reviews
    <2>2. CASE Unresolved' \subseteq pass'[k].todo BY <1>3, <2>2
    <2> QED BY <1>4, <2>1, <2>2
  <1> QED BY <1>3, <1>4

\* A lease that was just taken has nothing open that its owner does not know.
LEMMA PinnedClaims ==
  ASSUME Core, Owners, Flights, Pinned, [Next]_vars, NEW k \in Controllers, Claims(k)
  PROVE  Pinned'
  <1>0. Typed BY DEF Core
  <1>1. /\ UNCHANGED <<rows, realm_lease>> /\ Others(k) /\ HoldsRealm(k)
        /\ AgentLeaseFree(k) /\ ClaimAgent(k) /\ pass'[k].todo = pass[k].todo
        /\ pass[k].step = "Observe" /\ pass'[k].step \in {"AskConnect", "Persist"}
    BY DEF Claims
  <1>2. \A j \in Controllers : ~(Run(j) /\ pass'[j].step \in Dispatching)
    BY <1>1 DEF Run, At, Others, Dispatching
  <1>3. \A j \in Controllers : HoldsRealm(j)' <=> j = k BY <1>1, RealmStays, OneHolder
  <1>4. \A j \in Controllers : Reviews(j)' => Reviews(j) /\ pass[j].todo \subseteq pass'[j].todo
    BY <1>1, <1>3 DEF Reviews
  <1>5. Unresolved' = Unresolved BY <1>1 DEF Unresolved
  <1>6. CASE NextToken = agent_lease.token /\ agent_lease.live
    <2>1. agent_lease'.token = agent_lease.token BY <1>0, <1>1, <1>6, ClaimDoes
    <2> QED BY <1>2, <1>4, <1>5, <1>6, <2>1, PinnedKept
  <1>7. CASE NextToken = agent_lease.token + 1
    <2>1. agent_lease'.token = agent_lease.token + 1 /\ agent_lease.token \in Nat
          /\ NextToken \in A!Tokens
      <3>1. agent_lease.token \in Nat BY <1>0, BoundsAssumption DEF Typed
      <3>2. NextToken \in 0..MaxToken /\ NextToken # 0 /\ agent_lease'.token = NextToken
        BY <1>0, <1>1, ClaimDoes
      <3>3. NextToken \in A!Tokens BY <3>2, BoundsAssumption DEF A!Tokens
      <3> QED BY <1>7, <3>1, <3>2, <3>3
    <2>2. ASSUME NEW c \in Commands, Open(c, agent_lease.token)' PROVE FALSE
      <3> DEFINE t == agent_lease'.token
      <3>1. t = agent_lease'.token OBVIOUS
      <3>2. t \in A!Tokens /\ t > agent_lease.token /\ agent_lease.token \in Nat BY <1>7, <2>1
      <3> HIDE DEF t
      <3>3. Open(c, t) BY <1>2, <2>2, <3>1, OpenMoves
      <3>4. ~Flying(c, t) BY <2>1, <3>2, BoundsAssumption DEF Flights, A!Tokens
      <3>5. PICK j \in Controllers : pass[j].step \in {"Connect", "Lease", "Send", "Await"} /\ pass[j].token = t
        BY <3>3, <3>4 DEF Open
      <3>6. t <= agent_lease.token BY <3>5 DEF Owners, Claiming, Sending
      <3> QED BY <3>2, <3>6, BoundsAssumption DEF A!Tokens
    <2> QED BY <2>2 DEF Pinned
  <1> QED BY <1>0, <1>1, <1>6, <1>7, ClaimDoes

\* Nothing that is open is lost sight of.
LEMMA PinnedNext ==
  ASSUME Core, Owners, Flights, Pinned, [Next]_vars
  PROVE  Pinned'
  <1>0. Typed /\ AP!NInv' /\ RowsInv BY CoreNext DEF Core
  <1>1. ASSUME NEW k \in Controllers, Claims(k) PROVE Pinned' BY <1>1, PinnedClaims
  <1>2. CASE NoClaim
    <2>0. /\ agent_lease'.token = agent_lease.token
          /\ agent_lease'.live => agent_lease.live
      BY <1>2 DEF NoClaim
    <2>1. ASSUME UNCHANGED rows, \A k \in Controllers : ~(Run(k) /\ pass'[k].step \in Dispatching),
                 \A k \in Controllers : Reviews(k)' =>
                      \/ Reviews(k) /\ pass[k].todo \subseteq pass'[k].todo
                      \/ Unresolved' \subseteq pass'[k].todo
          PROVE  Pinned'
      <3>1. Unresolved' = Unresolved BY <2>1 DEF Unresolved
      <3> QED BY <2>0, <2>1, <3>1, PinnedKept
    <2>2. ASSUME NEW k \in Controllers, Quits(k) \/ (Others(k) /\ UNCHANGED realm_lease)
          PROVE  \A j \in Controllers \ {k} : Reviews(j)' => Reviews(j) /\ pass[j].todo \subseteq pass'[j].todo
      BY <2>2, RealmStays DEF Quits, Others, Reviews
    <2>3. ASSUME NEW k \in Controllers, Quits(k)
          PROVE  /\ \A j \in Controllers : Reviews(j)' => Reviews(j) /\ pass[j].todo \subseteq pass'[j].todo
                 /\ \A j \in Controllers : ~(Run(j) /\ pass'[j].step \in Dispatching)
      <3>1. ~Reviews(k)' BY <2>3 DEF Quits, Reviews
      <3>2. ASSUME NEW j \in Controllers, Run(j), pass'[j].step \in Dispatching PROVE FALSE
        BY <2>3, <3>2 DEF Run, At, Quits, Others, Dispatching, Idle
      <3> QED BY <2>2, <2>3, <3>1, <3>2
    <2>4. CASE Talks
      <3>1. ASSUME NEW k \in Controllers, Run(k) PROVE pass'[k].step \notin Dispatching
        BY <2>4, <3>1 DEF Talks, Onward, Run, At, Dispatching
      <3>2. ASSUME NEW k \in Controllers, Reviews(k)'
            PROVE  Reviews(k) /\ pass[k].todo \subseteq pass'[k].todo
        BY <2>4, <3>2 DEF Talks, Onward, Reviews, HoldsRealm, Asking
      <3> QED BY <2>1, <2>4, <3>1, <3>2 DEF Talks
    <2>5. CASE AdvanceGeneration \/ UpdateBinding \/ Expire
      <3>1. UNCHANGED <<rows, pass>> /\ \A k \in Controllers : HoldsRealm(k)' => HoldsRealm(k)
        BY <1>0, <2>5 DEF AdvanceGeneration, UpdateBinding, Expire, HoldsRealm, Typed
      <3>2. ASSUME NEW k \in Controllers, Run(k) PROVE pass'[k].step \notin Dispatching
        BY <3>1, <3>2 DEF Run, At, Dispatching
      <3> QED BY <2>1, <3>1, <3>2 DEF Reviews
    <2>6. ASSUME NEW k \in Controllers, Quits(k), UNCHANGED rows PROVE Pinned'
      BY <2>1, <2>3, <2>6
    <2>7. ASSUME NEW k \in Controllers, \E kind \in {"realm", "history"} : Request(k, kind)
          PROVE  Pinned'
      <3>1. /\ pass[k].step = "Idle" /\ pass'[k].step = "Start" /\ Others(k) /\ UNCHANGED <<rows, realm_lease>>
        BY <1>0, <2>7, RequestDoes
      <3>2. \A j \in Controllers : ~(Run(j) /\ pass'[j].step \in Dispatching)
        BY <3>1 DEF Run, At, Others, Dispatching
      <3>3. ~Reviews(k)' BY <3>1 DEF Reviews, Asking
      <3> QED BY <2>1, <2>2, <3>1, <3>2, <3>3
    <2>8. ASSUME NEW k \in Controllers, AcquireRealm(k) PROVE Pinned'
      <3>1. UNCHANGED <<rows, agent_lease>> /\ pass[k].step = "Start" BY <1>0, <2>8, AcquireDoes
      <3>2. CASE Quits(k) BY <2>6, <3>1, <3>2
      <3>3. CASE ~Quits(k)
        <4>1. /\ Others(k) /\ pass'[k].step = "Observe" /\ pass'[k].todo = Unresolved
              /\ realm_lease' = [owner |-> k, live |-> TRUE]
          BY <1>0, <2>8, <3>3, AcquireDoes
        <4>2. \A j \in Controllers : ~(Run(j) /\ pass'[j].step \in Dispatching)
          BY <3>1, <4>1 DEF Run, At, Others, Dispatching
        <4>3. \A j \in Controllers \ {k} : ~Reviews(j)' BY <4>1 DEF Reviews, HoldsRealm
        <4>4. Unresolved' \subseteq pass'[k].todo BY <3>1, <4>1 DEF Unresolved
        <4> QED BY <2>1, <3>1, <4>2, <4>3, <4>4
      <3> QED BY <3>2, <3>3
    <2>9. ASSUME CloseAgent PROVE Pinned'
      <3>1. ~agent_lease'.live BY <1>0, <2>9 DEF CloseAgent, Typed
      <3> QED BY <3>1 DEF Pinned
    <2>10. ASSUME NEW k \in Controllers, Settle(k) PROVE Pinned'
      BY <1>0, <2>6, <2>9, <2>10, SettleDoes
    <2>11. ASSUME NEW k \in Controllers, Derive(k) \/ \E c \in pass[k].todo : ObserveNext(k, c)
           PROVE  Pinned'
      <3>1. CASE Quits(k) BY <1>0, <2>6, <2>11, <3>1, DeriveDoes, ObserveNextDoes
      <3>2. CASE ~Quits(k)
        <4>1. pass'[k].step \in {"Persist", "AskConnect"} /\ pass[k].step = "Observe"
          BY <1>0, <2>11, <3>2, DeriveDoes, ObserveNextDoes
        <4>2. pass'[k].step \in Claiming /\ pass[k].step \notin Claiming
          BY <4>1 DEF Claiming, Sending, Asking
        <4> QED BY <1>2, <4>2 DEF NoClaim, Continues
      <3> QED BY <3>1, <3>2
    <2>12. ASSUME NEW k \in Controllers, Persist(k) PROVE Pinned'
      <3>1. CASE Quits(k)
        <4>1. pass'[k].step = "Idle" BY <3>1 DEF Quits, Idle
        <4>2. UNCHANGED rows BY <1>0, <2>12, <4>1, PersistDoes DEF Moves
        <4> QED BY <2>6, <3>1, <4>2
      <3>2. CASE ~Quits(k)
        <4>1. /\ HoldsRealm(k) /\ Moves(k, "Run") /\ pass[k].step = "Persist"
              /\ UNCHANGED <<realm_lease, agent_lease>>
          BY <1>0, <2>12, <3>2, PersistDoes
        <4>2. \A c \in Commands : ~Open(c, agent_lease.token) BY <4>1, NothingOpen
        <4>3. \A c \in Unresolved : c \in Commands BY DEF Unresolved
        <4>4. ~Reviews(k)' BY <4>1 DEF Moves, Reviews, Asking
        <4>5. \A j \in Controllers : ~(Run(j) /\ pass'[j].step \in Dispatching)
          BY <4>1 DEF Run, At, Others, Moves, Dispatching
        <4>6. \A j \in Controllers \ {k} : Reviews(j)' => Reviews(j) /\ pass[j].todo \subseteq pass'[j].todo
          BY <2>2, <4>1 DEF Moves
        <4> QED BY <2>0, <4>2, <4>3, <4>4, <4>5, <4>6, PinnedKept
      <3> QED BY <3>1, <3>2
    <2>13. ASSUME NEW k \in Controllers, Run(k) PROVE Pinned'
      <3>1. CASE Quits(k)
        <4>1. pass'[k].step = "Idle" BY <3>1 DEF Quits, Idle
        <4>2. UNCHANGED rows BY <1>0, <2>13, <4>1, RunDoes DEF Moves
        <4> QED BY <2>6, <3>1, <4>2
      <3>2. CASE ~Quits(k)
        <4>1. /\ HoldsRealm(k) /\ Moves(k, "Connect") /\ UNCHANGED <<realm_lease, agent_lease>>
              /\ rows' = [rows EXCEPT ![pass[k].cmd] = "Running"] /\ pass[k].step = "Run"
              /\ pass[k].cmd \in Commands
          BY <1>0, <2>13, <3>2, RunDoes
        <4>2. \A j \in Controllers : ~Reviews(j)'
          BY <4>1, RealmStays, OneHolder DEF Moves, Reviews, Asking
        <4>3. ASSUME NEW c \in Commands, Open(c, agent_lease.token)' PROVE c \in Unresolved'
          <5> DEFINE t == agent_lease'.token
          <5>1. t = agent_lease'.token /\ t = agent_lease.token BY <4>1
          <5> HIDE DEF t
          <5>2. ~Open(c, t) BY <4>1, <5>1, NothingOpen
          <5>3. PICK j \in Controllers : Run(j) /\ pass'[j].step \in Dispatching /\ pass[j].cmd = c
            BY <4>3, <5>1, <5>2, OpenMoves
          <5>4. j = k BY <4>1, <5>3 DEF Moves, Others, Run, At, Dispatching
          <5>5. pass[k].cmd = c BY <5>3, <5>4
          <5>6. Unresolved' = Unresolved \cup {pass[k].cmd} BY <1>0, <4>1, Rewritten DEF States
          <5> QED BY <5>5, <5>6
        <4> QED BY <4>2, <4>3 DEF Pinned, Reviews
      <3> QED BY <3>1, <3>2
    <2>14. ASSUME NEW k \in Controllers, ConnectFails(k) \/ Record(k) PROVE Pinned'
      <3>1. Quits(k) /\ (UNCHANGED agent_lease \/ CloseAgent) /\ pass[k].cmd \in Commands
        BY <1>0, <2>14, ConnectFailsDoes, RecordDoes
      <3>2. CASE UNCHANGED rows BY <2>6, <3>1, <3>2
      <3>3. CASE ~UNCHANGED rows /\ ~CloseAgent
        <4>1. rows' = [rows EXCEPT ![pass[k].cmd] = "Retryable"]
              \/ rows' = [rows EXCEPT ![pass[k].cmd] = "UnknownOutcome"]
          BY <1>0, <2>14, <3>3, ConnectFailsDoes, RecordDoes
        <4>2. Unresolved' = Unresolved \cup {pass[k].cmd}
          BY <1>0, <3>1, <4>1, Rewritten DEF States
        <4> QED BY <2>0, <2>3, <3>1, <4>2, PinnedKept
      <3> QED BY <2>9, <3>2, <3>3
    <2>15. ASSUME NEW k \in Controllers, ControllerCrash(k) PROVE Pinned'
      <3>1. Quits(k) /\ UNCHANGED rows BY <1>0, <2>15, CrashQuits
      <3> QED BY <2>6, <3>1
    <2> QED BY <1>0, StepKinds, <2>4, <2>5, <2>6, <2>7, <2>8, <2>10, <2>11, <2>12, <2>13, <2>14, <2>15
  <1> QED BY <1>1, <1>2, ClaimSteps

-----------------------------------------------------------------------------
(***************************************************************************)
(* The order of the plans.  Tokens order the commands under way as the      *)
(* content of their plans does, and the agent's fence passes them in that   *)
(* order.                                                                   *)
(***************************************************************************)
\* A command under way, from its derivation to the agent's answer.
Sent(c, t) ==
    \/ Flying(c, t)
    \/ \E k \in Controllers : /\ pass[k].step \in Sending \cup {"Await"}
                              /\ pass[k].cmd = c
                              /\ pass[k].token = t

Ordered ==
    /\ \A c, d \in Commands : \A s, t \in A!Tokens :
          Sent(c, s) /\ Sent(d, t) /\ s <= t => c.ver[2] <= d.ver[2]
    /\ \A c \in Commands : \A t \in A!Tokens : Sent(c, t) =>
          c.ver[2] <= content /\ (t >= fence => host[2] <= c.ver[2])
    /\ host[2] <= content
    /\ lane.step \in {"Admitted", "Applying"} => fence = lane.token

Sequenced == Core /\ Owners /\ Flights /\ Pinned

\* The invariants about tokens hold at first and are kept together.
LEMMA SequencedInit == Init => Sequenced
  <1> SUFFICES ASSUME Init PROVE Sequenced OBVIOUS
  <1>1. Core BY CoreInit
  <1>2. \A k \in Controllers : pass[k].step = "Idle" BY DEF Init, Idle
  <1>3. queued = {} /\ lane.cmd = NoCommand /\ ~agent_lease.live
    BY DEF Init, A!Init, A!Free
  <1>4. \A c \in Commands : \A t : ~Flying(c, t) BY <1>3, CommandAssumption DEF Flying
  <1>5. Owners BY <1>2 DEF Owners, Claiming, Asking, Sending
  <1>6. Flights BY <1>2, <1>3, <1>4, CommandAssumption DEF Flights, Sending
  <1>7. Pinned BY <1>3 DEF Pinned
  <1> QED BY <1>1, <1>5, <1>6, <1>7 DEF Sequenced

\* Every step keeps the commands of a realm in sequence.
LEMMA SequencedNext ==
  ASSUME Sequenced, [Next]_vars
  PROVE  Sequenced'
  BY CoreNext, OwnersNext, FlightsNext, PinnedNext DEF Sequenced

\* Numbers that the order is about.
LEMMA Numbers ==
  ASSUME Core
  PROVE  /\ \A c \in Commands : c.ver[1] \in Nat /\ c.ver[2] \in Nat
         /\ \A t \in A!Tokens : t \in Nat
         /\ content \in Nat /\ fence \in Nat /\ agent_lease.token \in Nat
         /\ host[1] \in Nat /\ host[2] \in Nat
         /\ \A k \in Controllers : pass[k].token \in Nat
  <1>0. Typed /\ AP!NInv BY DEF Core
  <1>1. \A c \in Commands : c.ver[1] \in Nat /\ c.ver[2] \in Nat
    <2>1. ASSUME NEW c \in Commands PROVE c.ver[1] \in Nat /\ c.ver[2] \in Nat
      <3>1. c.ver \in Generations \X Generations BY DEF Commands, Versions
      <3>2. c.ver[1] \in Generations /\ c.ver[2] \in Generations BY <3>1
      <3> QED BY <3>2, BoundsAssumption DEF Generations
    <2> QED BY <2>1
  <1>2. \A t \in A!Tokens : t \in Nat BY BoundsAssumption DEF A!Tokens
  <1>3. content \in Nat BY <1>0, BoundsAssumption DEF Typed, Generations
  <1>4. agent_lease.token \in Nat BY <1>0, BoundsAssumption DEF Typed
  <1>5. ASSUME NEW k \in Controllers PROVE pass[k].token \in Nat
    <2>1. pass[k] \in Passes BY <1>0 DEF Typed
    <2>2. pass[k].token \in 0..MaxToken BY <2>1 DEF Passes
    <2> QED BY <2>2
  <1> QED BY <1>0, <1>1, <1>2, <1>3, <1>4, <1>5, AgentFacts

\* The endpoints only change forward.
LEMMA ContentGrows ==
  ASSUME Core, [Next]_vars
  PROVE  content <= content'
  <1>0. Typed /\ AP!NInv' /\ content \in Nat BY CoreNext, Numbers DEF Core
  <1>1. CASE UpdateBinding
    BY <1>0, <1>1, BoundsAssumption DEF UpdateBinding, Typed, Generations
  <1>2. CASE UNCHANGED content BY <1>0, <1>2
  <1>3. UpdateBinding \/ UNCHANGED content
    <2>1. ASSUME NEW k \in Controllers, \E kind \in {"realm", "history"} : Request(k, kind)
          PROVE  UNCHANGED content
      BY <2>1 DEF Request
    <2>2. ASSUME NEW k \in Controllers, \E c \in pass[k].todo : ObserveNext(k, c)
          PROVE  UNCHANGED content
      BY <2>2 DEF ObserveNext
    <2> QED BY <1>0, <2>1, <2>2, StepKinds
          DEF AdvanceGeneration, Expire, AcquireRealm, Settle, Derive, Persist, Run, Aside,
              ConnectFails, Record, ControllerCrash
  <1> QED BY <1>1, <1>2, <1>3

\* A command is under way from the derivation on.
LEMMA SentMoves ==
  ASSUME Core, [Next]_vars, NEW c \in Commands, NEW t, Sent(c, t)'
  PROVE  \/ Sent(c, t)
         \/ \E k \in Controllers : Claims(k) /\ pass'[k].step = "Persist"
                                   /\ pass'[k].cmd = c /\ pass'[k].token = t
  <1>1. CASE Flying(c, t)'
    <2>1. CASE Lands BY <1>1, <2>1, FlyingLands DEF Sent
    <2>2. ASSUME NEW k \in Controllers, Launches(k) PROVE Sent(c, t)
      BY <1>1, <2>2 DEF Launches, Flying, Sent, Sending
    <2> QED BY <2>1, <2>2, AgentMoves
  <1>2. ASSUME NEW k \in Controllers, pass'[k].step \in Sending \cup {"Await"},
               pass'[k].cmd = c, pass'[k].token = t
        PROVE  Sent(c, t) \/ (Claims(k) /\ pass'[k].step = "Persist")
    <2>1. CASE NoClaim
      <3>1. pass'[k].step \in Claiming BY <1>2 DEF Claiming
      <3>2. /\ pass[k].cmd = c /\ pass[k].token = t
            /\ pass[k].step \in Sending \/ pass[k].step \in {"Lease", "Send", "Await"}
        BY <1>2, <2>1, <3>1 DEF NoClaim, Continues
      <3> QED BY <3>2 DEF Sent, Sending
    <2>2. ASSUME NEW j \in Controllers, Claims(j), j # k PROVE Sent(c, t)
      BY <1>2, <2>2 DEF Claims, Others, Sent
    <2>3. CASE Claims(k) BY <1>2, <2>3 DEF Claims, Sending
    <2> QED BY <2>1, <2>2, <2>3, ClaimSteps
  <1> QED BY <1>1, <1>2 DEF Sent

\* Tokens under way were handed out; the next one to send with is not among them.
LEMMA SentBefore ==
  ASSUME Sequenced, NEW c \in Commands, NEW t \in A!Tokens, Sent(c, t)
  PROVE  /\ t <= agent_lease.token
         /\ \A k \in Controllers : Claims(k) /\ pass'[k].step = "Persist" => t < NextToken
  <1>0. Core /\ Typed BY DEF Sequenced, Core
  <1>1. t \in Nat /\ agent_lease.token \in Nat BY <1>0, Numbers
  <1>2. t <= agent_lease.token
    BY DEF Sequenced, Sent, Flights, Owners, Claiming
  <1>3. ASSUME NEW k \in Controllers, Claims(k), pass'[k].step = "Persist" PROVE t < NextToken
    <2>1. /\ AgentLeaseFree(k) /\ ClaimAgent(k) /\ HoldsRealm(k)
          /\ pass[k].step = "Observe" /\ pass[k].todo = {}
      BY <1>3 DEF Claims
    <2>2. CASE NextToken = agent_lease.token + 1 BY <1>1, <1>2, <2>2
    <2>3. CASE agent_lease.live /\ agent_lease.owner = k /\ NextToken = agent_lease.token
      <3>1. t # agent_lease.token
        <4>1. ~Flying(c, agent_lease.token) BY <2>1, <2>3 DEF Sequenced, Pinned, Open
        <4>2. ASSUME NEW j \in Controllers, pass[j].step \in Sending \cup {"Await"},
                     pass[j].token = agent_lease.token
              PROVE  FALSE
          <5>1. j = k BY <2>3, <4>2 DEF Sequenced, Owners, Claiming
          <5> QED BY <2>1, <4>2, <5>1 DEF Sending
        <4> QED BY <4>1, <4>2 DEF Sent
      <3> QED BY <1>1, <1>2, <2>3, <3>1
    <2> QED BY <1>0, <2>1, <2>2, <2>3, ClaimDoes
  <1> QED BY <1>2, <1>3

\* The same for a step's end.
LEMMA Counted == Core => content \in Nat /\ fence \in Nat /\ host[1] \in Nat /\ host[2] \in Nat
  BY Numbers

\* At first nothing is under way.
LEMMA OrderedInit == Init => Ordered
  <1> SUFFICES ASSUME Init PROVE Ordered OBVIOUS
  <1>1. \A k \in Controllers : pass[k].step = "Idle" BY DEF Init, Idle
  <1>2. queued = {} /\ lane.cmd = NoCommand /\ lane.step = "Free" /\ host[2] = 0 /\ content = 1
    BY DEF Init, A!Init, A!Free, NoVersion
  <1>3. \A c \in Commands : \A t : ~Sent(c, t)
    BY <1>1, <1>2, CommandAssumption DEF Sent, Flying, Sending
  <1> QED BY <1>2, <1>3 DEF Ordered

\* The plan that the agent applies is newer than what the host holds, and no
\* newer than any command that can still be admitted.
LEMMA AppliesForward ==
  ASSUME Sequenced, Ordered, lane.step = "Applying", lane.cmd \in Commands
  PROVE  /\ host[2] <= lane.cmd.ver[2] /\ lane.cmd.ver[2] <= content
         /\ \A c \in Commands : \A t \in A!Tokens :
               Sent(c, t) /\ t >= fence => lane.cmd.ver[2] <= c.ver[2]
  <1>0. Core /\ lane.token \in A!Tokens BY DEF Sequenced, Flights
  <1>1. Sent(lane.cmd, lane.token) BY DEF Sent, Flying
  <1>2. fence = lane.token /\ lane.token \in Nat BY <1>0, Numbers DEF Ordered
  <1>3. host[2] <= lane.cmd.ver[2] /\ lane.cmd.ver[2] <= content
    BY <1>0, <1>1, <1>2 DEF Ordered
  <1>4. ASSUME NEW c \in Commands, NEW t \in A!Tokens, Sent(c, t), t >= fence
        PROVE  lane.cmd.ver[2] <= c.ver[2]
    <2>1. lane.token <= t BY <1>0, <1>2, <1>4, Numbers
    <2> QED BY <1>0, <1>1, <1>4, <2>1 DEF Ordered
  <1> QED BY <1>3, <1>4

\* The order of the commands under way is kept.
LEMMA OrderedNext ==
  ASSUME Sequenced, Ordered, [Next]_vars
  PROVE  Ordered'
  <1>0. Core /\ Core' /\ Effects BY SequencedNext, AgentMoves DEF Sequenced
  <1>1. /\ \A c \in Commands : c.ver[2] \in Nat
        /\ \A t \in A!Tokens : t \in Nat
        /\ content \in Nat /\ fence \in Nat /\ host[2] \in Nat
    BY <1>0, Numbers
  <1>2. content' \in Nat /\ fence' \in Nat /\ host'[2] \in Nat
    <2>1. (Core => content \in Nat /\ fence \in Nat /\ host[1] \in Nat /\ host[2] \in Nat)'
      BY Counted, PTL
    <2> QED BY <1>0, <2>1
  <1>3. content <= content' BY <1>0, ContentGrows
  <1>4. fence <= fence'
    BY <1>0, <1>1 DEF Effects, FenceMoves
  <1>5. host'[2] <= content'
    <2>1. CASE host' = host BY <1>1, <1>2, <1>3, <2>1 DEF Ordered
    <2>2. CASE host' # host
      <3>1. lane.step = "Applying" /\ lane.cmd \in Commands /\ host' = lane.cmd.ver
        BY <1>0, <2>2 DEF Effects, HostMoves
      <3>2. host[2] <= lane.cmd.ver[2] /\ lane.cmd.ver[2] <= content BY <3>1, AppliesForward
      <3> QED BY <1>1, <1>2, <1>3, <3>1, <3>2
    <2> QED BY <2>1, <2>2
  <1>6. ASSUME NEW c \in Commands, NEW t \in A!Tokens, Sent(c, t)
        PROVE  c.ver[2] <= content' /\ (t >= fence' => host'[2] <= c.ver[2])
    <2>1. c.ver[2] <= content' BY <1>1, <1>2, <1>3, <1>6 DEF Ordered
    <2>2. ASSUME t >= fence' PROVE host'[2] <= c.ver[2]
      <3>1. t >= fence BY <1>1, <1>2, <1>4, <2>2
      <3>2. CASE host' = host BY <1>6, <3>1, <3>2 DEF Ordered
      <3>3. CASE host' # host
        <4>1. lane.step = "Applying" /\ lane.cmd \in Commands /\ host' = lane.cmd.ver
          BY <1>0, <3>3 DEF Effects, HostMoves
        <4> QED BY <1>6, <3>1, <4>1, AppliesForward
      <3> QED BY <3>2, <3>3
    <2> QED BY <2>1, <2>2
  <1>7. ASSUME NEW k \in Controllers, Claims(k), pass'[k].step = "Persist"
        PROVE  /\ pass'[k].cmd.ver[2] = content /\ content' = content /\ host' = host
               /\ pass'[k].token = NextToken
    BY <1>7 DEF Claims, agent
  <1>8. \A c \in Commands : \A t \in A!Tokens : Sent(c, t)' =>
          c.ver[2] <= content' /\ (t >= fence' => host'[2] <= c.ver[2])
    <2> SUFFICES ASSUME NEW c \in Commands, NEW t \in A!Tokens, Sent(c, t)'
                 PROVE  c.ver[2] <= content' /\ (t >= fence' => host'[2] <= c.ver[2])
      OBVIOUS
    <2>1. CASE Sent(c, t) BY <1>6, <2>1
    <2>2. ASSUME NEW k \in Controllers, Claims(k), pass'[k].step = "Persist", pass'[k].cmd = c
          PROVE  c.ver[2] <= content' /\ (t >= fence' => host'[2] <= c.ver[2])
      <3>1. c.ver[2] = content /\ content' = content /\ host' = host BY <1>7, <2>2
      <3> QED BY <1>1, <3>1 DEF Ordered
    <2> QED BY <1>0, <2>1, <2>2, SentMoves
  <1>9. \A c, d \in Commands : \A s, t \in A!Tokens :
          Sent(c, s)' /\ Sent(d, t)' /\ s <= t => c.ver[2] <= d.ver[2]
    <2> SUFFICES ASSUME NEW c \in Commands, NEW d \in Commands, NEW s \in A!Tokens,
                        NEW t \in A!Tokens, Sent(c, s)', Sent(d, t)', s <= t
                 PROVE  c.ver[2] <= d.ver[2]
      OBVIOUS
    <2>1. CASE Sent(c, s) /\ Sent(d, t) BY <2>1 DEF Ordered
    <2>2. ASSUME NEW k \in Controllers, Claims(k), pass'[k].step = "Persist", pass'[k].cmd = d
          PROVE  c.ver[2] <= d.ver[2]
      <3>1. d.ver[2] = content /\ content' = content BY <1>7, <2>2
      <3>2. c.ver[2] <= content' BY <1>8
      <3> QED BY <3>1, <3>2
    <2>3. ASSUME NEW k \in Controllers, Claims(k), pass'[k].step = "Persist", pass'[k].cmd = c,
                 pass'[k].token = s, Sent(d, t)
          PROVE  c.ver[2] <= d.ver[2]
      <3>1. s = NextToken BY <1>7, <2>3
      <3>2. t < s BY <2>3, <3>1, SentBefore
      <3> QED BY <1>1, <3>2
    <2> QED BY <1>0, <2>1, <2>2, <2>3, SentMoves
  <1>10. lane'.step \in {"Admitted", "Applying"} => fence' = lane'.token
    BY <1>0 DEF Effects, FenceMoves, Ordered
  <1> QED BY <1>5, <1>8, <1>9, <1>10 DEF Ordered

\* The order of commands and plans holds in every state.
LEMMA OrderedAlways == Spec => [](Sequenced /\ Ordered)
  <1>1. Init => Sequenced /\ Ordered BY SequencedInit, OrderedInit
  <1>2. Sequenced /\ Ordered /\ [Next]_vars => (Sequenced /\ Ordered)'
    BY SequencedNext, OrderedNext
  <1> QED BY <1>1, <1>2, PTL DEF Spec

\* What the host comes to hold is of no older generation, which the host sees to
\* itself, and of no older content, which the tokens see to.
LEMMA HostForward ==
  ASSUME Sequenced, Ordered, [Next]_vars
  PROVE  /\ NotOlder(host, host')
         /\ host[1] \in Nat /\ host[2] \in Nat /\ host'[1] \in Nat /\ host'[2] \in Nat
  <1>0. Core /\ Effects BY AgentMoves DEF Sequenced
  <1>1. /\ host[1] \in Nat /\ host[2] \in Nat
        /\ \A c \in Commands : c.ver[1] \in Nat /\ c.ver[2] \in Nat
    BY <1>0, Numbers
  <1>2. CASE host' = host BY <1>1, <1>2 DEF NotOlder
  <1>3. CASE host' # host
    <2>1. /\ lane.step = "Applying" /\ lane.cmd \in Commands /\ host' = lane.cmd.ver
          /\ host[1] <= lane.cmd.ver[1]
      BY <1>0, <1>3 DEF Effects, HostMoves
    <2>2. host[2] <= lane.cmd.ver[2] BY <2>1, AppliesForward
    <2> QED BY <1>1, <2>1, <2>2 DEF NotOlder
  <1> QED BY <1>2, <1>3

\* The host never goes back to an older plan, by its generation or by the content
\* of its endpoints, whatever leases lapse, streams break and processes crash: the
\* host refuses an older generation, the agent applies a command only under the
\* newest token it admitted, and tokens order the commands as their content.
THEOREM PlansNeverGoBack == Spec => PlansAdvance
  <1>1. Sequenced /\ Ordered /\ [Next]_vars => [NotOlder(host, host')]_vars
    BY HostForward
  <1> QED BY <1>1, OrderedAlways, PTL DEF Spec, PlansAdvance

-----------------------------------------------------------------------------
(***************************************************************************)
(* The agent's answers, and what is recorded and reported from them.        *)
(***************************************************************************)
\* The agent answers the pass that it does not know its command.
Missed(k) ==
    /\ pass[k].step = "Watch" /\ pass[k].cmd \in Commands
    /\ journal[pass[k].cmd] = "Absent" /\ journal' = journal
    /\ lane.cmd = NoCommand /\ UNCHANGED <<lane, queued, rows, realm_lease, agent_lease>>
    /\ not_found'[pass[k].cmd] >= pass[k].token

\* A reply is an error, comes from the journal, or says that nothing is there.
Replied(k) ==
    pass'[k].step \in {"Answered", "Record"} =>
        /\ pass'[k].cmd = pass[k].cmd /\ pass'[k].token = pass[k].token
        /\ \/ pass'[k].step = pass[k].step /\ pass'[k].reply = pass[k].reply
           \/ pass'[k].reply \in {"error", "running"}
           \/ pass'[k].reply = journal'[pass[k].cmd] /\ pass'[k].reply # "not_found"
           \/ pass'[k].reply = "not_found" /\ Missed(k)

\* A pass waits until the agent is done with its command, the stream breaks or
\* the controller is gone.
Awaits(k) ==
    pass[k].step = "Await" =>
        \/ pass'[k] = pass[k]
        \/ broken'
        \/ agent_lease'.owner # k
        \/ /\ <<pass[k].cmd, pass[k].token>> \notin queued'
           /\ ~(lane'.cmd = pass[k].cmd /\ lane'.token = pass[k].token)

\* Steps that are about no answer.
Calm(k) ==
    \/ pass'[k] = pass[k]
    \/ pass[k].step # "Await" /\ pass'[k].step \notin {"Answered", "Record"}

\* A step that leaves a controller and its agent alone keeps what it awaits.
LEMMA CalmSteps ==
  ASSUME NEW k \in Controllers, Calm(k)
  PROVE  Replied(k) /\ Awaits(k)
  BY DEF Calm, Replied, Awaits

\* A step of pass j leaves pass k as it is, for every other k.
LEMMA CalmOthers ==
  ASSUME NEW j \in Controllers, Others(j), pass[j].step # "Await",
         pass'[j].step \notin {"Answered", "Record"}, NEW k \in Controllers
  PROVE  Calm(k)
  BY DEF Others, Calm

\* What the agent says about a command reaches who waits for it.
LEMMA AgentReplies ==
  ASSUME Core, Core', Flights, NEW c \in Met, AgentStep(c), NEW k \in Controllers
  PROVE  Replied(k) /\ Awaits(k)
  <1>0. c \in Commands /\ Typed /\ AP!NInv /\ AP!NInv' BY DEF Met, Core
  <1>1. journal'[c] \in Replies /\ journal'[c] # "not_found"
    <2>1. A!TypeOK' BY <1>0, AgentKeeps, PTL
    <2>2. journal'[c] \in A!Statuses BY <1>0, <2>1 DEF A!TypeOK
    <2> QED BY <2>2 DEF Replies, A!Statuses
  <1>2. "error" \in Replies /\ "not_found" \in Replies BY DEF Replies
  <1>3. A!Free.cmd = NoCommand /\ A!Free.token = 0 /\ NoCommand # c
    BY <1>0, CommandAssumption DEF A!Free
  <1>4. CASE UNCHANGED pass BY <1>4, CalmSteps DEF Calm
  <1>5. ASSUME NEW t, NEW r \in Replies, Deliver("Await", c, t, r),
               r = "error" \/ (r = journal'[c] /\ r # "not_found"),
               <<c, t>> \notin queued', ~(lane'.cmd = c /\ lane'.token = t)
        PROVE  Replied(k) /\ Awaits(k)
    <2>1. IF pass[k].step = "Await" /\ pass[k].cmd = c /\ pass[k].token = t
          THEN Onward(k) /\ pass'[k].reply = r /\ pass'[k].step = "Record"
          ELSE pass'[k] = pass[k]
      BY <1>0, <1>5, DeliverDoes
    <2>2. CASE pass'[k] = pass[k] BY <2>2, CalmSteps DEF Calm
    <2>3. CASE pass'[k] # pass[k] BY <1>5, <2>1, <2>3 DEF Onward, Replied, Awaits
    <2> QED BY <2>2, <2>3
  <1>6. ASSUME NEW t, NEW r \in Replies, Deliver("Watch", c, t, r),
               \/ r = journal'[c] /\ r # "not_found"
               \/ /\ r = "not_found" /\ journal[c] = "Absent" /\ journal' = journal
                  /\ lane.cmd = NoCommand /\ UNCHANGED <<lane, queued, rows, realm_lease, agent_lease>>
                  /\ not_found'[c] >= t
        PROVE  Replied(k) /\ Awaits(k)
    <2>1. IF pass[k].step = "Watch" /\ pass[k].cmd = c /\ pass[k].token = t
          THEN Onward(k) /\ pass'[k].reply = r /\ pass'[k].step = "Answered"
          ELSE pass'[k] = pass[k]
      BY <1>0, <1>6, DeliverDoes
    <2>2. CASE pass'[k] = pass[k] BY <2>2, CalmSteps DEF Calm
    <2>3. CASE pass'[k] # pass[k]
      BY <1>0, <1>6, <2>1, <2>3 DEF Onward, Replied, Awaits, Missed
    <2> QED BY <2>2, <2>3
  <1>7. ASSUME NEW t \in A!Tokens, A!take_lane(c, t), ~A!current_authority(t),
               Deliver("Await", c, t, "error")
        PROVE  Replied(k) /\ Awaits(k)
    <2>1. <<c, t>> \notin queued' /\ lane'.cmd # c BY <1>3, <1>7 DEF A!take_lane
    <2> QED BY <1>2, <1>5, <1>7, <2>1
  <1>8. ASSUME A!Refuse(c) \/ A!Replay(c, "ok") \/ A!Finish(c, "ok")
        PROVE  <<c, lane.token>> \notin queued' /\ ~(lane'.cmd = c /\ lane'.token = lane.token)
    <2>1. queued' = queued /\ lane'.cmd # c
      BY <1>3, <1>8 DEF A!Refuse, A!Replay, A!Finish
    <2> QED BY <2>1 DEF Flights
  <1>9. ASSUME NEW t \in A!Tokens, A!AnswerObserve(c, t, "ok"),
               Deliver("Watch", c, t, IF A!Journaled(c) THEN journal'[c] ELSE "not_found")
        PROVE  Replied(k) /\ Awaits(k)
    <2>1. /\ lane.cmd = NoCommand /\ lane' = lane /\ queued' = queued
          /\ journal[c] = "Absent" => journal' = journal /\ not_found'[c] >= t
      BY <1>0, <1>9, AnswerMoves
    <2>2. UNCHANGED <<rows, realm_lease, agent_lease>> BY DEF AgentStep
    <2>3. CASE A!Journaled(c)
      <3>1. Deliver("Watch", c, t, journal'[c]) BY <1>9, <2>3
      <3> QED BY <1>1, <1>6, <3>1
    <2>4. CASE ~A!Journaled(c)
      <3>1. Deliver("Watch", c, t, "not_found") /\ journal[c] = "Absent" BY <1>9, <2>4 DEF A!Journaled
      <3> QED BY <1>2, <1>6, <2>1, <2>2, <3>1
    <2> QED BY <2>3, <2>4
  <1>10. CASE A!Refuse(c) /\ Deliver("Await", c, lane.token, "error")
    BY <1>2, <1>5, <1>8, <1>10
  <1>11. CASE A!Replay(c, "ok") /\ Deliver("Await", c, lane.token, journal'[c])
    BY <1>1, <1>5, <1>8, <1>11
  <1>12. CASE A!Finish(c, "ok") /\ Deliver("Await", c, lane.token, journal'[c])
    BY <1>1, <1>5, <1>8, <1>12
  <1> QED BY <1>4, <1>7, <1>9, <1>10, <1>11, <1>12 DEF AgentStep

\* Every reply that a pass holds is an answer of the agent.
LEMMA ReplySteps ==
  ASSUME Core, Flights, [Next]_vars, NEW k \in Controllers
  PROVE  Replied(k) /\ Awaits(k)
  <1>0. Typed /\ AP!NInv /\ AP!NInv' /\ Core' BY CoreNext DEF Core
  <1>1. CASE Calm(k) BY <1>1, CalmSteps
  <1>2. CASE UNCHANGED pass BY <1>2, CalmSteps DEF Calm
  <1>3. ASSUME NEW j \in Controllers, Quits(j), j # k \/ pass[k].step # "Await" PROVE Calm(k)
    BY <1>3 DEF Quits, Others, Calm, Idle
  <1>4. ASSUME NEW c \in Met, AgentStep(c) PROVE Replied(k) /\ Awaits(k)
    BY <1>0, <1>4, AgentReplies
  <1>5. ASSUME NEW j \in Controllers, \E kind \in {"realm", "history"} : Request(j, kind) PROVE Calm(k)
    <2>1. Others(j) /\ pass[j].step = "Idle" /\ pass'[j].step = "Start" BY <1>0, <1>5, RequestDoes
    <2> QED BY <2>1, CalmOthers
  <1>6. ASSUME NEW j \in Controllers, AcquireRealm(j) PROVE Calm(k)
    BY <1>0, <1>3, <1>6, AcquireDoes, CalmOthers
  <1>7. ASSUME NEW j \in Controllers, \E c \in pass[j].todo : ObserveNext(j, c) PROVE Calm(k)
    BY <1>0, <1>3, <1>7, ObserveNextDoes, CalmOthers
  <1>8. ASSUME NEW j \in Controllers, Settle(j) PROVE Calm(k)
    BY <1>0, <1>3, <1>8, SettleDoes, CalmOthers
  <1>9. ASSUME NEW j \in Controllers, Derive(j) PROVE Calm(k)
    BY <1>0, <1>3, <1>9, DeriveDoes, CalmOthers
  <1>10. ASSUME NEW j \in Controllers, Persist(j) PROVE Calm(k)
    BY <1>0, <1>3, <1>10, PersistDoes, CalmOthers DEF Moves
  <1>11. ASSUME NEW j \in Controllers, Run(j) PROVE Calm(k)
    BY <1>0, <1>3, <1>11, RunDoes, CalmOthers DEF Moves
  <1>12. ASSUME NEW j \in Controllers, connect(j) PROVE Calm(k)
    BY <1>0, <1>3, <1>12, ConnectDoes, CalmOthers DEF Moves
  <1>13. ASSUME NEW j \in Controllers, ConnectFails(j) \/ Record(j) PROVE Calm(k)
    <2>1. Quits(j) /\ pass[j].step # "Await" BY <1>0, <1>13, ConnectFailsDoes, RecordDoes
    <2> QED BY <1>3, <2>1
  <1>14. ASSUME NEW j \in Controllers, SendLease(j) \/ execute(j) \/ observe(j) PROVE Calm(k)
    BY <1>0, <1>14, StreamDoes, CalmOthers DEF Moves
  <1>15. ASSUME NEW j \in Controllers, ObserveRunning(j) \/ Refused(j) \/ StreamBreaks(j)
         PROVE  Replied(k) /\ Awaits(k)
    <2>1. /\ \/ pass[j].step \in {"Lease", "Send", "Await"} /\ Moves(j, "Record")
             \/ pass[j].step \in {"AskLease", "Ask", "Watch"} /\ Moves(j, "Answered")
          /\ pass'[j].reply \in {"error", "running"}
          /\ pass[j].step = "Await" => broken' = TRUE
      BY <1>0, <1>15, AnswerDoes
    <2>2. CASE j # k BY <1>1, <2>1, <2>2 DEF Moves, Others, Calm
    <2>3. CASE j = k BY <2>1, <2>3 DEF Moves, Replied, Awaits
    <2> QED BY <2>2, <2>3
  <1>16. ASSUME AgentCrash PROVE Replied(k) /\ Awaits(k)
    <2>1. /\ Onward(k)
          /\ pass'[k] = pass[k] \/ pass'[k].reply = "error"
      BY <1>0, <1>16, AgentCrashDoes
    <2>2. queued' = {} /\ lane'.cmd = NoCommand BY <1>16 DEF AgentCrash, A!Crash, A!Free
    <2>3. pass[k].step = "Await" => pass[k].cmd \in Commands
      BY <1>0, ClaimingTyped DEF Claiming
    <2>4. CASE pass'[k] = pass[k] BY <1>1, <2>4 DEF Calm
    <2>5. CASE pass'[k].reply = "error"
      BY <2>1, <2>2, <2>3, <2>5, CommandAssumption DEF Onward, Replied, Awaits
    <2> QED BY <2>1, <2>4, <2>5
  <1>17. ASSUME NEW j \in Controllers, ControllerCrash(j) PROVE Replied(k) /\ Awaits(k)
    <2>1. Quits(j) /\ agent_lease'.owner = IF agent_lease.owner = j THEN Nobody ELSE agent_lease.owner
      BY <1>0, <1>17, CrashQuits
    <2>2. CASE j # k BY <1>1, <1>3, <2>1, <2>2
    <2>3. CASE j = k
      BY <2>1, <2>3, ControllersAssumption DEF Quits, Idle, Replied, Awaits
    <2> QED BY <2>2, <2>3
  <1>18. ASSUME AdvanceGeneration \/ UpdateBinding \/ Expire \/ Tick \/ AgentOpen \/ UNCHANGED vars
         PROVE  UNCHANGED pass
    BY <1>18 DEF AdvanceGeneration, UpdateBinding, Expire, Tick, AgentOpen, control, vars
  <1>19. ASSUME NEW j \in Controllers, PassStep(j) PROVE Replied(k) /\ Awaits(k)
    BY <1>1, <1>6, <1>7, <1>8, <1>9, <1>10, <1>11, <1>12, <1>13, <1>14, <1>15, <1>19 DEF PassStep
  <1>20. ASSUME FaultStep PROVE Replied(k) /\ Awaits(k)
    BY <1>1, <1>2, <1>13, <1>15, <1>16, <1>17, <1>18, <1>20 DEF FaultStep
  <1> QED BY <1>1, <1>2, <1>4, <1>5, <1>18, <1>19, <1>20 DEF Next

\* What succeeded, by its row, by the journal or by an answer under way, is
\* on the host, or something newer.
Realised ==
    /\ \A c \in Commands : rows[c] = "Succeeded" \/ journal[c] = "Succeeded" => NotOlder(c.ver, host)
    /\ \A k \in Controllers : pass[k].step \in {"Answered", "Record"} /\ pass[k].reply = "Succeeded"
          => NotOlder(pass[k].cmd.ver, host)
    /\ reported \in Nat \X Nat /\ NotOlder(reported, host)

\* A row that is written as succeeded was answered so.
LEMMA RowsSucceed ==
  ASSUME Core, [Next]_vars, NEW c \in Commands, rows'[c] = "Succeeded"
  PROVE  \/ rows[c] = "Succeeded"
         \/ \E k \in Controllers : /\ pass[k].step \in {"Answered", "Record"}
                                   /\ pass[k].reply = "Succeeded" /\ pass[k].cmd = c
  <1>0. Typed /\ AP!NInv' /\ RowsInv BY CoreNext DEF Core
  <1>1. CASE UNCHANGED rows BY <1>1
  <1>2. ASSUME NEW k \in Controllers, pass[k].step \in {"Answered", "Record"},
               pass[k].cmd \in Commands,
               \/ rows' = [rows EXCEPT ![pass[k].cmd] = Settled(pass[k].reply)]
               \/ rows' = [rows EXCEPT ![pass[k].cmd] = "UnknownOutcome"]
        PROVE  rows[c] = "Succeeded" \/ (pass[k].reply = "Succeeded" /\ pass[k].cmd = c)
    <2>1. CASE pass[k].cmd # c BY <1>0, <1>2, <2>1 DEF Typed
    <2>2. CASE pass[k].cmd = c BY <1>0, <1>2, <2>2 DEF Typed, Settled
    <2> QED BY <2>1, <2>2
  <1>3. ASSUME NEW k \in Controllers, Settle(k)
        PROVE  rows[c] = "Succeeded" \/ (pass[k].step = "Answered" /\ pass[k].reply = "Succeeded" /\ pass[k].cmd = c)
    <2>1. CASE UNCHANGED rows BY <2>1
    <2>2. CASE ~UNCHANGED rows
      <3>1. /\ rows' = [rows EXCEPT ![pass[k].cmd] = Settled(pass[k].reply)]
            /\ pass[k].step = "Answered" /\ pass[k].cmd \in Commands
        BY <1>0, <1>3, <2>2, SettleDoes
      <3> QED BY <1>2, <3>1
    <2> QED BY <2>1, <2>2
  <1>4. ASSUME NEW k \in Controllers, Record(k)
        PROVE  rows[c] = "Succeeded" \/ (pass[k].step = "Record" /\ pass[k].reply = "Succeeded" /\ pass[k].cmd = c)
    <2>1. CASE UNCHANGED rows BY <2>1
    <2>2. CASE ~UNCHANGED rows
      <3>1. /\ \/ rows' = [rows EXCEPT ![pass[k].cmd] = Settled(pass[k].reply)]
               \/ rows' = [rows EXCEPT ![pass[k].cmd] = "UnknownOutcome"]
            /\ pass[k].step = "Record" /\ pass[k].cmd \in Commands
        BY <1>0, <1>4, <2>2, RecordDoes
      <3> QED BY <1>2, <3>1
    <2> QED BY <2>1, <2>2
  <1>5. ASSUME NEW k \in Controllers, Persist(k) PROVE rows[c] = "Succeeded"
    <2>1. CASE UNCHANGED rows BY <2>1
    <2>2. CASE ~UNCHANGED rows
      <3>1. /\ HoldsRealm(k) /\ (rows[pass[k].cmd] = "Absent" \/ IsSuccessor(pass[k].cmd))
            /\ rows' = Persisted(pass[k].cmd) /\ pass[k].step = "Persist" /\ pass[k].cmd \in Commands
        BY <1>0, <1>5, <2>2, PersistDoes
      <3> QED BY <1>0, <3>1, PersistedRows
    <2> QED BY <2>1, <2>2
  <1>6. ASSUME NEW k \in Controllers, Run(k) PROVE rows[c] = "Succeeded"
    <2>1. UNCHANGED rows \/ (rows' = [rows EXCEPT ![pass[k].cmd] = "Running"] /\ pass[k].cmd \in Commands)
      BY <1>0, <1>6, RunDoes
    <2> QED BY <1>0, <2>1, Rewritten DEF States
  <1>7. ASSUME NEW k \in Controllers, ConnectFails(k) PROVE rows[c] = "Succeeded"
    <2>1. UNCHANGED rows \/ (rows' = [rows EXCEPT ![pass[k].cmd] = "Retryable"] /\ pass[k].cmd \in Commands)
      BY <1>0, <1>7, ConnectFailsDoes
    <2> QED BY <1>0, <2>1, Rewritten DEF States
  <1>8. ASSUME NEW k \in Controllers, \E kind \in {"realm", "history"} : Request(k, kind)
        PROVE  UNCHANGED rows
    BY <1>8 DEF Request
  <1>9. ASSUME NEW k \in Controllers, \E d \in pass[k].todo : ObserveNext(k, d)
        PROVE  UNCHANGED rows
    BY <1>9 DEF ObserveNext
  <1> QED BY <1>0, StepKinds, <1>1, <1>3, <1>4, <1>5, <1>6, <1>7, <1>8, <1>9
          DEF Talks, AdvanceGeneration, UpdateBinding, Expire, AcquireRealm, Derive, ControllerCrash

\* A report is about a command that succeeded.
LEMMA ReportSteps ==
  ASSUME Core, Realised, [Next]_vars
  PROVE  \/ UNCHANGED reported
         \/ \E c \in Commands : reported' = Newest(c.ver, reported) /\ NotOlder(c.ver, host)
  <1>0. Typed /\ AP!NInv' BY CoreNext DEF Core
  <1>1. ASSUME NEW k \in Controllers, Report(k), pass[k].cmd \in Commands, NotOlder(pass[k].cmd.ver, host)
        PROVE  \/ UNCHANGED reported
               \/ \E c \in Commands : reported' = Newest(c.ver, reported) /\ NotOlder(c.ver, host)
    BY <1>1 DEF Report
  <1>2. ASSUME NEW k \in Controllers, Persist(k), ~UNCHANGED reported
        PROVE  \E c \in Commands : reported' = Newest(c.ver, reported) /\ NotOlder(c.ver, host)
    <2>1. Proved(pass[k].cmd) /\ Report(k) /\ pass[k].cmd \in Commands
      BY <1>0, <1>2, PersistDoes
    <2>2. CASE rows[pass[k].cmd] = "Succeeded" BY <1>1, <1>2, <2>1, <2>2 DEF Realised
    <2>3. CASE rows[[ver |-> pass[k].cmd.ver, old |-> pass[k].cmd.ver]] = "Succeeded"
      <3> DEFINE d == [ver |-> pass[k].cmd.ver, old |-> pass[k].cmd.ver]
      <3>1. pass[k].cmd.ver \in Versions BY <2>1 DEF Commands
      <3>2. d \in Commands /\ d.ver = pass[k].cmd.ver BY <3>1 DEF Commands
      <3>3. rows[d] = "Succeeded" BY <2>3
      <3> HIDE DEF d
      <3>4. NotOlder(d.ver, host) BY <3>2, <3>3 DEF Realised
      <3> QED BY <1>1, <1>2, <2>1, <3>2, <3>4
    <2> QED BY <2>1, <2>2, <2>3 DEF Proved
  <1>3. ASSUME NEW k \in Controllers, Record(k), ~UNCHANGED reported
        PROVE  \E c \in Commands : reported' = Newest(c.ver, reported) /\ NotOlder(c.ver, host)
    <2>1. /\ pass[k].step = "Record" /\ pass[k].reply = "Succeeded" /\ Report(k)
          /\ pass[k].cmd \in Commands
      BY <1>0, <1>3, RecordDoes
    <2> QED BY <1>1, <1>3, <2>1 DEF Realised
  <1>4. ASSUME NEW j \in Controllers, PassStep(j), ~Persist(j), ~Record(j) PROVE UNCHANGED reported
    BY <1>4 DEF PassStep, AcquireRealm, ObserveNext, Settle, Derive, Run, connect,
        SendLease, execute, observe, ObserveRunning, Refused
  <1>5. ASSUME FaultStep PROVE UNCHANGED reported
    BY <1>5 DEF FaultStep, ConnectFails, StreamBreaks, ControllerCrash, Tick, AgentCrash
  <1>6. ASSUME NEW c \in Met, AgentStep(c) PROVE UNCHANGED reported BY <1>6 DEF AgentStep
  <1>7. ASSUME \/ AdvanceGeneration \/ UpdateBinding \/ Expire \/ AgentOpen \/ UNCHANGED vars
               \/ \E k \in Controllers, kind \in {"realm", "history"} : Request(k, kind)
        PROVE  UNCHANGED reported
    BY <1>7 DEF AdvanceGeneration, UpdateBinding, Request, Expire, AgentOpen, control, vars
  <1> QED BY <1>2, <1>3, <1>4, <1>5, <1>6, <1>7 DEF Next

\* Nothing is reported at the start.
LEMMA RealisedInit == Init => Realised
  <1> SUFFICES ASSUME Init PROVE Realised OBVIOUS
  <1>1. \A c \in Commands : rows[c] = "Absent" /\ journal[c] = "Absent" BY DEF Init, A!Init
  <1>2. \A k \in Controllers : pass[k].step = "Idle" BY DEF Init, Idle
  <1>3. reported = <<0, 0>> /\ host = <<0, 0>> BY DEF Init, A!Init, NoVersion
  <1> QED BY <1>1, <1>2, <1>3 DEF Realised, NotOlder

\* What succeeded stays on the host, since the host never goes back.
LEMMA RealisedNext ==
  ASSUME Sequenced, Ordered, Realised, [Next]_vars
  PROVE  Realised'
  <1>0. Core /\ Core' /\ Effects /\ Flights BY SequencedNext, AgentMoves DEF Sequenced
  <1>1. \A c \in Commands : c.ver[1] \in Nat /\ c.ver[2] \in Nat BY <1>0, Numbers
  <1>2. /\ NotOlder(host, host')
        /\ host[1] \in Nat /\ host[2] \in Nat /\ host'[1] \in Nat /\ host'[2] \in Nat
    BY HostForward
  <1>3. \A v : v[1] \in Nat /\ v[2] \in Nat /\ NotOlder(v, host) => NotOlder(v, host')
    BY <1>2 DEF NotOlder
  <1>4. \A c \in Commands : journal'[c] = "Succeeded" => NotOlder(c.ver, host')
    <2>1. \A c \in Commands : NotOlder(c.ver, c.ver) BY <1>1 DEF NotOlder
    <2> QED BY <1>0, <1>1, <1>3, <2>1 DEF Effects, JournalMoves, Realised
  <1>5. \A c \in Commands : rows'[c] = "Succeeded" => NotOlder(c.ver, host')
    BY <1>0, <1>1, <1>3, RowsSucceed DEF Realised
  <1>6. ASSUME NEW k \in Controllers, pass'[k].step \in {"Answered", "Record"},
               pass'[k].reply = "Succeeded"
        PROVE  NotOlder(pass'[k].cmd.ver, host')
    <2>1. pass'[k].cmd \in Commands
      <3>1. Typed' BY <1>0 DEF Core
      <3>2. pass'[k].step \in Claiming BY <1>6 DEF Claiming, Asking
      <3> QED BY <3>1, <3>2 DEF Typed, Begun
    <2>2. Replied(k) BY <1>0, ReplySteps
    <2>3. CASE pass'[k].reply = journal'[pass[k].cmd]
      BY <1>4, <1>6, <2>1, <2>2, <2>3 DEF Replied
    <2>4. CASE pass'[k].step = pass[k].step /\ pass'[k].reply = pass[k].reply
      <3>1. pass'[k].cmd = pass[k].cmd BY <1>6, <2>2 DEF Replied
      <3>2. NotOlder(pass[k].cmd.ver, host) BY <1>6, <2>4 DEF Realised
      <3> QED BY <1>1, <1>3, <2>1, <3>1, <3>2
    <2> QED BY <1>6, <2>2, <2>3, <2>4 DEF Replied
  <1>7. reported' \in Nat \X Nat /\ NotOlder(reported', host')
    <2>1. reported \in Nat \X Nat /\ NotOlder(reported, host) BY DEF Realised
    <2>2. CASE UNCHANGED reported BY <1>3, <2>1, <2>2
    <2>3. ASSUME NEW c \in Commands, reported' = Newest(c.ver, reported), NotOlder(c.ver, host)
          PROVE  reported' \in Nat \X Nat /\ NotOlder(reported', host')
      <3>1. reported' \in Nat \X Nat /\ NotOlder(reported', host)
        BY <1>1, <2>1, <2>3 DEF Newest, NotOlder
      <3> QED BY <1>3, <3>1
    <2> QED BY <1>0, <2>2, <2>3, ReportSteps
  <1> QED BY <1>4, <1>5, <1>6, <1>7 DEF Realised

\* What a pass reported as reconciled is on the host, or something newer, also
\* when the report rests on a row that another pass settled long before.
THEOREM ReportsAreHeld == Spec => []ReportedIsHeld
  <1>1. Init => Realised BY RealisedInit
  <1>2. Sequenced /\ Ordered /\ Realised /\ [Next]_vars => Realised' BY RealisedNext
  <1>3. Realised => ReportedIsHeld BY DEF Realised, ReportedIsHeld
  <1> QED BY <1>1, <1>2, <1>3, OrderedAlways, PTL DEF Spec

-----------------------------------------------------------------------------
(***************************************************************************)
(* What was superseded.  While no stream broke, the pass that sent a        *)
(* command is the one that waits for it, so whoever asks the agent about a  *)
(* command asks under a token later than every dispatch of it.              *)
(***************************************************************************)
Awaited ==
    \A c \in Commands : Flying(c, agent_lease.token) /\ agent_lease.owner # Nobody =>
        /\ pass[agent_lease.owner].step = "Await"
        /\ pass[agent_lease.owner].cmd = c
        /\ pass[agent_lease.owner].token = agent_lease.token

\* The command is not journaled, and its answer fences out what is under way.
Out(c) ==
    /\ journal[c] = "Absent"
    /\ \A t \in A!Tokens : Flying(c, t) => t < not_found[c]
    /\ \A k \in Controllers :
          pass[k].step \in Dispatching \cup {"Run"} /\ pass[k].cmd = c => pass[k].token < not_found[c]

\* A pass that has found commands that the agent does not know.
Finding == Asking \cup {"Observe", "Persist"}

Excluded ==
    /\ \A c \in Commands : rows[c] = "Superseded" => Out(c)
    /\ \A k \in Controllers : HoldsRealm(k) =>
          /\ pass[k].step \in Finding => \A c \in pass[k].absent : Out(c)
          /\ pass[k].step = "Answered" /\ pass[k].reply = "not_found" => Out(pass[k].cmd)

Kept == ~broken => Awaited /\ Excluded

\* A pass k writes the row of command c to dispatch it.
Writes(k, c) == Persist(k) /\ pass'[k].step = "Run" /\ pass[k].cmd = c

\* What a write of a row is.
LEMMA WritesDo ==
  ASSUME Typed, NEW k \in Controllers, NEW c \in Commands, Writes(k, c)
  PROVE  /\ HoldsRealm(k) /\ UNCHANGED realm_lease /\ pass[k].step = "Persist"
         /\ rows[c] = "Absent" \/ IsSuccessor(c)
         /\ rows' = Persisted(c) /\ Moves(k, "Run")
  <1>1. ~Quits(k) BY DEF Writes, Quits, Idle
  <1> QED BY <1>1, PersistDoes DEF Writes

\* The row is written before a pass has anything to dispatch.
LEMMA RunSteps ==
  ASSUME Core, [Next]_vars, NEW k \in Controllers, pass'[k].step = "Run"
  PROVE  \/ pass[k].step = "Run" /\ pass'[k].cmd = pass[k].cmd /\ pass'[k].token = pass[k].token
         \/ Writes(k, pass[k].cmd)
  <1>0. Typed /\ AP!NInv' BY CoreNext DEF Core
  <1> DEFINE Stays == pass'[k] = pass[k] \/ pass'[k].step # "Run"
  <1>1. CASE Stays BY <1>1
  <1>2. ASSUME NEW j \in Controllers, Quits(j) PROVE Stays BY <1>2 DEF Quits, Others, Idle
  <1>3. ASSUME NEW j \in Controllers, Others(j), pass'[j].step # "Run" PROVE Stays BY <1>3 DEF Others
  <1>4. CASE Talks BY <1>4 DEF Talks, Onward
  <1>5. CASE AdvanceGeneration \/ UpdateBinding \/ Expire
    BY <1>5 DEF AdvanceGeneration, UpdateBinding, Expire
  <1> HIDE DEF Stays
  <1>6. ASSUME NEW j \in Controllers, \E kind \in {"realm", "history"} : Request(j, kind) PROVE Stays
    BY <1>0, <1>3, <1>6, RequestDoes
  <1>7. ASSUME NEW j \in Controllers, AcquireRealm(j) PROVE Stays
    BY <1>0, <1>2, <1>3, <1>7, AcquireDoes
  <1>8. ASSUME NEW j \in Controllers, \E c \in pass[j].todo : ObserveNext(j, c) PROVE Stays
    BY <1>0, <1>2, <1>3, <1>8, ObserveNextDoes
  <1>9. ASSUME NEW j \in Controllers, Settle(j) PROVE Stays BY <1>0, <1>2, <1>3, <1>9, SettleDoes
  <1>10. ASSUME NEW j \in Controllers, Derive(j) PROVE Stays BY <1>0, <1>2, <1>3, <1>10, DeriveDoes
  <1>11. ASSUME NEW j \in Controllers, Persist(j), j # k PROVE Stays
    BY <1>0, <1>11, PersistDoes DEF Moves, Quits, Others, Stays
  <1>12. ASSUME NEW j \in Controllers, Run(j) PROVE Stays
    BY <1>0, <1>2, <1>3, <1>12, RunDoes DEF Moves
  <1>13. ASSUME NEW j \in Controllers, ConnectFails(j) \/ Record(j) PROVE Stays
    BY <1>0, <1>2, <1>13, ConnectFailsDoes, RecordDoes
  <1>14. ASSUME NEW j \in Controllers, ControllerCrash(j) PROVE Stays BY <1>0, <1>2, <1>14, CrashQuits
  <1>15. CASE Persist(k) BY <1>15 DEF Writes
  <1> QED BY <1>0, StepKinds, <1>1, <1>2, <1>4, <1>5, <1>6, <1>7, <1>8, <1>9, <1>10, <1>11, <1>12,
             <1>13, <1>14, <1>15

\* A command stays out unless its row is written again.
LEMMA OutMoves ==
  ASSUME Core, Flights, [Next]_vars, NEW c \in Commands, Out(c), \A k \in Controllers : ~Writes(k, c)
  PROVE  Out(c)'
  <1>0. /\ Effects /\ (Lands \/ \E k \in Controllers : Launches(k))
        /\ Typed /\ AP!NInv /\ AP!NInv'
    BY AgentMoves, CoreNext DEF Core
  <1>1. /\ not_found[c] \in Nat /\ not_found'[c] >= not_found[c]
        /\ \A t \in A!Tokens : t \in Nat
        /\ \A k \in Controllers : pass[k].token \in Nat
    BY <1>0, AgentFacts, Numbers DEF Effects, AnswersStay
  <1>2. not_found'[c] \in Nat
    <2>1. A!TypeOK' BY <1>0, AgentKeeps, PTL
    <2> QED BY <2>1, BoundsAssumption DEF A!TypeOK
  <1>3. journal'[c] = "Absent"
    <2>1. SUFFICES ASSUME journal'[c] # "Absent" PROVE FALSE OBVIOUS
    <2>2. lane.step = "Checked" /\ lane.cmd = c
      BY <1>0, <2>1 DEF Effects, JournalMoves, Out
    <2>3. not_found[c] <= lane.token /\ lane.token \in Nat BY <1>0, <2>2, AgentFacts
    <2>4. Flying(c, lane.token) BY <2>2 DEF Flying
    <2>5. lane.token \in A!Tokens BY <2>2 DEF Flights
    <2> QED BY <1>1, <2>3, <2>4, <2>5 DEF Out
  <1>4. ASSUME NEW t \in A!Tokens, Flying(c, t)' PROVE t < not_found'[c]
    <2>1. CASE Lands
      <3>1. Flying(c, t) BY <1>4, <2>1, FlyingLands
      <3> QED BY <1>1, <1>2, <3>1 DEF Out
    <2>2. ASSUME NEW k \in Controllers, Launches(k) PROVE t < not_found'[c]
      <3>1. Flying(c, t) \/ (pass[k].step = "Send" /\ pass[k].cmd = c /\ pass[k].token = t)
        BY <1>4, <2>2 DEF Launches, Flying
      <3> QED BY <1>1, <1>2, <3>1 DEF Out, Dispatching
    <2> QED BY <1>0, <2>1, <2>2
  <1>5. ASSUME NEW k \in Controllers, pass'[k].step \in Dispatching \cup {"Run"}, pass'[k].cmd = c
        PROVE  pass'[k].token < not_found'[c]
    <2>1. CASE pass'[k].step = "Run"
      <3>1. pass[k].step = "Run" /\ pass[k].cmd = c /\ pass'[k].token = pass[k].token
        <4>1. ASSUME Writes(k, pass[k].cmd) PROVE FALSE
          <5>1. Moves(k, "Run")
            <6>1. pass[k].step \in Claiming BY <4>1 DEF Writes, Persist, At, Claiming, Sending
            <6>2. pass[k].cmd \in Commands BY <1>0, <6>1, ClaimingTyped
            <6> QED BY <1>0, <4>1, <6>2, WritesDo
          <5>2. pass[k].cmd = c BY <1>5, <5>1 DEF Moves
          <5> QED BY <4>1, <5>2
        <4> QED BY <1>5, <2>1, <4>1, RunSteps
      <3>2. pass[k].token < not_found[c] BY <3>1 DEF Out
      <3> QED BY <1>1, <1>2, <3>1, <3>2
    <2>2. CASE pass'[k].step \in Dispatching
      <3>1. /\ pass[k].cmd = c /\ pass'[k].token = pass[k].token
            /\ pass[k].step \in Dispatching \cup {"Run"}
        BY <1>5, <2>2, DispatchSteps DEF Dispatches
      <3>2. pass[k].token < not_found[c] BY <3>1 DEF Out
      <3> QED BY <1>1, <1>2, <3>1, <3>2
    <2> QED BY <1>5, <2>1, <2>2
  <1> QED BY <1>3, <1>4, <1>5 DEF Out

\* The pass that sent a command goes on waiting for it.
LEMMA AwaitedNext ==
  ASSUME Sequenced, Awaited, ~broken', [Next]_vars
  PROVE  Awaited'
  <1>0. Core /\ Typed /\ Owners /\ Flights BY DEF Sequenced, Core
  <1> SUFFICES ASSUME NEW c \in Commands, Flying(c, agent_lease.token)', agent_lease'.owner # Nobody
               PROVE  /\ pass'[agent_lease'.owner].step = "Await"
                      /\ pass'[agent_lease'.owner].cmd = c
                      /\ pass'[agent_lease'.owner].token = agent_lease'.token
    BY DEF Awaited
  <1> DEFINE t == agent_lease'.token
             k == agent_lease'.owner
  <1>1. <<c, t>> \in queued' \/ (lane'.cmd = c /\ lane'.token = t) BY DEF Flying
  <1>2. t = agent_lease'.token /\ k = agent_lease'.owner OBVIOUS
  <1> HIDE DEF t, k
  <1>3. CASE NoClaim
    <2>1. t = agent_lease.token /\ k = agent_lease.owner /\ k \in Controllers
      BY <1>0, <1>2, <1>3 DEF NoClaim, Typed
    <2>2. CASE Flying(c, t)
      <3>1. pass[k].step = "Await" /\ pass[k].cmd = c /\ pass[k].token = t
        BY <1>2, <2>1, <2>2 DEF Awaited
      <3>2. Awaits(k) BY <1>0, <2>1, ReplySteps
      <3>3. pass'[k] = pass[k] BY <1>1, <1>2, <3>1, <3>2 DEF Awaits
      <3> QED BY <1>2, <3>1, <3>3
    <2>3. ASSUME NEW j \in Controllers, Launches(j), ~Flying(c, t)
          PROVE  pass'[k].step = "Await" /\ pass'[k].cmd = c /\ pass'[k].token = t
      <3>1. pass[j].step = "Send" /\ pass[j].cmd = c /\ pass[j].token = t /\ Moves(j, "Await")
        BY <1>1, <2>3 DEF Launches, Flying
      <3>2. j = k BY <1>0, <2>1, <3>1 DEF Owners, Claiming, Sending
      <3> QED BY <3>1, <3>2 DEF Moves
    <2>4. CASE Lands
      <3>1. Flying(c, t) BY <1>1, <2>4, CommandAssumption DEF Lands, Flying
      <3> QED BY <2>2, <3>1
    <2> QED BY <1>0, <1>2, <2>2, <2>3, <2>4, AgentMoves
  <1>4. ASSUME NEW j \in Controllers, Claims(j) PROVE FALSE
    <2>1. UNCHANGED <<lane, queued>> /\ AgentLeaseFree(j) /\ ClaimAgent(j) /\ pass[j].step = "Observe"
      BY <1>4 DEF Claims, agent
    <2>2. Flying(c, t) BY <1>1, <2>1 DEF Flying
    <2>3. /\ t = NextToken /\ t \in 0..MaxToken /\ t # 0
          /\ \/ agent_lease.live /\ agent_lease.owner = j /\ NextToken = agent_lease.token
             \/ NextToken = agent_lease.token + 1
      BY <1>0, <1>2, <2>1, ClaimDoes
    <2>4. t \in A!Tokens /\ t \in Nat /\ agent_lease.token \in Nat
      BY <1>0, <2>3, BoundsAssumption, Numbers DEF A!Tokens
    <2>5. t <= agent_lease.token BY <1>0, <2>2, <2>4 DEF Flights
    <2>6. agent_lease.owner = j /\ t = agent_lease.token BY <2>3, <2>4, <2>5
    <2> QED BY <2>1, <2>2, <2>6, ControllersAssumption DEF Awaited
  <1> QED BY <1>0, <1>2, <1>3, <1>4, ClaimSteps

\* The agent does not know the command, and what is under way of it is older.
LEMMA MissedOut ==
  ASSUME Sequenced, Awaited, [Next]_vars, NEW k \in Controllers, Missed(k), HoldsRealm(k),
         NEW c, c = pass[k].cmd
  PROVE  Out(c)'
  <1>0. Core /\ Typed /\ Owners /\ Flights /\ Core' BY SequencedNext DEF Sequenced, Core
  <1>1. /\ pass[k].step = "Watch" /\ c \in Commands /\ pass[k].token = agent_lease.token
        /\ not_found'[c] >= pass[k].token /\ journal'[c] = "Absent"
        /\ UNCHANGED <<lane, queued>>
    BY <1>0 DEF Missed, Owners, Claiming, Asking
  <1>2. /\ \A t \in A!Tokens : t \in Nat
        /\ agent_lease.token \in Nat /\ \A j \in Controllers : pass[j].token \in Nat
    BY <1>0, Numbers
  <1>3. not_found'[c] \in Nat
    <2>1. AP!NInv' BY <1>0 DEF Core
    <2>2. A!TypeOK' BY <2>1, AgentKeeps, PTL
    <2> QED BY <1>1, <2>2, BoundsAssumption DEF A!TypeOK
  <1>4. ASSUME NEW t \in A!Tokens, Flying(c, t)' PROVE t < not_found'[c]
    <2>1. Flying(c, t) BY <1>1, <1>4 DEF Flying
    <2>2. t <= agent_lease.token BY <1>0, <1>1, <2>1 DEF Flights
    <2>3. t # agent_lease.token
      <3>1. SUFFICES ASSUME t = agent_lease.token PROVE FALSE OBVIOUS
      <3>2. agent_lease.owner = k BY <1>0, <1>1 DEF Owners, Claiming, Asking
      <3>3. k # Nobody BY ControllersAssumption
      <3> QED BY <1>1, <2>1, <3>1, <3>2, <3>3 DEF Awaited
    <2> QED BY <1>1, <1>2, <1>3, <2>2, <2>3
  <1>5. ASSUME NEW j \in Controllers, pass'[j].step \in Dispatching \cup {"Run"}, pass'[j].cmd = c
        PROVE  pass'[j].token < not_found'[c]
    <2>1. pass[j].step \in Sending \cup {"Await"} /\ pass'[j].token = pass[j].token
      <3>1. CASE pass'[j].step \in Dispatching
        BY <1>0, <3>1, DispatchSteps DEF Dispatches, Dispatching, Sending
      <3>2. CASE Writes(j, pass[j].cmd)
        <4>1. pass[j].step = "Persist" BY <3>2 DEF Writes, Persist, At
        <4>2. pass[j].cmd \in Commands BY <1>0, <4>1, ClaimingTyped DEF Claiming, Sending
        <4>3. Moves(j, "Run") BY <1>0, <3>2, <4>2, WritesDo
        <4> QED BY <4>1, <4>3 DEF Moves, Sending
      <3>3. CASE pass'[j].step = "Run" /\ ~Writes(j, pass[j].cmd)
        BY <1>0, <3>3, RunSteps DEF Sending
      <3> QED BY <1>5, <3>1, <3>2, <3>3
    <2>2. j # k BY <1>1, <2>1 DEF Sending
    <2>3. pass[j].step \in Claiming /\ pass[k].step \in Claiming BY <1>1, <2>1 DEF Claiming, Asking
    <2>4. pass[j].token <= agent_lease.token /\ pass[j].token # pass[k].token
      BY <1>0, <2>2, <2>3 DEF Owners
    <2> QED BY <1>1, <1>2, <1>3, <2>1, <2>4
  <1> QED BY <1>1, <1>4, <1>5 DEF Out

\* A pass finds what the agent answered it.
LEMMA AbsentSteps ==
  ASSUME Core, [Next]_vars, NEW k \in Controllers, HoldsRealm(k)', pass'[k].step \in Finding,
         NEW c \in pass'[k].absent
  PROVE  /\ HoldsRealm(k)
         /\ \/ pass[k].step \in Finding /\ c \in pass[k].absent
            \/ pass[k].step = "Answered" /\ pass[k].reply = "not_found" /\ c = pass[k].cmd
  <1>0. Typed /\ AP!NInv' BY CoreNext DEF Core
  <1> DEFINE Stays == HoldsRealm(k) /\ pass[k].step \in Finding /\ c \in pass[k].absent
  <1>1. ASSUME HoldsRealm(k), pass'[k] = pass[k] PROVE Stays BY <1>1
  <1>2. ASSUME NEW j \in Controllers, Quits(j) PROVE Stays BY <1>2 DEF Quits, Others
  <1>3. ASSUME NEW j \in Controllers, Others(j), UNCHANGED realm_lease, j # k PROVE Stays
    BY <1>3, RealmStays DEF Others
  <1>4. CASE Talks
    <2>1. HoldsRealm(k) BY <1>4 DEF Talks, HoldsRealm
    <2>2. pass'[k].absent = pass[k].absent /\ pass[k].step \in Finding
      BY <1>4 DEF Talks, Onward, Finding, Asking
    <2> QED BY <2>1, <2>2
  <1>5. CASE AdvanceGeneration \/ UpdateBinding \/ Expire
    <2>1. HoldsRealm(k) /\ UNCHANGED pass
      BY <1>0, <1>5 DEF AdvanceGeneration, UpdateBinding, Expire, HoldsRealm, Typed
    <2> QED BY <1>1, <2>1
  <1>6. ASSUME NEW j \in Controllers, \E kind \in {"realm", "history"} : Request(j, kind) PROVE Stays
    <2>1. Others(j) /\ UNCHANGED realm_lease /\ pass'[j].absent = {} BY <1>0, <1>6, RequestDoes
    <2> QED BY <1>3, <2>1
  <1>7. ASSUME NEW j \in Controllers, AcquireRealm(j) PROVE Stays
    <2>1. CASE Quits(j) BY <1>2, <2>1
    <2>2. CASE ~Quits(j)
      <3>1. /\ pass[j].step = "Start" /\ pass'[j].absent = pass[j].absent
            /\ realm_lease' = [owner |-> j, live |-> TRUE]
        BY <1>0, <1>7, <2>2, AcquireDoes
      <3>2. j = k BY <3>1 DEF HoldsRealm
      <3>3. pass[k].absent = {} BY <1>0, <3>1, <3>2 DEF Typed, Begun
      <3> QED BY <3>1, <3>2, <3>3
    <2> QED BY <2>1, <2>2
  <1>8. ASSUME NEW j \in Controllers, Derive(j) \/ \E d \in pass[j].todo : ObserveNext(j, d) PROVE Stays
    <2>1. CASE Quits(j) BY <1>2, <2>1
    <2>2. CASE ~Quits(j)
      <3>1. /\ Others(j) /\ UNCHANGED realm_lease /\ pass[j].step = "Observe"
            /\ pass'[j].absent = pass[j].absent
        BY <1>0, <1>8, <2>2, DeriveDoes, ObserveNextDoes
      <3>2. HoldsRealm(k) BY <3>1, RealmStays
      <3> QED BY <1>3, <3>1, <3>2 DEF Finding
    <2> QED BY <2>1, <2>2
  <1>9. ASSUME NEW j \in Controllers, Settle(j)
        PROVE  Stays \/ (HoldsRealm(k) /\ pass[k].step = "Answered" /\ pass[k].reply = "not_found"
                         /\ c = pass[k].cmd)
    <2>1. CASE Quits(j) BY <1>2, <2>1
    <2>2. CASE ~Quits(j)
      <3>1. /\ Others(j) /\ UNCHANGED realm_lease /\ pass[j].step = "Answered"
            /\ pass'[j].absent = IF pass[j].reply = "not_found"
                                 THEN pass[j].absent \cup {pass[j].cmd} ELSE pass[j].absent
        BY <1>0, <1>9, <2>2, SettleDoes
      <3>2. HoldsRealm(k) BY <3>1, RealmStays
      <3> QED BY <1>3, <3>1, <3>2 DEF Finding, Asking
    <2> QED BY <2>1, <2>2
  <1>10. ASSUME NEW j \in Controllers, Persist(j) PROVE Stays
    <2>1. CASE Quits(j) BY <1>2, <2>1
    <2>2. CASE ~Quits(j)
      <3>1. Moves(j, "Run") /\ UNCHANGED realm_lease BY <1>0, <1>10, <2>2, PersistDoes
      <3> QED BY <1>3, <3>1 DEF Moves, Finding, Asking
    <2> QED BY <2>1, <2>2
  <1>11. ASSUME NEW j \in Controllers, Run(j) PROVE Stays
    <2>1. CASE Quits(j) BY <1>2, <2>1
    <2>2. CASE ~Quits(j)
      <3>1. Moves(j, "Connect") /\ UNCHANGED realm_lease BY <1>0, <1>11, <2>2, RunDoes
      <3> QED BY <1>3, <3>1 DEF Moves, Finding, Asking
    <2> QED BY <2>1, <2>2
  <1>12. ASSUME NEW j \in Controllers, ConnectFails(j) \/ Record(j) \/ ControllerCrash(j) PROVE Stays
    BY <1>0, <1>2, <1>12, ConnectFailsDoes, RecordDoes, CrashQuits
  <1> QED BY <1>0, StepKinds, <1>2, <1>4, <1>5, <1>6, <1>7, <1>8, <1>9, <1>10, <1>11, <1>12

\* A pass that has an answer holds the realm's lease since before.
LEMMA AnsweredHolds ==
  ASSUME Core, [Next]_vars, NEW k \in Controllers, HoldsRealm(k)', pass'[k].step = "Answered"
  PROVE  HoldsRealm(k)
  <1>0. Typed /\ AP!NInv' BY CoreNext DEF Core
  <1>1. pass'[k].step \in Claiming BY DEF Claiming, Asking
  <1>2. CASE NoClaim BY <1>1, <1>2 DEF NoClaim, Continues
  <1>3. ASSUME NEW j \in Controllers, Claims(j) PROVE HoldsRealm(k)
    BY <1>3, RealmStays DEF Claims
  <1> QED BY <1>2, <1>3, ClaimSteps

\* A row is superseded by a pass that found its command unknown to the agent.
LEMMA SupersedeSteps ==
  ASSUME Core, [Next]_vars, NEW c \in Commands, rows'[c] = "Superseded"
  PROVE  \/ rows[c] = "Superseded"
         \/ \E k \in Controllers : HoldsRealm(k) /\ pass[k].step = "Persist" /\ c \in pass[k].absent
  <1>0. Typed /\ AP!NInv' /\ RowsInv BY CoreNext DEF Core
  <1>1. CASE UNCHANGED rows BY <1>1
  <1>2. ASSUME NEW d \in Commands, NEW s \in States \ {"Superseded"}, rows' = [rows EXCEPT ![d] = s]
        PROVE  rows[c] = "Superseded"
    BY <1>0, <1>2, Rewritten
  <1>3. \A r : Settled(r) \in States \ {"Superseded"} BY DEF Settled, States
  <1>4. ASSUME NEW k \in Controllers, Settle(k) \/ Record(k) \/ Run(k) \/ ConnectFails(k)
        PROVE  rows[c] = "Superseded"
    <2>1. CASE UNCHANGED rows BY <2>1
    <2>2. CASE ~UNCHANGED rows
      <3>1. /\ pass[k].cmd \in Commands
            /\ \/ rows' = [rows EXCEPT ![pass[k].cmd] = Settled(pass[k].reply)]
               \/ rows' = [rows EXCEPT ![pass[k].cmd] = "UnknownOutcome"]
               \/ rows' = [rows EXCEPT ![pass[k].cmd] = "Running"]
               \/ rows' = [rows EXCEPT ![pass[k].cmd] = "Retryable"]
        BY <1>0, <1>4, <2>2, SettleDoes, RecordDoes, RunDoes, ConnectFailsDoes
      <3>2. {"UnknownOutcome", "Running", "Retryable"} \subseteq States \ {"Superseded"} BY DEF States
      <3> QED BY <1>2, <1>3, <3>1, <3>2
    <2> QED BY <2>1, <2>2
  <1>5. ASSUME NEW k \in Controllers, Persist(k)
        PROVE  rows[c] = "Superseded"
               \/ (HoldsRealm(k) /\ pass[k].step = "Persist" /\ c \in pass[k].absent)
    <2>1. CASE UNCHANGED rows BY <2>1
    <2>2. CASE ~UNCHANGED rows
      <3>1. /\ HoldsRealm(k) /\ (rows[pass[k].cmd] = "Absent" \/ IsSuccessor(pass[k].cmd))
            /\ rows' = Persisted(pass[k].cmd) /\ pass[k].step = "Persist" /\ pass[k].cmd \in Commands
        BY <1>0, <1>5, <2>2, PersistDoes
      <3> QED BY <1>0, <3>1, PersistedRows
    <2> QED BY <2>1, <2>2
  <1>6. ASSUME NEW k \in Controllers, \E kind \in {"realm", "history"} : Request(k, kind)
        PROVE  UNCHANGED rows
    BY <1>6 DEF Request
  <1>7. ASSUME NEW k \in Controllers, \E d \in pass[k].todo : ObserveNext(k, d)
        PROVE  UNCHANGED rows
    BY <1>7 DEF ObserveNext
  <1> QED BY <1>0, StepKinds, <1>1, <1>4, <1>5, <1>6, <1>7
          DEF Talks, AdvanceGeneration, UpdateBinding, Expire, AcquireRealm, Derive, ControllerCrash

\* What is superseded or found unknown stays out.
LEMMA ExcludedNext ==
  ASSUME Sequenced, Awaited, Excluded, [Next]_vars
  PROVE  Excluded'
  <1>0. Core /\ Core' /\ Typed /\ RowsInv /\ Flights BY SequencedNext DEF Sequenced, Core
  <1>1. ASSUME NEW j \in Controllers, NEW c \in Commands, Writes(j, c)
        PROVE  /\ rows'[c] # "Superseded"
               /\ \A k \in Controllers : HoldsRealm(k)' => pass'[k].step = "Run"
    <2>1. /\ HoldsRealm(j) /\ UNCHANGED realm_lease /\ pass[j].step = "Persist"
          /\ rows[c] = "Absent" \/ IsSuccessor(c)
          /\ rows' = Persisted(c) /\ Moves(j, "Run") /\ pass[j].cmd = c
      BY <1>0, <1>1, WritesDo DEF Writes
    <2>2. rows'[c] # "Superseded" BY <1>0, <2>1, PersistedRows
    <2>3. \A k \in Controllers : HoldsRealm(k)' => k = j BY <2>1, RealmStays, OneHolder
    <2> QED BY <2>1, <2>2, <2>3 DEF Moves
  <1>2. ASSUME NEW c \in Commands, rows'[c] = "Superseded" PROVE Out(c)'
    <2>1. Out(c)
      BY <1>0, <1>2, SupersedeSteps DEF Excluded, Finding
    <2> QED BY <1>0, <1>1, <1>2, <2>1, OutMoves
  <1>3. ASSUME NEW k \in Controllers, HoldsRealm(k)', pass'[k].step \in Finding,
               NEW c \in pass'[k].absent
        PROVE  Out(c)'
    <2>1. Out(c) BY <1>0, <1>3, AbsentSteps DEF Excluded
    <2>2. c \in Commands
      <3>1. pass'[k] \in Passes BY <1>0 DEF Core, Typed
      <3>2. pass'[k].absent \subseteq Commands BY <3>1 DEF Passes
      <3> QED BY <3>2
    <2>3. \A j \in Controllers : ~Writes(j, c) BY <1>1, <1>3, <2>2 DEF Finding, Asking
    <2> QED BY <1>0, <2>1, <2>2, <2>3, OutMoves
  <1>4. ASSUME NEW k \in Controllers, HoldsRealm(k)', pass'[k].step = "Answered",
               pass'[k].reply = "not_found", NEW c, c = pass'[k].cmd
        PROVE  Out(c)'
    <2>1. Replied(k) BY <1>0, ReplySteps
    <2>2. pass[k].cmd = c BY <1>4, <2>1 DEF Replied
    <2>3. HoldsRealm(k) BY <1>0, <1>4, AnsweredHolds
    <2>4. CASE Missed(k) BY <2>2, <2>3, <2>4, MissedOut
    <2>5. CASE pass[k].step = "Answered" /\ pass[k].reply = "not_found"
      <3>1. Out(c) BY <2>2, <2>3, <2>5 DEF Excluded
      <3>2. c \in Commands BY <1>0, <2>2, <2>5, ClaimingTyped DEF Claiming, Asking
      <3>3. \A j \in Controllers : ~Writes(j, c) BY <1>1, <1>4, <3>2
      <3> QED BY <1>0, <3>1, <3>2, <3>3, OutMoves
    <2> QED BY <1>4, <2>1, <2>4, <2>5 DEF Replied
  <1>5. ASSUME NEW k \in Controllers, HoldsRealm(k)'
        PROVE  /\ pass'[k].step \in Finding => \A c \in pass'[k].absent : Out(c)'
               /\ pass'[k].step = "Answered" /\ pass'[k].reply = "not_found" => Out(pass[k].cmd)'
    <2>1. pass'[k].step \in Finding => \A c \in pass'[k].absent : Out(c)' BY <1>3, <1>5
    <2>2. ASSUME pass'[k].step = "Answered", pass'[k].reply = "not_found" PROVE Out(pass[k].cmd)'
      <3>1. \A c : c = pass'[k].cmd => Out(c)' BY <1>4, <1>5, <2>2
      <3> QED BY <3>1 DEF Out, Flying
    <2> QED BY <2>1, <2>2
  <1> QED BY <1>2, <1>5 DEF Excluded

\* At first nothing is sent and nothing superseded.
LEMMA KeptInit == Init => Kept
  <1> SUFFICES ASSUME Init PROVE Awaited /\ Excluded BY DEF Kept
  <1>1. /\ \A c \in Commands : rows[c] # "Superseded"
        /\ agent_lease.owner = Nobody /\ ~realm_lease.live
    BY DEF Init
  <1> QED BY <1>1 DEF Awaited, Excluded, HoldsRealm

\* A stream that broke stays broken.
LEMMA BrokenStays ==
  ASSUME Typed, [Next]_vars, ~broken'
  PROVE  ~broken
  <1>1. ASSUME NEW j \in Controllers, PassStep(j) PROVE UNCHANGED broken
    BY <1>1 DEF PassStep, AcquireRealm, ObserveNext, Settle, Derive, Persist, Run, connect,
        SendLease, execute, observe, ObserveRunning, Refused, Record
  <1>2. ASSUME FaultStep PROVE UNCHANGED broken \/ broken' = TRUE
    BY <1>2 DEF FaultStep, ConnectFails, StreamBreaks, ControllerCrash, Tick, AgentCrash
  <1>3. ASSUME NEW c \in Met, AgentStep(c) PROVE UNCHANGED broken BY <1>3 DEF AgentStep
  <1>4. ASSUME \/ AdvanceGeneration \/ UpdateBinding \/ Expire \/ AgentOpen \/ UNCHANGED vars
               \/ \E k \in Controllers, kind \in {"realm", "history"} : Request(k, kind)
        PROVE  UNCHANGED broken
    BY <1>4 DEF AdvanceGeneration, UpdateBinding, Request, Expire, AgentOpen, control, vars
  <1>5. UNCHANGED broken \/ broken' = TRUE BY <1>1, <1>2, <1>3, <1>4 DEF Next
  <1> QED BY <1>5

\* Every step keeps superseded commands out.
LEMMA KeptNext ==
  ASSUME Sequenced, Kept, [Next]_vars
  PROVE  Kept'
  <1> SUFFICES ASSUME ~broken' PROVE Awaited' /\ Excluded' BY DEF Kept
  <1>1. ~broken BY BrokenStays DEF Sequenced, Core
  <1>2. Awaited /\ Excluded BY <1>1 DEF Kept
  <1> QED BY <1>2, AwaitedNext, ExcludedNext

\* A command that was superseded is not admitted, then or later, as long as no
\* stream broke while its reply was awaited: the answer that it is unknown was
\* given under a token later than every dispatch of it.
THEOREM SupersededStaysOut == Spec => []SupersededNotAdmitted
  <1>1. Init => Kept BY KeptInit
  <1>2. Sequenced /\ Ordered /\ Kept /\ [Next]_vars => Kept' BY KeptNext
  <1>3. Kept => SupersededNotAdmitted BY DEF Kept, Excluded, Out, SupersededNotAdmitted
  <1> QED BY <1>1, <1>2, <1>3, OrderedAlways, PTL DEF Spec
=============================================================================
