-------------------------- MODULE PlacementProofs --------------------------
(***************************************************************************)
(* Two results about creates, for every number of providers, servers and    *)
(* requests.  An allocation is committed only where there is room for it: a *)
(* candidate's generation stands for all that was read of its provider.     *)
(* And a live server keeps the capacity its row names while equal requests  *)
(* race for it, and none of it stays taken without a row that names it: all *)
(* that have settled have settled on the one allocation there is.           *)
(***************************************************************************)
EXTENDS LedgerProofs

\* The functions that hold the providers, the allocations and the requests.
Shape ==
    /\ DOMAIN state = Providers
    /\ DOMAIN total = Providers
    /\ DOMAIN used = Providers
    /\ gen \in [Providers -> Nat]
    /\ DOMAIN alloc = Servers
    /\ DOMAIN pc = Requests
    /\ DOMAIN mem = Requests

\* What a request has picked is a provider and a generation that provider had.
Past(c, g) == c.provider \in Providers /\ c.gen \in Nat /\ c.gen <= g[c.provider]

\* Where a request has picked a provider.
Picked == {"check", "provider", "commit", "settle", "abandon", "drop"}

Seen ==
    \A r \in Requests :
        /\ \A c \in mem[r].candidates : Past(c, gen)
        /\ pc[r] \in Picked => Past(mem[r].pick, gen)

\* While the generation is the one that was read, so is what it was read with.
Fence == \A r \in Requests : At(r, "commit") /\ Unchanged(r) => MayAllocate(r)

FInv == Shape /\ Seen /\ Fence

\* Writes of the providers: each provider keeps all it has, or counts up.
Bumps ==
    /\ DOMAIN state' = Providers
    /\ DOMAIN total' = Providers
    /\ DOMAIN used' = Providers
    /\ gen' \in [Providers -> Nat]
    /\ \A p \in Providers :
          \/ gen'[p] > gen[p]
          \/ /\ gen'[p] = gen[p]
             /\ state'[p] = state[p] /\ total'[p] = total[p] /\ used'[p] = used[p]

\* A request goes from one place to another, keeping what it has picked, and is
\* not sent to the commit by it.
Moves(r) ==
    /\ DOMAIN pc' = Requests
    /\ DOMAIN mem' = Requests
    /\ \A q \in Requests \ {r} : pc'[q] = pc[q] /\ mem'[q] = mem[q]
    /\ mem'[r].candidates \subseteq mem[r].candidates
    /\ pc'[r] # "commit"
    /\ pc'[r] \in Picked => Past(mem'[r].pick, gen)

\* Generations only grow: what was seen stays past, and a fence either still
\* stands for what it stood for or does not hold any more.
LEMMA BumpsKeep ==
  ASSUME FInv, Bumps, UNCHANGED requests, DOMAIN alloc' = Servers
  PROVE  FInv'
<1>1. Shape'
  BY DEF FInv, Shape, Bumps, requests
<1>2. Seen'
  BY DEF FInv, Shape, Bumps, Seen, Past, requests
<1>3. Fence'
  BY DEF FInv, Shape, Bumps, Seen, Past, Fence, At, Unchanged, MayAllocate, Available, S,
         requests, Picked
<1>. QED BY <1>1, <1>2, <1>3 DEF FInv

\* The same while one request moves.
LEMMA BumpsAndMoves ==
  ASSUME FInv, Bumps, DOMAIN alloc' = Servers, NEW r \in Requests, Moves(r)
  PROVE  FInv'
<1>1. Shape'
  BY DEF FInv, Shape, Bumps, Moves
<1>2. Seen'
  BY DEF FInv, Shape, Bumps, Moves, Seen, Past
<1>3. Fence'
  <2>. SUFFICES ASSUME NEW q \in Requests, At(q, "commit")', Unchanged(q)'
                PROVE  MayAllocate(q)'
    BY DEF Fence
  <2>1. q # r /\ pc'[q] = pc[q] /\ mem'[q] = mem[q]
    BY DEF Moves, At
  <2>. QED
    BY <2>1 DEF FInv, Shape, Bumps, Seen, Past, Fence, At, Unchanged, MayAllocate, Available, S,
                Picked
<1>. QED BY <1>1, <1>2, <1>3 DEF FInv

\* A step that leaves the providers alone does not count one down.
LEMMA Still ==
  ASSUME FInv, UNCHANGED provider
  PROVE  Bumps
BY DEF FInv, Shape, Bumps, provider

\* A step from one place of the request's code to another.
LEMMA GotoMoves ==
  ASSUME FInv, NEW r \in Requests, NEW place, Goto(r, place), place # "commit",
         place \in Picked => pc[r] \in Picked
  PROVE  Moves(r)
BY DEF FInv, Shape, Seen, Goto, Moves, Picked

\* A request that ends only forgets what it read.
LEMMA DoneMoves ==
  ASSUME FInv, NEW r \in Requests, Done(r)
  PROVE  Moves(r)
BY DEF FInv, Shape, Done, Moves, NoMemory, Memory, Picked

\* A request that decides only forgets what it read.
LEMMA DecideMoves ==
  ASSUME FInv, NEW r \in Requests, NEW p, Decide(r, p)
  PROVE  Moves(r)
BY DEF FInv, Shape, Decide, Moves, Memory, Picked

\* Giving back an allocation counts its provider up.
LEMMA ReleaseBumps ==
  ASSUME FInv, NEW p, NEW s \in Servers, release_allocation(p, s)
  PROVE  Bumps /\ DOMAIN alloc' = Servers
<1>1. CASE alloc[s] = p /\ p \in Providers
  BY <1>1 DEF FInv, Shape, Bumps, release_allocation
<1>2. CASE alloc[s] = p /\ p \notin Providers
  BY <1>2 DEF FInv, Shape, Bumps, release_allocation
<1>3. CASE alloc[s] # p
  BY <1>3 DEF FInv, Shape, Bumps, release_allocation
<1>. QED BY <1>1, <1>2, <1>3

\* The steps of a create before it has decided where to go.
LEMMA SchedulingKeeps ==
  ASSUME FInv, NEW r \in Requests,
         \/ Identify(r) \/ Probe(r) \/ Lookup(r) \/ ReadProviders(r) \/ BeginIntent(r)
         \/ CheckIntent(r) \/ ReadProvider(r)
  PROVE  FInv'
<1>. S(r) \in Servers
  BY RequestsAssumption DEF S
<1>0. CASE Identify(r) \/ Probe(r)
  <2>1. Moves(r)
    <3>1. CASE Identify(r)
      BY <3>1 DEF FInv, Shape, Identify, Moves, Picked
    <3>2. CASE Probe(r)
      BY <3>2, DoneMoves, GotoMoves DEF Probe, Picked
    <3>. QED BY <1>0, <3>1, <3>2
  <2>2. UNCHANGED provider /\ UNCHANGED alloc
    BY <1>0 DEF Identify, Probe, ledger
  <2>. QED BY <2>1, <2>2, Still, BumpsAndMoves DEF FInv, Shape
<1>1. CASE Lookup(r)
  <2>1. Moves(r)
    BY <1>1, DoneMoves DEF FInv, Shape, Lookup, Moves, Memory, Picked
  <2>2. UNCHANGED provider /\ UNCHANGED alloc
    BY <1>1 DEF Lookup, ledger
  <2>. QED BY <2>1, <2>2, Still, BumpsAndMoves DEF FInv, Shape
<1>2. CASE ReadProviders(r)
  <2>1. UNCHANGED provider /\ UNCHANGED alloc
    BY <1>2 DEF ReadProviders, ledger
  <2>2. Shape'
    BY <1>2, <2>1 DEF FInv, Shape, ReadProviders, provider, Memory, Picked
  <2>3. Seen'
    BY <1>2, <2>1 DEF FInv, Shape, Seen, Past, ReadProviders, provider, Memory, Picked
  <2>4. Fence'
    BY <1>2, <2>1 DEF FInv, Shape, Fence, ReadProviders, At, Unchanged, MayAllocate, Available, S,
                      provider, Memory, Picked
  <2>. QED BY <2>2, <2>3, <2>4 DEF FInv
<1>3. CASE BeginIntent(r)
  <2>1. UNCHANGED provider /\ UNCHANGED alloc
    BY <1>3 DEF BeginIntent, ledger
  <2>2. CASE Goto(r, "reobserve")
    BY <2>1, <2>2, GotoMoves, Still, BumpsAndMoves DEF FInv, Shape, Picked
  <2>3. ASSUME NEW c \in Best(r),
               pc' = [pc EXCEPT ![r] =
                   IF intent[S(r)] \in {None, c.provider} THEN "check" ELSE "reobserve"],
               mem' = [mem EXCEPT ![r] = Memory(mem[r].life, mem[r].selected,
                   mem[r].candidates \ {c}, [provider |-> c.provider, gen |-> c.gen], None)]
        PROVE  FInv'
    <3>1. c \in mem[r].candidates
      BY DEF Best
    <3>2. Moves(r)
      BY <3>1, <2>3 DEF FInv, Shape, Seen, Past, Moves, Memory, Picked
    <3>. QED BY <2>1, <3>2, Still, BumpsAndMoves DEF FInv, Shape
  <2>. QED BY <1>3, <2>2, <2>3 DEF BeginIntent
<1>4. CASE CheckIntent(r)
  <2>1. UNCHANGED provider /\ UNCHANGED alloc
    BY <1>4 DEF CheckIntent, ledger
  <2>2. CASE Goto(r, "provider")
    BY <1>4, <2>1, <2>2, GotoMoves, Still, BumpsAndMoves DEF FInv, Shape, CheckIntent, At, Picked
  <2>3. CASE Goto(r, "reobserve")
    BY <2>1, <2>3, GotoMoves, Still, BumpsAndMoves DEF FInv, Shape, Picked
  <2>. QED BY <1>4, <2>2, <2>3 DEF CheckIntent
<1>5. CASE ReadProvider(r)
  <2>1. UNCHANGED provider /\ UNCHANGED alloc
    BY <1>5 DEF ReadProvider, ledger
  <2>2. CASE Goto(r, "settle")
    BY <1>5, <2>1, <2>2, GotoMoves, Still, BumpsAndMoves DEF FInv, Shape, ReadProvider, At, Picked
  <2>3. CASE Goto(r, "abandon")
    BY <1>5, <2>1, <2>3, GotoMoves, Still, BumpsAndMoves DEF FInv, Shape, ReadProvider, At, Picked
  <2>4. CASE Goto(r, "commit") /\ MayAllocate(r)
    <3>1. Shape'
      BY <2>1, <2>4 DEF FInv, Shape, Goto, provider
    <3>2. Seen'
      BY <1>5, <2>1, <2>4 DEF FInv, Shape, Seen, Past, Goto, ReadProvider, At, provider, Picked
    <3>3. Fence'
      BY <2>1, <2>4 DEF FInv, Shape, Fence, Goto, At, Unchanged, MayAllocate, Available, S,
                        provider
    <3>. QED BY <3>1, <3>2, <3>3 DEF FInv
  <2>. QED BY <1>5, <2>2, <2>3, <2>4 DEF ReadProvider
<1>. QED BY <1>0, <1>1, <1>2, <1>3, <1>4, <1>5

\* The commit counts its provider up, which it knows from the candidate.
LEMMA CommitBumps ==
  ASSUME FInv, NEW p \in Providers, NEW s \in Servers, Commit(p, s)
  PROVE  Bumps /\ DOMAIN alloc' = Servers
BY DEF FInv, Shape, Bumps, Commit

\* The commit keeps the fence invariant: it is taken at the generation that was read.
LEMMA CommitKeeps ==
  ASSUME FInv, NEW r \in Requests, commit_allocation(r)
  PROVE  FInv'
<1>. S(r) \in Servers
  BY RequestsAssumption DEF S
<1>. At(r, "commit") /\ pc[r] \in Picked
  BY DEF commit_allocation, At, Picked
<1>. DEFINE p == mem[r].pick.provider
<1>1. p \in Providers
  BY DEF FInv, Seen, Past
<1>2. CASE UNCHANGED ledger
  <2>1. UNCHANGED provider /\ UNCHANGED alloc
    BY <1>2 DEF ledger
  <2>2. \/ Goto(r, "settle") \/ Goto(r, "reobserve") \/ Goto(r, "abandon")
    BY DEF commit_allocation
  <2>3. Moves(r)
    BY <2>2, GotoMoves DEF Picked
  <2>. QED BY <2>1, <2>3, Still, BumpsAndMoves DEF FInv, Shape
<1>3. CASE Commit(p, S(r)) /\ Goto(r, "settle")
  <2>1. Moves(r)
    BY <1>3, GotoMoves DEF Picked
  <2>. QED BY <1>1, <1>3, <2>1, CommitBumps, BumpsAndMoves
<1>. QED BY <1>2, <1>3 DEF commit_allocation

\* The steps of a create after the commit, and its death.
LEMMA PersistingKeeps ==
  ASSUME FInv, NEW r \in Requests,
         \/ Settle(r) \/ Abandon(r) \/ Drop(r) \/ Reobserve(r) \/ Reserve(r) \/ Persist(r)
         \/ Accept(r) \/ Observe(r) \/ ObserveReplay(r) \/ Answer(r) \/ Drive(r) \/ Release(r)
         \/ Unreserve(r) \/ Crash(r)
  PROVE  FInv'
<1>. S(r) \in Servers
  BY RequestsAssumption DEF S
<1>1. Moves(r)
  <2>1. CASE Settle(r) \/ Reobserve(r)
    BY <2>1, DecideMoves, DoneMoves DEF Settle, Reobserve
  <2>2. CASE Abandon(r)
    <3>1. pc[r] \in Picked
      BY <2>2 DEF Abandon, At, Picked
    <3>. QED BY <2>2, <3>1, GotoMoves DEF Abandon
  <2>3. CASE Drop(r)
    BY <2>3, GotoMoves DEF Drop, Picked
  <2>4. CASE ~(Settle(r) \/ Reobserve(r) \/ Abandon(r) \/ Drop(r))
    <3>1. \/ Done(r)
          \/ \E place \in {"undo", "persist", "observe", "replay", "answer", "drive", "release",
                            "giveback", "unreserve"} : Goto(r, place)
      BY <2>4 DEF Reserve, Persist, Accept, Observe, ObserveReplay, Answer, Drive, Release,
                  Unreserve, Crash
    <3>. QED BY <3>1, GotoMoves, DoneMoves DEF Picked
  <2>. QED BY <2>1, <2>2, <2>3, <2>4
<1>2. CASE Release(r)
  BY <1>1, <1>2, ReleaseBumps, BumpsAndMoves DEF Release
<1>3. CASE ~Release(r)
  <2>1. UNCHANGED provider /\ UNCHANGED alloc
    BY <1>3, Zenon DEF Settle, Abandon, Drop, Reobserve, Reserve, Persist, Accept, Observe,
                       ObserveReplay, Answer, Drive, Unreserve, Crash, ledger
  <2>. QED BY <1>1, <2>1, Still, BumpsAndMoves DEF FInv, Shape
<1>. QED BY <1>2, <1>3

\* Deletes, reports, gates and the startup pass leave the requests alone.
LEMMA OthersKeep ==
  ASSUME FInv,
         \/ \E s \in Servers : DeleteStep(s)
         \/ \E p \in Providers : ProviderStep(p)
         \/ ListConsumers
         \/ reconcile_consumers
  PROVE  FInv'
<1>1. ASSUME NEW s \in Servers, ReleaseDeleted(s)
      PROVE  FInv'
  BY <1>1, ReleaseBumps, BumpsKeep DEF ReleaseDeleted
<1>2. ASSUME NEW s \in Servers, BeginDelete(s) \/ Terminalize(s) \/ UnreserveDeleted(s)
      PROVE  FInv'
  <2>1. UNCHANGED <<provider, alloc, requests>>
    BY <1>2, Zenon DEF BeginDelete, Terminalize, UnreserveDeleted, ledger
  <2>. QED BY <2>1, Still, BumpsKeep DEF FInv, Shape
<1>3. ASSUME NEW p \in Providers, Publish(p)
      PROVE  FInv'
  <2>1. Bumps /\ UNCHANGED <<alloc, requests>>
    BY <1>3 DEF FInv, Shape, Bumps, Publish, sync_provider
  <2>. QED BY <2>1, BumpsKeep DEF FInv, Shape
<1>4. ASSUME NEW p \in Providers, Operate(p)
      PROVE  FInv'
  <2>1. Bumps /\ UNCHANGED <<alloc, requests>>
    BY <1>4 DEF FInv, Shape, Bumps, Operate, SetState
  <2>. QED BY <2>1, BumpsKeep DEF FInv, Shape
<1>5. ASSUME NEW p \in Providers, AgentChanges(p) \/ PublishRead(p)
      PROVE  FInv'
  <2>1. UNCHANGED <<provider, alloc, requests>>
    BY <1>5, Zenon DEF AgentChanges, PublishRead, ledger
  <2>. QED BY <2>1, Still, BumpsKeep DEF FInv, Shape
<1>6. CASE ListConsumers
  <2>1. UNCHANGED <<provider, alloc, requests>>
    BY <1>6, Zenon DEF ListConsumers, ledger
  <2>. QED BY <2>1, Still, BumpsKeep DEF FInv, Shape
<1>7. CASE reconcile_consumers
  <2>1. Bumps
    BY <1>7 DEF FInv, Shape, Bumps, reconcile_consumers
  <2>2. UNCHANGED requests /\ DOMAIN alloc' = Servers
    BY <1>7 DEF reconcile_consumers
  <2>. QED BY <2>1, <2>2, BumpsKeep
<1>. QED BY <1>1, <1>2, <1>3, <1>4, <1>5, <1>6, <1>7 DEF DeleteStep, ProviderStep

\* The fence invariant holds at the start.
LEMMA FInvInit == ASSUME Init PROVE FInv
BY DEF Init, FInv, Shape, Seen, Fence, At, NoMemory, Memory, Picked

\* Every step keeps it.
LEMMA FInvNext == ASSUME FInv, [Next]_vars PROVE FInv'
<1>1. ASSUME NEW r \in Requests, CreateStep(r) \/ Crash(r) PROVE FInv'
  BY <1>1, SchedulingKeeps, CommitKeeps, PersistingKeeps DEF CreateStep
<1>2. CASE UNCHANGED vars
  <2>1. UNCHANGED <<provider, alloc, requests>>
    BY <1>2 DEF vars, ledger
  <2>. QED BY <2>1, Still, BumpsKeep DEF FInv, Shape
<1>. QED BY <1>1, <1>2, OthersKeep DEF Next

\* Whatever a request has picked, it has seen; while the provider's generation is
\* the one it was read with, so are its state and its room
\* (crates/o3k-placement/src/lib.rs, allocate).
THEOREM CandidatesFenced == Spec => []FInv
<1>1. Init => FInv
  BY FInvInit
<1>2. FInv /\ [Next]_vars => FInv'
  BY FInvNext
<1>. QED BY <1>1, <1>2, PTL DEF Spec

\* Only the commit makes an allocation.
Fits ==
    \A s \in Servers : alloc[s] = None /\ alloc'[s] # None =>
        state[alloc'[s]] = "Enabled" /\ Available(alloc'[s]) >= Size[s]

\* Every step that allocates fits the provider it allocates on.
LEMMA NextFits == ASSUME FInv, [Next]_vars PROVE Fits
<1>1. CASE UNCHANGED alloc
  BY <1>1 DEF Fits
<1>2. ASSUME NEW s \in Servers, NEW p, release_allocation(p, s) PROVE Fits
  BY <1>2 DEF Fits, release_allocation, FInv, Shape
<1>3. CASE reconcile_consumers
  BY <1>3 DEF Fits, reconcile_consumers
<1>4. ASSUME NEW r \in Requests, commit_allocation(r), ~UNCHANGED alloc PROVE Fits
  <2>. S(r) \in Servers
    BY RequestsAssumption DEF S
  <2>. DEFINE p == mem[r].pick.provider
  <2>1. At(r, "commit") /\ Unchanged(r) /\ Commit(p, S(r))
    BY <1>4 DEF commit_allocation, ledger
  <2>2. MayAllocate(r)
    BY <2>1 DEF FInv, Fence
  <2>. QED BY <2>1, <2>2 DEF Fits, MayAllocate, Commit, FInv, Shape
<1>5. ASSUME NEW r \in Requests, CreateStep(r) \/ Crash(r) PROVE Fits
  <2>. S(r) \in Servers
    BY RequestsAssumption DEF S
  <2>1. CASE Release(r)
    BY <1>2, <2>1 DEF Release
  <2>2. CASE ~Release(r) /\ ~commit_allocation(r)
    <3>1. UNCHANGED alloc
      BY <1>5, <2>2, Zenon DEF CreateStep, Identify, Probe, Lookup, ReadProviders, BeginIntent,
            CheckIntent, ReadProvider, Settle, Abandon, Drop, Reobserve, Reserve, Persist, Accept,
            Observe, ObserveReplay, Answer, Drive, Unreserve, Crash, ledger
    <3>. QED BY <3>1, <1>1
  <2>. QED BY <1>1, <1>4, <2>1, <2>2
<1>6. ASSUME NEW s \in Servers, DeleteStep(s) PROVE Fits
  <2>1. CASE ReleaseDeleted(s)
    BY <1>2, <2>1 DEF ReleaseDeleted
  <2>2. CASE ~ReleaseDeleted(s)
    <3>1. UNCHANGED alloc
      BY <1>6, <2>2, Zenon DEF DeleteStep, BeginDelete, Terminalize, UnreserveDeleted, ledger
    <3>. QED BY <3>1, <1>1
  <2>. QED BY <2>1, <2>2
<1>7. ASSUME NEW p \in Providers, ProviderStep(p) PROVE Fits
  <2>1. UNCHANGED alloc
    BY <1>7, Zenon DEF ProviderStep, AgentChanges, PublishRead, Publish, Operate, sync_provider,
                       SetState, ledger
  <2>. QED BY <2>1, <1>1
<1>8. CASE ListConsumers \/ UNCHANGED vars
  <2>1. UNCHANGED alloc
    BY <1>8, Zenon DEF ListConsumers, vars, ledger
  <2>. QED BY <2>1, <1>1
<1>. QED BY <1>3, <1>5, <1>6, <1>7, <1>8 DEF Next

\* commit_allocation checks the generation and nothing else; yet an allocation
\* appears only on a provider that is open and has room for it then.
THEOREM CommitsFitAlways == Spec => CommitsFit
<1>1. FInv /\ [Next]_vars => [Fits]_vars
  BY NextFits
<1>. QED BY <1>1, CandidatesFenced, PTL DEF Spec, CommitsFit, Fits

-----------------------------------------------------------------------------

\* The requests for a server.
Of(s) == {r \in Requests : S(r) = s}

\* No other request for the same server is still to be answered.
Alone(r) == \A q \in Of(S(r)) \ {r} : pc[q] = "done"

\* The provider a request has settled on.
Chosen == {"settle", "reserve", "persist", "observe", "replay", "drive"}
Choice(r) == IF pc[r] = "settle" THEN mem[r].pick.provider ELSE mem[r].decision

\* Where a request will name its choice in a row, or give it back.
Holding == {"settle", "reserve", "persist", "observe", "replay", "release", "giveback", "undo"}

\* An undisturbed server is in its first life, and has a row before its key is
\* reserved or a request has found it taken.
FirstLife(s) ==
    /\ row[s].state # "deleted"
    /\ row[s].life = IF row[s].state = "none" THEN 0 ELSE 1
    /\ del[s].pc = "none"
    /\ reserved[s] # None => row[s].state # "none"
    /\ \A r \in Of(s) : InFlight(r) => mem[r].life = 0
    /\ \A r \in Of(s) : pc[r] \in {"observe", "replay"} => row[s].state # "none"
    /\ \A r \in Of(s) : pc[r] \in Chosen => Choice(r) # None

\* Until its create fails, all its requests have settled on the allocation there
\* is, and capacity is given back only by the last request, before there is a row.
Calm(s) ==
    /\ \A r \in Of(s) : pc[r] \in Chosen =>
          \/ alloc[s] = Choice(r)
          \/ alloc[s] = None /\ row[s].state = "none" /\ Alone(r)
    /\ \A r \in Of(s) : pc[r] \notin {"release", "giveback"}
    /\ \A r \in Of(s) : pc[r] = "undo" => row[s].state = "none" /\ Alone(r)
    /\ row[s].state # "none" => alloc[s] = row[s].provider /\ alloc[s] # None

\* Its allocation is named by its row, or by a request that will name it or give
\* it back.
Named(s) == row[s].state # "none" /\ row[s].provider = alloc[s]

Accounted(s) ==
    alloc[s] # None =>
        \/ Named(s)
        \/ \E r \in Of(s) : pc[r] \in Holding /\ Choice(r) = alloc[s]

Good(s) ==
    /\ FirstLife(s)
    /\ row[s].state # "error" => Calm(s)
    /\ ~crashed => Accounted(s)

\* A request has a body before it asks for it, and remembers nothing before it is one.
Asked == \A r \in Requests : IF InFlight(r) THEN ask[r].body # None ELSE mem[r].life = 0

BInv == TInv /\ FInv /\ Asked /\ \A s \in Servers \ disturbed : Good(s)

-----------------------------------------------------------------------------
\* What a server's part of the invariant is about.
Kept(s) ==
    /\ row'[s] = row[s] /\ alloc'[s] = alloc[s] /\ del'[s] = del[s]
    /\ reserved'[s] = reserved[s]
    /\ crashed => crashed'

\* A server stays well accounted while its row, its allocation and its requests stay.
LEMMA GoodKept ==
  ASSUME NEW s \in Servers, Good(s), Kept(s), \A r \in Of(s) : pc'[r] = pc[r] /\ mem'[r] = mem[r]
  PROVE  Good(s)'
<1>1. FirstLife(s)'
  BY DEF Good, Kept, FirstLife, Of, InFlight, S, Choice
<1>2. row'[s].state # "error" => Calm(s)'
  <2>1. \A r \in Of(s) : Choice(r)' = Choice(r) /\ (Alone(r) => Alone(r)')
    BY DEF Choice, Alone, Of, S
  <2>. QED BY <2>1 DEF Good, Kept, Calm, Of, S
<1>3. ~crashed' => Accounted(s)'
  <2>1. \A r \in Of(s) : Choice(r)' = Choice(r)
    BY DEF Choice, Of, S
  <2>. QED BY <2>1 DEF Good, Kept, Accounted, Named, Of, S
<1>. QED BY <1>1, <1>2, <1>3 DEF Good

\* Only request r moves.
Only(r) == \A q \in Requests \ {r} : pc'[q] = pc[q] /\ mem'[q] = mem[q]

Early == {"new", "lookup", "read", "intent", "check", "provider", "commit", "abandon", "drop", "reobserve"}

\* A request that has not settled moves without writing anything the invariant is
\* about: it settles, if at all, on the allocation there is.
LEMMA EarlyMove ==
  ASSUME NEW r \in Requests, NEW s, s = S(r), Good(s), Kept(s), Only(r),
         pc[r] \in Early,
         pc'[r] \in Early \cup {"settle", "reserve", "done"},
         pc'[r] \in {"settle", "reserve"} => Choice(r)' = alloc[s] /\ alloc[s] # None,
         InFlight(r)' => mem'[r].life = 0
  PROVE  Good(s)'
<1>1. FirstLife(s)'
  BY DEF Good, Kept, FirstLife, Only, Of, InFlight, S, Early, Chosen, Choice
<1>2. r \in Of(s) /\ pc[r] # "done" /\ \A q \in Of(s) \ {r} : ~Alone(q) /\ Choice(q)' = Choice(q)
  BY DEF Alone, Of, S, Early, Choice, Only
<1>3. row'[s].state # "error" => Calm(s)'
  BY <1>2 DEF Good, Kept, Calm, Only, Of, S, Early, Chosen
<1>4. ~crashed' => Accounted(s)'
  BY <1>2 DEF Good, Kept, Accounted, Named, Holding, Only, Of, S, Early
<1>. QED BY <1>1, <1>3, <1>4 DEF Good

\* Going on to another place concerns the one request.
LEMMA GotoOnly ==
  ASSUME TInv, NEW r \in Requests, NEW place, Goto(r, place)
  PROVE  Only(r) /\ pc'[r] = place /\ mem'[r] = mem[r]
BY DEF TInv, RequestType, Goto, Only

\* Ending concerns the one request.
LEMMA DoneOnly ==
  ASSUME TInv, NEW r \in Requests, Done(r)
  PROVE  Only(r) /\ pc'[r] = "done"
BY DEF TInv, RequestType, Done, Only

\* Deciding concerns the one request.
LEMMA DecideOnly ==
  ASSUME TInv, NEW r \in Requests, NEW p, Decide(r, p)
  PROVE  Only(r) /\ pc'[r] = "reserve" /\ mem'[r].decision = p /\ mem'[r].life = mem[r].life
BY DEF TInv, RequestType, Decide, Only, Memory

\* The steps before a request settles, but for the commit that allocates.
LEMMA EarlySteps ==
  ASSUME BInv, NEW r \in Requests, Good(S(r)),
         \/ Identify(r) \/ Probe(r) \/ Lookup(r) \/ ReadProviders(r) \/ BeginIntent(r)
         \/ CheckIntent(r) \/ ReadProvider(r) \/ Abandon(r) \/ Drop(r) \/ Reobserve(r)
         \/ (commit_allocation(r) /\ UNCHANGED ledger)
  PROVE  Good(S(r))' /\ Only(r)
<1>. DEFINE s == S(r)
<1>0. s \in Servers /\ r \in Of(s)
  BY RequestsAssumption DEF S, Of
<1>1. Kept(s)
  <2>1. UNCHANGED <<row, alloc, reserved, del, crashed>>
    BY Zenon DEF Identify, Probe, Lookup, ReadProviders, BeginIntent, CheckIntent, ReadProvider,
                 Abandon, Drop, Reobserve, commit_allocation, ledger, rows
  <2>. QED BY <2>1 DEF Kept
<1>2. pc[r] \in Early
  BY DEF Identify, Probe, Lookup, ReadProviders, BeginIntent, CheckIntent, ReadProvider, Abandon, Drop, Reobserve,
         commit_allocation, At, Early
<1>3. /\ Only(r)
      /\ pc'[r] \in Early \cup {"settle", "reserve", "done"}
      /\ pc'[r] \in {"settle", "reserve"} => Choice(r)' = alloc[s] /\ alloc[s] # None
      /\ InFlight(r)' => mem'[r].life = 0
  <2>0. InFlight(r) => mem[r].life = 0
    BY <1>0 DEF Good, FirstLife
  <2>7. CASE Identify(r)
    <3>1. mem[r].life = 0
      BY <2>7 DEF Identify, At, BInv, Asked, InFlight
    <3>. QED BY <2>7, <3>1 DEF Identify, BInv, TInv, RequestType, Only, Early
  <2>8. CASE Probe(r)
    <3>1. mem[r].life = 0
      BY <2>0, <2>8 DEF Probe, At, InFlight
    <3>2. Done(r) \/ Goto(r, "read")
      BY <2>8 DEF Probe
    <3>. QED BY <3>1, <3>2, GotoOnly, DoneOnly DEF BInv, Early, InFlight
  <2>1. CASE Lookup(r)
    <3>1. CASE Done(r)
      BY <3>1, DoneOnly DEF BInv, InFlight
    <3>2. CASE ~Done(r)
      <4>1. /\ pc' = [pc EXCEPT ![r] = "read"]
            /\ mem' = [mem EXCEPT ![r] = Memory(row[s].life, {}, {}, NoPick, None)]
            /\ row[s].state \in {"none", "deleted"}
        BY <2>1, <3>2 DEF Lookup
      <4>2. row[s].life = 0
        BY <4>1 DEF Good, FirstLife
      <4>. QED BY <4>1, <4>2 DEF BInv, TInv, RequestType, Only, Memory, Early
    <3>. QED BY <3>1, <3>2
  <2>2. CASE ReadProviders(r)
    BY <2>0, <2>2 DEF ReadProviders, BInv, TInv, RequestType, Only, Memory, Early, InFlight, At
  <2>3. CASE BeginIntent(r)
    <3>1. CASE Goto(r, "reobserve")
      BY <2>0, <2>3, <3>1, GotoOnly DEF BeginIntent, BInv, Early, InFlight, At
    <3>2. ASSUME NEW c,
               pc' = [pc EXCEPT ![r] =
                   IF intent[S(r)] \in {None, c.provider} THEN "check" ELSE "reobserve"],
               mem' = [mem EXCEPT ![r] = Memory(mem[r].life, mem[r].selected,
                   mem[r].candidates \ {c}, [provider |-> c.provider, gen |-> c.gen], None)]
          PROVE  <1>3!1 /\ <1>3!2 /\ <1>3!3 /\ <1>3!4
      BY <2>0, <2>3, <3>2 DEF BeginIntent, BInv, TInv, RequestType, Only, Memory, Early, InFlight, At
    <3>. QED BY <2>3, <3>1, <3>2 DEF BeginIntent
  <2>4. CASE CheckIntent(r) \/ Abandon(r) \/ Drop(r)
    <3>1. \E place \in {"provider", "reobserve", "intent", "drop"} : Goto(r, place)
      BY <2>4 DEF CheckIntent, Abandon, Drop
    <3>2. mem[r].life = 0
      BY <2>0, <2>4 DEF CheckIntent, Abandon, Drop, At, InFlight
    <3>. QED BY <3>1, <3>2, GotoOnly DEF BInv, Early
  <2>5. CASE ReadProvider(r) \/ commit_allocation(r)
    <3>0. ASSUME Commit(mem[r].pick.provider, s) PROVE alloc[s] = mem[r].pick.provider
      BY <1>0, <1>1, <3>0 DEF Commit, Kept, BInv, TInv, LedgerType
    <3>1. \/ Goto(r, "settle") /\ alloc[s] = mem[r].pick.provider
          \/ \E place \in {"commit", "abandon", "reobserve"} : Goto(r, place)
      <4>1. CASE ReadProvider(r)
        BY <4>1 DEF ReadProvider
      <4>2. CASE commit_allocation(r)
        BY <3>0, <4>2 DEF commit_allocation
      <4>. QED BY <2>5, <4>1, <4>2
    <3>2. mem[r].life = 0
      BY <2>0, <2>5 DEF ReadProvider, commit_allocation, At, InFlight
    <3>3. mem[r].pick.provider # None
      BY <2>5, NoneAssumption DEF ReadProvider, commit_allocation, At, BInv, FInv, Seen, Past, Picked
    <3>. QED BY <3>1, <3>2, <3>3, GotoOnly DEF BInv, Early, Choice
  <2>6. CASE Reobserve(r)
    <3>1. mem[r].life = 0
      BY <2>0, <2>6 DEF Reobserve, At, InFlight
    <3>2. (Decide(r, alloc[s]) /\ alloc[s] # None) \/ Done(r)
      BY <2>6, NoneAssumption DEF Reobserve, BInv, TInv, RequestType, Memories
    <3>. QED BY <3>1, <3>2, DecideOnly, DoneOnly DEF BInv, Choice, InFlight, Early
  <2>. QED BY <2>1, <2>2, <2>3, <2>4, <2>5, <2>6, <2>7, <2>8
<1>. QED BY <1>1, <1>2, <1>3, EarlyMove

\* A server is not shared when at most one request for it is unanswered.
LEMMA NotShared ==
  ASSUME NEW s, ~Shared(s), NEW r \in Of(s), pc[r] # "done"
  PROVE  Alone(r)
<1>. SUFFICES ASSUME NEW q \in Of(s) \ {r}, pc[q] # "done" PROVE FALSE
  BY DEF Alone, Of
<1>. DEFINE T == {x \in Requests : S(x) = s /\ pc[x] # "done"}
<1>1. IsFiniteSet(T) /\ Cardinality(T) \in Nat
  BY FiniteAssumption, FS_Subset, FS_CardinalityType
<1>2. {r} \cup {q} \in SUBSET T
  BY DEF Of
<1>3. Cardinality({r} \cup {q}) = 2
  <2>1. IsFiniteSet({r}) /\ Cardinality({r}) = 1 /\ q \notin {r}
    BY FS_Singleton
  <2>. QED BY <2>1, FS_AddElement
<1>4. Cardinality(T) > 1
  <2>. HIDE DEF T
  <2>. QED BY <1>1, <1>2, <1>3, FS_Subset
<1>. QED BY <1>4 DEF Shared

\* A request that is not answered is the reason why no other one is alone.
LEMMA Company ==
  ASSUME NEW r \in Requests, NEW s, s = S(r), pc[r] # "done"
  PROVE  r \in Of(s) /\ \A q \in Of(s) \ {r} : ~Alone(q)
BY DEF Of, Alone, S

\* The commit that allocates: a server without capacity has no request that
\* settled earlier, for that one would be alone.
LEMMA CommitGood ==
  ASSUME BInv, NEW r \in Requests, Good(S(r)), commit_allocation(r), ~UNCHANGED ledger
  PROVE  Good(S(r))' /\ Only(r)
<1>. DEFINE s == S(r)
            p == mem[r].pick.provider
<1>0. s \in Servers /\ pc[r] = "commit"
  BY RequestsAssumption DEF S, commit_allocation, At
<1>1. alloc[s] = None /\ Goto(r, "settle") /\ Commit(p, s) /\ UNCHANGED <<row, reserved, del>>
  BY DEF commit_allocation, rows
<1>2. p # None
  BY <1>0, NoneAssumption DEF BInv, FInv, Seen, Past, Picked
<1>3. alloc'[s] = p /\ Only(r) /\ pc'[r] = "settle" /\ mem'[r] = mem[r]
  BY <1>0, <1>1, GotoOnly DEF Commit, BInv, TInv, LedgerType
<1>4. r \in Of(s) /\ \A q \in Of(s) \ {r} : ~Alone(q) /\ Choice(q)' = Choice(q)
  BY <1>0, <1>3, Company DEF Only, Choice, Of, S
<1>5. Choice(r)' = p
  BY <1>3 DEF Choice
<1>6. FirstLife(s)'
  BY <1>0, <1>1, <1>2, <1>3, <1>4, <1>5 DEF Good, FirstLife, Only, Of, InFlight, S, Chosen
<1>7. row'[s].state # "error" => Calm(s)'
  <2>. SUFFICES ASSUME row[s].state # "error" PROVE Calm(s)'
    BY <1>1
  <2>1. \A q \in Of(s) \ {r} : pc[q] \notin Chosen
    BY <1>1, <1>4 DEF Good, Calm, FirstLife
  <2>2. row[s].state = "none"
    BY <1>1 DEF Good, Calm
  <2>. QED BY <1>0, <1>1, <1>3, <1>4, <1>5, <2>1, <2>2 DEF Good, Calm, Only, Of, S
<1>8. Accounted(s)'
  BY <1>3, <1>4, <1>5 DEF Accounted, Holding, Of, S
<1>. QED BY <1>3, <1>6, <1>7, <1>8 DEF Good

\* A request that has settled moves without writing anything the invariant is
\* about: it keeps its choice, or lets go of what the row names.
LEMMA LateMove ==
  ASSUME NEW r \in Requests, NEW s, s = S(r), Good(s), Kept(s), Only(r), InFlight(r),
         InFlight(r)' => mem'[r].life = 0,
         pc'[r] \in Chosen => pc[r] \in Chosen,
         pc'[r] \in Chosen \cup Holding => Choice(r)' = Choice(r),
         pc'[r] \in {"observe", "replay"} => row[s].state # "none",
         row[s].state # "error" => pc'[r] \notin {"release", "giveback"},
         pc'[r] = "undo" /\ row[s].state # "error" => row[s].state = "none" /\ Alone(r),
         \/ crashed' \/ pc[r] \notin Holding \/ pc'[r] \in Holding
         \/ alloc[s] = None \/ Named(s)
  PROVE  Good(s)'
<1>1. r \in Of(s) /\ \A q \in Of(s) \ {r} : ~Alone(q) /\ Choice(q)' = Choice(q)
  BY Company DEF InFlight, Only, Choice, Of
<1>2. FirstLife(s)'
  BY <1>1 DEF Good, Kept, FirstLife, Only, Of, InFlight, S
<1>3. row'[s].state # "error" => Calm(s)'
  <2>. SUFFICES ASSUME row[s].state # "error" PROVE Calm(s)'
    BY DEF Kept
  <2>1. Alone(r) => Alone(r)'
    BY DEF Alone, Only, Of, S
  <2>. QED BY <1>1, <2>1 DEF Good, Kept, Calm, Only, Of, S
<1>4. ~crashed' => Accounted(s)'
  BY <1>1 DEF Good, Kept, Accounted, Named, Only, Of, S
<1>. QED BY <1>2, <1>3, <1>4 DEF Good

\* A request that is about to write its row writes it: the allocation there is is
\* the one all that have settled have settled on, and the row names it.
LEMMA CreateGood ==
  ASSUME BInv, NEW r \in Requests, NEW s \in Servers, s = S(r), Good(s), Only(r),
         pc[r] = "persist", pc'[r] = "drive", mem'[r] = mem[r],
         row[s].state = "none", alloc[s] # None, row'[s] = Created(r),
         UNCHANGED <<alloc, del, crashed>>
  PROVE  Good(s)'
<1>1. r \in Of(s) /\ \A q \in Of(s) \ {r} : ~Alone(q) /\ Choice(q)' = Choice(q)
  BY Company DEF Only, Choice, Of
<1>2. Choice(r)' = Choice(r) /\ Choice(r) = mem[r].decision
  BY DEF Choice
<1>3. mem[r].life = 0
  BY <1>1 DEF Good, FirstLife, InFlight
<1>4. row'[s].state = "requested" /\ row'[s].life = 1 /\ row'[s].provider = mem[r].decision
  BY <1>3 DEF Created
<1>5. alloc[s] = mem[r].decision
  BY <1>1, <1>2 DEF Good, Calm, Chosen
<1>6. FirstLife(s)'
  BY <1>1, <1>2, <1>3, <1>4 DEF Good, FirstLife, Only, Of, InFlight, S, Chosen
<1>7. Calm(s)'
  BY <1>1, <1>2, <1>4, <1>5 DEF Good, Calm, Only, Of, S, Chosen
<1>8. Accounted(s)'
  BY <1>4, <1>5 DEF Accounted, Named
<1>. QED BY <1>6, <1>7, <1>8 DEF Good

\* The steps of a request that has settled and still goes forward.
LEMMA SettledGood ==
  ASSUME BInv, NEW r \in Requests, Good(S(r)), S(r) \notin disturbed',
         Settle(r) \/ Reserve(r) \/ Persist(r) \/ Accept(r)
  PROVE  Good(S(r))' /\ Only(r)
<1>. DEFINE s == S(r)
<1>0. s \in Servers /\ UNCHANGED <<alloc, del, crashed>>
  BY RequestsAssumption, Zenon DEF S, Settle, Reserve, Persist, Accept, ledger
<1>1. /\ r \in Of(s) /\ pc[r] \in {"settle", "reserve", "persist"}
      /\ pc[r] \in Chosen /\ pc[r] \in Holding /\ InFlight(r) /\ mem[r].life = 0
  <2>1. pc[r] \in {"settle", "reserve", "persist"} /\ r \in Of(s)
    BY DEF Settle, Reserve, Persist, Accept, At, Of
  <2>. QED BY <2>1 DEF InFlight, Good, FirstLife, Chosen, Holding
<1>2. CASE Settle(r)
  <2>1. Only(r) /\ pc[r] = "settle" /\ pc'[r] = "reserve" /\ mem'[r].decision = mem[r].pick.provider
        /\ mem'[r].life = 0 /\ UNCHANGED <<row, reserved>>
    BY <1>1, <1>2, DecideOnly DEF BInv, Settle, At, rows
  <2>2. Choice(r)' = Choice(r)
    BY <2>1 DEF Choice
  <2>. QED BY <1>0, <1>1, <2>1, <2>2, LateMove DEF Kept, Chosen, Holding
<1>3. CASE Reserve(r)
  <2>1. /\ pc[r] = "reserve" /\ UNCHANGED <<row, reserved>>
        /\ \/ Goto(r, "persist")
           \/ Goto(r, "undo") /\ ~Contended(s)
    BY <1>3 DEF Reserve, At, rows
  <2>2. Only(r) /\ mem'[r] = mem[r] /\ (pc'[r] = "persist" \/ (pc'[r] = "undo" /\ ~Contended(s)))
    BY <2>1, GotoOnly DEF BInv
  <2>3. Choice(r)' = Choice(r)
    BY <2>1, <2>2 DEF Choice
  <2>4. pc'[r] = "undo" => row[s].state = "none" /\ Alone(r)
    BY <1>1, <2>1, <2>2, NotShared DEF Contended
  <2>. QED BY <1>0, <1>1, <2>1, <2>2, <2>3, <2>4, LateMove DEF Kept, Chosen, Holding
<1>4. CASE Persist(r) \/ Accept(r)
  <2>0. pc[r] = "persist" /\ (row[s].state = "none" <=> row[s].life = 0)
    BY <1>4 DEF Persist, Accept, At, Good, FirstLife
  <2>1. CASE \/ Goto(r, "observe") /\ row[s].life # mem[r].life /\ UNCHANGED rows
             \/ Goto(r, "replay") /\ reserved[s] = ask[r].body /\ UNCHANGED rows
    <3>1. row[s].state # "none"
      <4>1. CASE row[s].life # mem[r].life
        BY <1>1, <2>0, <4>1
      <4>2. CASE Goto(r, "replay") /\ reserved[s] = ask[r].body
        <5>1. ask[r].body # None
          BY <1>1 DEF BInv, Asked
        <5>. QED BY <4>2, <5>1 DEF Good, FirstLife
      <4>. QED BY <2>1, <4>1, <4>2
    <3>2. Only(r) /\ pc'[r] \in {"observe", "replay"} /\ mem'[r] = mem[r] /\ UNCHANGED <<row, reserved>>
      BY <2>1, GotoOnly DEF BInv, rows
    <3>3. Choice(r)' = Choice(r)
      BY <2>0, <3>2 DEF Choice
    <3>. QED BY <1>0, <1>1, <3>1, <3>2, <3>3, LateMove DEF Kept, Chosen, Holding
  <2>2. CASE Goto(r, "unreserve") /\ ~Backed(r) /\ UNCHANGED rows
    <3>1. Only(r) /\ pc'[r] = "unreserve" /\ mem'[r] = mem[r] /\ UNCHANGED <<row, reserved>> /\ alloc[s] = None
      BY <2>2, GotoOnly DEF BInv, rows, Backed
    <3>. QED BY <1>0, <1>1, <3>1, LateMove DEF Kept, Chosen, Holding
  <2>3. CASE Goto(r, "drive") /\ Backed(r) /\ row[s].state = "none" /\ row' = [row EXCEPT ![s] = Created(r)]
    <3>1. Only(r) /\ pc'[r] = "drive" /\ mem'[r] = mem[r] /\ alloc[s] # None
      BY <2>3, GotoOnly DEF BInv, Backed
    <3>2. row'[s] = Created(r)
      BY <1>0, <2>3 DEF BInv, TInv, RowType
    <3>. QED BY <1>0, <2>0, <2>3, <3>1, <3>2, CreateGood
  <2>4. \/ <2>1!1 \/ <2>2!1 \/ <2>3!1
    <3>1. CASE Persist(r)
      BY <1>1, <2>0, <3>1 DEF Persist, rows
    <3>2. CASE Accept(r)
      BY <3>2 DEF Accept
    <3>. QED BY <1>4, <3>1, <3>2
  <2>. QED BY <2>1, <2>2, <2>3, <2>4
<1>. QED BY <1>2, <1>3, <1>4

\* The steps that end a request: it finds or drives the row, gives back, or dies.
LEMMA EndingGood ==
  ASSUME BInv, NEW r \in Requests, Good(S(r)), S(r) \notin disturbed',
         \/ Observe(r) \/ ObserveReplay(r) \/ Answer(r) \/ Drive(r) \/ Release(r) \/ Unreserve(r)
         \/ Crash(r)
  PROVE  Good(S(r))' /\ Only(r)
<1>. DEFINE s == S(r)
<1>0. s \in Servers /\ UNCHANGED del
  BY RequestsAssumption, Zenon DEF S, Observe, ObserveReplay, Answer, Drive, Release, Unreserve, Crash
<1>1. r \in Of(s) /\ InFlight(r) /\ mem[r].life = 0 /\ \A q \in Of(s) \ {r} : ~Alone(q)
  <2>1. InFlight(r) /\ r \in Of(s)
    BY DEF Observe, ObserveReplay, Answer, Drive, Release, Unreserve, Crash, At, InFlight, Of
  <2>. QED BY <2>1, Company DEF Good, FirstLife, InFlight
<1>2. Only(r)
  <2>1. Done(r) \/ \E place : Goto(r, place)
    BY Zenon DEF Observe, ObserveReplay, Answer, Drive, Release, Unreserve, Crash
  <2>. QED BY <2>1, GotoOnly, DoneOnly DEF BInv
<1>3. \A q \in Of(s) \ {r} : Choice(q)' = Choice(q)
  BY <1>2 DEF Only, Choice, Of
<1>4. CASE Observe(r) \/ ObserveReplay(r)
  <2>1. /\ pc[r] \in {"observe", "replay"} /\ UNCHANGED <<row, reserved, alloc, crashed>>
        /\ \/ \E place \in {"release", "giveback"} : Goto(r, place) /\ ~Owned(r)
           \/ \E place \in {"unreserve", "answer"} : Goto(r, place) /\ Owned(r)
    BY <1>4 DEF Observe, ObserveReplay, At, ledger, rows
  <2>2. /\ mem'[r] = mem[r]
        /\ \/ pc'[r] \in {"release", "giveback"} /\ ~Owned(r)
           \/ pc'[r] \in {"unreserve", "answer"} /\ Owned(r)
    BY <2>1, GotoOnly DEF BInv
  <2>3. Choice(r) = mem[r].decision /\ Choice(r)' = Choice(r) /\ pc[r] \in Chosen
    BY <2>1, <2>2 DEF Choice, Chosen
  <2>4. row[s].state # "none"
    BY <1>1, <2>1 DEF Good, FirstLife
  <2>5. ~Owned(r) => row[s].state = "error"
    BY <1>1, <2>3, <2>4 DEF Good, Calm, Owned
  <2>6. Owned(r) => Choice(r) = row[s].provider
    BY <2>3 DEF Owned
  <2>7. CASE Owned(r) /\ alloc[s] # Choice(r)
    <3>1. FirstLife(s)'
      BY <1>0, <1>1, <1>2, <1>3, <2>1, <2>2, <2>7 DEF Good, FirstLife, Only, Of, InFlight, S, Chosen
    <3>2. row[s].state = "error"
      BY <1>1, <2>3, <2>4, <2>7 DEF Good, Calm
    <3>3. ~crashed' => Accounted(s)'
      BY <1>1, <1>2, <1>3, <2>1, <2>7 DEF Good, Accounted, Named, Only, Of, S
    <3>. QED BY <1>2, <2>1, <3>1, <3>2, <3>3 DEF Good
  <2>8. CASE ~Owned(r) \/ alloc[s] = Choice(r)
    <3>1. pc'[r] \in Holding \/ Named(s)
      BY <2>2, <2>4, <2>6, <2>8 DEF Named, Holding
    <3>. QED BY <1>0, <1>1, <1>2, <2>1, <2>2, <2>3, <2>5, <3>1, LateMove DEF Kept, Chosen
  <2>. QED BY <2>7, <2>8
<1>5. CASE Answer(r) \/ Unreserve(r) \/ Crash(r)
  <2>1. Done(r) /\ UNCHANGED <<row, reserved, alloc>>
        /\ (crashed' = TRUE \/ (UNCHANGED crashed /\ pc[r] \in {"answer", "unreserve"}))
    BY <1>5 DEF Answer, Unreserve, Crash, At, ledger, rows
  <2>2. pc'[r] = "done"
    BY <2>1, DoneOnly DEF BInv
  <2>. QED BY <1>0, <1>1, <1>2, <2>1, <2>2, LateMove DEF Kept, Chosen, Holding, InFlight
<1>6. CASE Drive(r)
  <2>0. pc[r] = "drive" /\ UNCHANGED <<alloc, reserved, crashed>>
    BY <1>6, Zenon DEF Drive, At, ledger
  <2>1. ASSUME NEW st \in {"requested", "active"},
               row' = [row EXCEPT ![s].state = IF @ = "requested" THEN st ELSE @],
               Done(r)
        PROVE  Good(s)'
    <3>1. pc'[r] = "done"
      BY <2>1, DoneOnly DEF BInv
    <3>2. /\ row'[s].provider = row[s].provider /\ row'[s].life = row[s].life
          /\ row'[s].state \in {row[s].state, st} /\ (row[s].state # "requested" => row'[s].state = row[s].state)
      BY <1>0, <2>1 DEF BInv, TInv, RowType, Rows
    <3>3. row[s].state # "requested" \/ row'[s].state = st
      BY <1>0, <2>1 DEF BInv, TInv, RowType, Rows
    <3>4. /\ row'[s].state = "none" <=> row[s].state = "none"
          /\ row'[s].state = "error" <=> row[s].state = "error"
          /\ row'[s].state = "deleted" <=> row[s].state = "deleted"
      BY <3>2, <3>3
    <3>5. FirstLife(s)'
      BY <1>0, <1>1, <1>2, <1>3, <2>0, <3>1, <3>2, <3>4 DEF Good, FirstLife, Only, Of, InFlight, S, Chosen
    <3>6. row'[s].state # "error" => Calm(s)'
      BY <1>0, <1>1, <1>2, <1>3, <2>0, <3>1, <3>2, <3>4 DEF Good, Calm, Only, Of, S, Chosen
    <3>7. ~crashed' => Accounted(s)'
      BY <1>1, <1>2, <1>3, <2>0, <3>1, <3>2, <3>4 DEF Good, Accounted, Named, Holding, Only, Of, S
    <3>. QED BY <3>5, <3>6, <3>7 DEF Good
  <2>2. CASE row[s].state = "requested" /\ row' = [row EXCEPT ![s].state = "error"]
             /\ Goto(r, "release")
    <3>1. /\ pc'[r] = "release" /\ mem'[r] = mem[r] /\ row'[s].state = "error"
          /\ row'[s].provider = row[s].provider /\ row'[s].life = row[s].life
      BY <1>0, <2>2, GotoOnly DEF BInv, TInv, RowType, Rows
    <3>2. FirstLife(s)'
      BY <1>0, <1>1, <1>2, <1>3, <2>0, <2>2, <3>1 DEF Good, FirstLife, Only, Of, InFlight, S, Chosen
    <3>3. Accounted(s)'
      BY <2>0, <2>2, <3>1 DEF Good, Calm, Accounted, Named
    <3>. QED BY <1>2, <3>1, <3>2, <3>3 DEF Good
  <2>3. CASE disturbed' = disturbed \cup {s}
    BY <2>3
  <2>. QED BY <1>2, <1>6, <2>1, <2>2, <2>3 DEF Drive
<1>7. CASE Release(r)
  <2>1. /\ UNCHANGED <<row, reserved, crashed>> /\ release_allocation(mem[r].decision, s)
        /\ \/ pc[r] = "release" /\ Goto(r, "unreserve")
           \/ pc[r] = "giveback" /\ Goto(r, "answer")
           \/ pc[r] = "undo" /\ Done(r)
    BY <1>7 DEF Release, At, rows
  <2>2. /\ pc[r] \in {"release", "giveback", "undo"}
        /\ \/ pc'[r] \in {"unreserve", "answer"} /\ mem'[r] = mem[r]
           \/ pc'[r] = "done"
    BY <2>1, GotoOnly, DoneOnly DEF BInv
  <2>3. (alloc[s] = mem[r].decision /\ alloc'[s] = None) \/ (alloc[s] # mem[r].decision /\ alloc'[s] = alloc[s])
    BY <1>0, <2>1 DEF release_allocation, BInv, TInv, LedgerType
  <2>4. FirstLife(s)'
    BY <1>0, <1>1, <1>2, <1>3, <2>1, <2>2 DEF Good, FirstLife, Only, Of, InFlight, S, Chosen
  <2>5. row'[s].state # "error" => Calm(s)'
    <3>. SUFFICES ASSUME row[s].state # "error" PROVE Calm(s)'
      BY <2>1
    <3>1. row[s].state = "none" /\ Alone(r)
      BY <1>1, <2>2 DEF Good, Calm
    <3>. QED BY <1>1, <1>2, <2>1, <2>2, <3>1 DEF Calm, Alone, Only, Of, S, Chosen
  <2>6. ~crashed' => Accounted(s)'
    BY <1>1, <1>2, <1>3, <2>1, <2>2, <2>3 DEF Good, Accounted, Named, Holding, Only, Of, S, Choice
  <2>. QED BY <1>2, <2>4, <2>5, <2>6 DEF Good
<1>. QED BY <1>4, <1>5, <1>6, <1>7

\* What others do to a server that no exempted event has met.
LEMMA OthersGood ==
  ASSUME BInv, NEW s \in Servers \ disturbed', s \notin disturbed, Good(s),
         \/ \E d \in Servers : DeleteStep(d)
         \/ \E p \in Providers : ProviderStep(p)
         \/ ListConsumers
         \/ reconcile_consumers
         \/ UNCHANGED vars
  PROVE  Good(s)'
<1>1. ASSUME NEW d \in Servers, DeleteStep(d) PROVE Good(s)'
  <2>1. UNCHANGED requests /\ UNCHANGED crashed
    BY <1>1, Zenon DEF DeleteStep, BeginDelete, Terminalize, ReleaseDeleted, UnreserveDeleted
  <2>2. d # s
    BY <1>1 DEF DeleteStep, BeginDelete, Terminalize, ReleaseDeleted, UnreserveDeleted, Good, FirstLife
  <2>3. row'[s] = row[s] /\ del'[s] = del[s]
    BY <1>1, <2>2 DEF DeleteStep, BeginDelete, Terminalize, ReleaseDeleted, UnreserveDeleted,
                      BInv, TInv, RowType, rows
  <2>4. alloc'[s] = alloc[s]
    BY <1>1, <2>2 DEF DeleteStep, BeginDelete, Terminalize, ReleaseDeleted, UnreserveDeleted,
                      release_allocation, ledger, BInv, TInv, LedgerType
  <2>5. reserved'[s] = reserved[s]
    BY <1>1 DEF DeleteStep, BeginDelete, Terminalize, ReleaseDeleted, UnreserveDeleted, rows
  <2>. QED BY <2>1, <2>3, <2>4, <2>5, GoodKept DEF Kept, requests
<1>2. CASE \/ \E p \in Providers : ProviderStep(p)
           \/ ListConsumers
           \/ UNCHANGED vars
  <2>1. UNCHANGED <<row, alloc, del, reserved, crashed, requests>>
    BY <1>2, Zenon DEF ProviderStep, AgentChanges, PublishRead, Publish, Operate, sync_provider,
                       SetState, ListConsumers, vars, ledger, rows
  <2>. QED BY <2>1, GoodKept DEF Kept, requests
<1>3. CASE reconcile_consumers
  <2>1. UNCHANGED <<row, del, reserved, crashed, requests>>
    BY <1>3, Zenon DEF reconcile_consumers, rows
  <2>2. CASE s \in Consumers \/ alloc[s] = None
    <3>1. alloc'[s] = alloc[s]
      BY <1>3, <2>2 DEF reconcile_consumers
    <3>. QED BY <2>1, <3>1, GoodKept DEF Kept, requests
  <2>3. CASE s \notin Consumers /\ alloc[s] # None
    <3>1. alloc'[s] = None
      BY <1>3, <2>3 DEF reconcile_consumers
    <3>2. ~Shared(s)
      BY <1>3, <2>3 DEF reconcile_consumers
    <3>3. row[s].state = "none"
      BY <2>3 DEF Consumers, Good, FirstLife
    <3>4. \A r \in Of(s) : pc[r] # "done" => Alone(r)
      BY <3>2, NotShared
    <3>5. FirstLife(s)'
      BY <2>1 DEF Good, FirstLife, Of, InFlight, S, Choice, requests
    <3>6. Calm(s)'
      BY <2>1, <3>1, <3>3, <3>4 DEF Good, Calm, Of, S, Alone, Chosen, requests
    <3>7. Accounted(s)'
      BY <3>1 DEF Accounted
    <3>. QED BY <3>5, <3>6, <3>7 DEF Good
  <2>. QED BY <2>2, <2>3
<1>. QED BY <1>1, <1>2, <1>3

\* A step of a request leaves other servers alone.
LEMMA ElsewhereGood ==
  ASSUME BInv, NEW r \in Requests, CreateStep(r) \/ Crash(r), Only(r),
         NEW s \in Servers, s # S(r), Good(s)
  PROVE  Good(s)'
<1>0. S(r) \in Servers
  BY RequestsAssumption DEF S
<1>1. UNCHANGED del /\ (crashed => crashed')
  <2>1. UNCHANGED del /\ (UNCHANGED crashed \/ crashed' = TRUE)
    BY Zenon DEF CreateStep, Identify, Probe, Lookup, ReadProviders, BeginIntent, CheckIntent,
          ReadProvider, commit_allocation, Settle, Abandon, Drop, Reobserve, Reserve, Persist, Accept,
          Observe, ObserveReplay, Answer, Drive, Release, Unreserve, Crash
  <2>. QED BY <2>1
<1>2. row'[s] = row[s] /\ reserved'[s] = reserved[s]
  <2>1. CASE Persist(r) \/ Accept(r) \/ Drive(r)
    BY <1>0, <2>1 DEF Persist, Accept, Drive, BInv, TInv, RowType, rows
  <2>2. CASE ~Persist(r) /\ ~Accept(r) /\ ~Drive(r)
    <3>1. UNCHANGED rows
      BY <2>2, Zenon DEF CreateStep, Identify, Probe, Lookup, ReadProviders, BeginIntent,
            CheckIntent, ReadProvider, commit_allocation, Settle, Abandon, Drop, Reobserve, Reserve,
            Observe, ObserveReplay, Answer, Release, Unreserve, Crash
    <3>. QED BY <3>1 DEF rows
  <2>. QED BY <2>1, <2>2
<1>3. alloc'[s] = alloc[s]
  <2>1. CASE commit_allocation(r) \/ Release(r)
    BY <1>0, <2>1 DEF commit_allocation, Commit, Release, release_allocation, ledger, BInv, TInv,
                      LedgerType
  <2>2. CASE ~commit_allocation(r) /\ ~Release(r)
    <3>1. UNCHANGED alloc
      BY <2>2, Zenon DEF CreateStep, Identify, Probe, Lookup, ReadProviders, BeginIntent,
            CheckIntent, ReadProvider, Settle, Abandon, Drop, Reobserve, Reserve, Persist, Accept,
            Observe, ObserveReplay, Answer, Drive, Unreserve, Crash, ledger
    <3>. QED BY <3>1
  <2>. QED BY <2>1, <2>2
<1>5. \A q \in Of(s) : pc'[q] = pc[q] /\ mem'[q] = mem[q]
  BY DEF Of, Only
<1>. QED BY <1>1, <1>2, <1>3, <1>5, GoodKept DEF Kept

\* A step of a request moves that request only.
LEMMA RequestOnly ==
  ASSUME BInv, NEW r \in Requests, CreateStep(r) \/ Crash(r)
  PROVE  Only(r)
<1>1. CASE Identify(r) \/ Lookup(r) \/ ReadProviders(r) \/ BeginIntent(r)
  BY <1>1 DEF Identify, Lookup, ReadProviders, BeginIntent, Goto, Done, Only, BInv, TInv, RequestType
<1>2. CASE ~(Identify(r) \/ Lookup(r) \/ ReadProviders(r) \/ BeginIntent(r))
  <2>1. \/ \E place : Goto(r, place)
        \/ \E p : Decide(r, p)
        \/ Done(r)
    BY <1>2, Zenon DEF CreateStep, Probe, CheckIntent, ReadProvider, commit_allocation, Settle,
          Abandon, Drop, Reobserve, Reserve, Persist, Accept, Observe, ObserveReplay, Answer, Drive,
          Release, Unreserve, Crash
  <2>. QED BY <2>1, GotoOnly, DecideOnly, DoneOnly DEF BInv
<1>. QED BY <1>1, <1>2

\* Every step keeps what a request asks for.
LEMMA AskedNext ==
  ASSUME TInv, Asked, [Next]_vars
  PROVE  Asked'
<1>1. CASE UNCHANGED requests
  BY <1>1 DEF Asked, InFlight, requests
<1>2. ASSUME NEW r \in Requests, CreateStep(r) \/ Crash(r) PROVE Asked'
  <2>1. CASE Identify(r)
    <3>1. PICK kind \in Contents[r] :
             ask' = [ask EXCEPT ![r] = [canonical |-> kind.canonical, body |-> kind.body,
                                        op |-> CreateOp(row[S(r)])]]
      BY <2>1 DEF Identify
    <3>2. kind.body # None
      BY <3>1, ContentsAssumption, NoneAssumption
    <3>3. pc' = [pc EXCEPT ![r] = "lookup"] /\ UNCHANGED mem
      BY <2>1 DEF Identify
    <3>. HIDE DEF CreateOp
    <3>. QED BY <3>1, <3>2, <3>3 DEF TInv, RequestType, Asked, InFlight
  <2>2. CASE Done(r)
    BY <2>2 DEF TInv, RequestType, Asked, InFlight, Done, NoMemory, Memory
  <2>3. CASE ~Identify(r) /\ ~Done(r)
    <3>1. UNCHANGED ask /\ InFlight(r)
      BY <1>2, <2>3 DEF CreateStep, Identify, Probe, Lookup, ReadProviders, BeginIntent,
           CheckIntent, ReadProvider, commit_allocation, Settle, Abandon, Drop, Reobserve, Reserve,
           Persist, Accept, Observe, ObserveReplay, Answer, Drive, Release, Unreserve, Crash, Goto,
           Decide, At, InFlight
    <3>2. \E place \in Places \ {"new", "done"} : pc' = [pc EXCEPT ![r] = place]
      BY <1>2, <2>3 DEF CreateStep, Identify, Probe, Lookup, ReadProviders, BeginIntent,
           CheckIntent, ReadProvider, commit_allocation, Settle, Abandon, Drop, Reobserve, Reserve,
           Persist, Accept, Observe, ObserveReplay, Answer, Drive, Release, Unreserve, Crash, Goto,
           Decide, Places
    <3>3. \A q \in Requests \ {r} : mem'[q] = mem[q]
      <4>1. UNCHANGED mem \/ \E m : mem' = [mem EXCEPT ![r] = m]
        BY <1>2, <2>3 DEF CreateStep, Identify, Probe, Lookup, ReadProviders, BeginIntent,
             CheckIntent, ReadProvider, commit_allocation, Settle, Abandon, Drop, Reobserve, Reserve,
             Persist, Accept, Observe, ObserveReplay, Answer, Drive, Release, Unreserve, Crash, Goto,
             Decide
      <4>. QED BY <4>1 DEF TInv, RequestType
    <3>. QED BY <3>1, <3>2, <3>3 DEF TInv, RequestType, Asked, InFlight
  <2>. QED BY <2>1, <2>2, <2>3
<1>3. CASE ~\E r \in Requests : CreateStep(r) \/ Crash(r)
  <2>1. UNCHANGED requests
    BY <1>3, Zenon DEF Next, vars, DeleteStep, BeginDelete, Terminalize, ReleaseDeleted,
         UnreserveDeleted, ProviderStep, AgentChanges, PublishRead, Publish, Operate, ListConsumers,
         reconcile_consumers
  <2>. QED BY <1>1, <2>1
<1>. QED BY <1>2, <1>3

\* The invariant of rows and allocations holds at the start.
LEMMA BInvInit == ASSUME Init PROVE BInv
<1>1. TInv /\ FInv
  BY TInvInit, FInvInit
<1>2. \A s \in Servers : Good(s)
  BY BoundsAssumption DEF Init, Good, FirstLife, Calm, Accounted, Of, InFlight, S, Chosen, NoRow, NoDelete, Lives
<1>3. Asked
  BY DEF Init, Asked, InFlight, NoMemory, Memory
<1>. QED BY <1>1, <1>2, <1>3 DEF BInv

\* A server that was disturbed stays so.
LEMMA DisturbedGrows == ASSUME [Next]_vars PROVE disturbed \subseteq disturbed'
<1>1. ASSUME NEW r \in Requests, CreateStep(r) \/ Crash(r) PROVE disturbed \subseteq disturbed'
  <2>1. CASE Reserve(r) \/ Accept(r) \/ Drive(r)
    <3>1. CASE Reserve(r)
      BY <3>1 DEF Reserve
    <3>2. CASE Accept(r)
      BY <3>2 DEF Accept
    <3>3. CASE Drive(r)
      BY <3>3 DEF Drive
    <3>. QED BY <2>1, <3>1, <3>2, <3>3
  <2>2. CASE ~(Reserve(r) \/ Accept(r) \/ Drive(r))
    <3>1. UNCHANGED disturbed
      BY <1>1, <2>2, Zenon DEF CreateStep, Identify, Probe, Lookup, ReadProviders, BeginIntent,
           CheckIntent, ReadProvider, commit_allocation, Settle, Abandon, Drop, Reobserve, Persist,
           Observe, ObserveReplay, Answer, Release, Unreserve, Crash
    <3>. QED BY <3>1
  <2>. QED BY <2>1, <2>2
<1>2. ASSUME NEW s \in Servers, DeleteStep(s) PROVE disturbed \subseteq disturbed'
  BY <1>2 DEF DeleteStep, BeginDelete, Terminalize, ReleaseDeleted, UnreserveDeleted
<1>3. CASE reconcile_consumers
  BY <1>3 DEF reconcile_consumers
<1>4. ASSUME NEW p \in Providers, ProviderStep(p) PROVE disturbed \subseteq disturbed'
  BY <1>4 DEF ProviderStep, AgentChanges, PublishRead, Publish, Operate
<1>5. CASE ListConsumers \/ UNCHANGED vars
  BY <1>5 DEF ListConsumers, vars
<1>. QED BY <1>1, <1>2, <1>3, <1>4, <1>5 DEF Next

\* Every step keeps it.
LEMMA BInvNext == ASSUME BInv, [Next]_vars PROVE BInv'
<1>1. TInv' /\ FInv'
  BY TInvNext, FInvNext DEF BInv
<1>2. disturbed \subseteq disturbed'
  BY DisturbedGrows
<1>3. ASSUME NEW s \in Servers, s \notin disturbed' PROVE Good(s)'
  <2>1. Good(s) /\ s \notin disturbed
    BY <1>2, <1>3 DEF BInv
  <2>2. ASSUME NEW r \in Requests, CreateStep(r) \/ Crash(r) PROVE Good(s)'
    <3>1. CASE S(r) = s
      <4>1. CASE commit_allocation(r)
        BY <2>1, <3>1, <4>1, CommitGood, EarlySteps
      <4>2. CASE ~commit_allocation(r)
        BY <1>3, <2>1, <2>2, <3>1, <4>2, EarlySteps, SettledGood, EndingGood DEF CreateStep
      <4>. QED BY <4>1, <4>2
    <3>2. CASE S(r) # s
      BY <2>1, <2>2, <3>2, RequestOnly, ElsewhereGood
    <3>. QED BY <3>1, <3>2
  <2>. QED BY <1>3, <2>1, <2>2, OthersGood DEF Next
<1>4. Asked'
  BY AskedNext DEF BInv
<1>. QED BY <1>1, <1>3, <1>4 DEF BInv

\* A live server has the capacity its row names, for any number of requests that
\* race for it, canonical or not (crates/o3k-compute/src/lifecycle.rs,
\* create_server_for_user_with_context), as long as no release meets it that does
\* not ask whose the allocation is: those that have settled have all settled on the
\* one allocation there is, a replay lets go of nothing its row names, and one that
\* gives capacity back before the create has failed is the last.
THEOREM LiveServersBacked == Spec => []LiveIsBacked
<1>1. Init => BInv
  BY BInvInit
<1>2. BInv /\ [Next]_vars => BInv'
  BY BInvNext
<1>3. BInv => LiveIsBacked
  BY DEF BInv, Good, Calm, LiveIsBacked, Live
<1>. QED BY <1>1, <1>2, <1>3, PTL DEF Spec

\* Without a crash an allocation is always named by a row or by a request that will
\* name it or give it back, so that nothing stays taken once all are answered.
THEOREM NoCapacityLeaks == Spec => []NothingLeaked
<1>1. Init => BInv
  BY BInvInit
<1>2. BInv /\ [Next]_vars => BInv'
  BY BInvNext
<1>3. BInv => NothingLeaked
  BY DEF BInv, Good, FirstLife, Accounted, Named, Holding, NothingLeaked, InFlight, Of
<1>. QED BY <1>1, <1>2, <1>3, PTL DEF Spec
=============================================================================
