---------------------------- MODULE LedgerProofs ----------------------------
(***************************************************************************)
(* Type correctness of the placement ledger and its users, and the ledger's *)
(* balance: what a provider counts as used is the sum of the allocations on *)
(* it, for every number of providers, servers and requests.                 *)
(*                                                                          *)
(* A sum over a set is a recursive function.  It is shown to obey its       *)
(* equation, and to lose exactly the size of the element that is taken out, *)
(* by looking at a smallest set for which it would not.                     *)
(***************************************************************************)
EXTENDS Placement, FiniteSetTheorems, TLAPS


Sum(T) == MapThenSumSet(LAMBDA s : Size[s], T)
One(T) == CHOOSE x \in T : TRUE
SumsTo(g, T) ==
    g = [U \in SUBSET T |-> IF U = {} THEN 0 ELSE Size[One(U)] + g[U \ {One(U)}]]

\* A set of finite sets that is not empty has a smallest member.
LEMMA SmallestSet ==
  ASSUME NEW Bad, Bad # {}, \A T \in Bad : IsFiniteSet(T)
  PROVE  \E T \in Bad : \A U \in Bad : U \subseteq T => U = T
<1>. DEFINE W == UNION Bad
<1>1. Bad \subseteq FiniteSubsetsOf(W)
  BY DEF FiniteSubsetsOf
<1>2. PICK T \in Bad : \A U \in Bad : <<U, T>> \notin StrictSubsetOrdering(W)
  BY <1>1, FS_StrictSubsetOrderingWellFounded, WFMin
<1>. QED BY <1>1, <1>2 DEF StrictSubsetOrdering, FiniteSubsetsOf

\* The sum is what the recursive function of the fold gives for its set.
LEMMA SumIs == \A T : Sum(T) = (CHOOSE g : SumsTo(g, T))[T]
BY DEF Sum, MapThenSumSet, MapThenFoldSet, SumsTo, One

\* The member the fold takes first is one of the set.
LEMMA OneIn == \A T : T # {} => One(T) \in T
BY DEF One

\* Two such functions agree on the sets both are defined for.
LEMMA SumsAgree ==
  ASSUME NEW T, IsFiniteSet(T), NEW U, T \subseteq U, NEW g, SumsTo(g, T), NEW h, SumsTo(h, U)
  PROVE  \A V \in SUBSET T : g[V] = h[V]
<1>. DEFINE Bad == {V \in SUBSET T : g[V] # h[V]}
<1>. SUFFICES ASSUME Bad # {} PROVE FALSE
  OBVIOUS
<1>1. \A V \in Bad : IsFiniteSet(V)
  BY FS_Subset
<1>2. PICK V \in Bad : \A X \in Bad : X \subseteq V => X = V
  <2>. HIDE DEF Bad
  <2>. QED BY <1>1, SmallestSet
<1>3. CASE V = {}
  BY <1>3, <1>2 DEF SumsTo
<1>4. CASE V # {}
  <2>1. One(V) \in V BY <1>4, OneIn
  <2>2. g[V \ {One(V)}] = h[V \ {One(V)}]
    BY <1>2, <2>1
  <2>3. g[V] = Size[One(V)] + g[V \ {One(V)}]
    BY <1>4, <1>2 DEF SumsTo
  <2>4. h[V] = Size[One(V)] + h[V \ {One(V)}]
    BY <1>4, <1>2 DEF SumsTo
  <2>. QED BY <2>2, <2>3, <2>4
<1>. QED BY <1>3, <1>4

Summed(T) == CHOOSE g : SumsTo(g, T)

\* There is such a function for every finite set.
LEMMA SummedSums == ASSUME NEW T, IsFiniteSet(T) PROVE SumsTo(Summed(T), T)
<1>. DEFINE Bad == {U \in SUBSET T : ~SumsTo(Summed(U), U)}
<1>. SUFFICES ASSUME Bad # {} PROVE FALSE
  OBVIOUS
<1>1. \A U \in Bad : IsFiniteSet(U)
  BY FS_Subset
<1>2. PICK U \in Bad : \A X \in Bad : X \subseteq U => X = U
  <2>. HIDE DEF Bad
  <2>. QED BY <1>1, SmallestSet
<1>3. \A V \in SUBSET U : V # U => SumsTo(Summed(V), V)
  BY <1>2
<1>. DEFINE Rest(V) == V \ {One(V)}
            g == [V \in SUBSET U |-> IF V = {} THEN 0 ELSE Size[One(V)] + Summed(Rest(V))[Rest(V)]]
<1>4. ASSUME NEW V \in SUBSET U, V # {}
      PROVE  g[Rest(V)] = Summed(Rest(V))[Rest(V)]
  <2>. DEFINE X == Rest(V)
  <2>1. X \subseteq U /\ X # U /\ IsFiniteSet(X)
    BY <1>4, OneIn, FS_Subset, <1>2
  <2>2. SumsTo(Summed(X), X)
    BY <2>1, <1>3
  <2>3. CASE X = {}
    BY <2>1, <2>2, <2>3 DEF SumsTo
  <2>4. CASE X # {}
    <3>1. One(X) \in X BY <2>4, OneIn
    <3>. DEFINE Y == Rest(X)
    <3>2. Y \subseteq X /\ Y # X /\ Y \subseteq U /\ Y # U /\ IsFiniteSet(Y)
      BY <3>1, <2>1, FS_Subset
    <3>3. SumsTo(Summed(Y), Y)
      BY <3>2, <1>3
    <3>. HIDE DEF Y
    <3>4. Summed(Y)[Y] = Summed(X)[Y]
      BY <2>2, <3>2, <3>3, SumsAgree
    <3>5. Summed(X)[X] = Size[One(X)] + Summed(X)[Y]
      BY <2>2, <2>4 DEF SumsTo, Y
    <3>. QED BY <2>1, <2>4, <3>4, <3>5 DEF Y
  <2>. QED BY <2>3, <2>4
<1>5. SumsTo(g, U)
  <2>1. g = [V \in SUBSET U |-> IF V = {} THEN 0 ELSE Size[One(V)] + g[Rest(V)]]
    BY <1>4
  <2>. QED BY <2>1 DEF SumsTo
<1>6. SumsTo(Summed(U), U)
  <2>. HIDE DEF g
  <2>. QED BY <1>5 DEF Summed
<1>. QED BY <1>2, <1>6

\* The sum over nothing.
LEMMA SumEmpty == Sum({}) = 0
BY SumIs, SummedSums, FS_EmptySet DEF SumsTo, Summed

\* The sum, one member taken out: the one the fold takes first.
LEMMA SumOne ==
  ASSUME NEW T, IsFiniteSet(T), T # {}
  PROVE  Sum(T) = Size[One(T)] + Sum(T \ {One(T)})
<1>. DEFINE X == T \ {One(T)}
<1>1. X \subseteq T /\ IsFiniteSet(X)
  BY FS_Subset
<1>2. SumsTo(Summed(T), T) /\ SumsTo(Summed(X), X)
  BY <1>1, SummedSums
<1>3. Summed(T)[X] = Summed(X)[X]
  <2>. HIDE DEF X
  <2>1. \A V \in SUBSET X : Summed(X)[V] = Summed(T)[V]
    <3>. DEFINE g == Summed(X) h == Summed(T)
    <3>1. SumsTo(g, X) /\ SumsTo(h, T)
      BY <1>2
    <3>. HIDE DEF g, h
    <3>2. \A V \in SUBSET X : g[V] = h[V]
      BY <1>1, <3>1, SumsAgree
    <3>. QED BY <3>2 DEF g, h
  <2>. QED BY <2>1
<1>4. Summed(T)[T] = Size[One(T)] + Summed(T)[X]
  BY <1>2 DEF SumsTo
<1>. QED BY <1>3, <1>4, SumIs DEF Summed

\* The sum, any member taken out.
LEMMA SumRemove ==
  ASSUME NEW T \in SUBSET Servers, IsFiniteSet(T)
  PROVE  Sum(T) \in Nat /\ \A x \in T : Sum(T) = Size[x] + Sum(T \ {x})
<1>. DEFINE Good(U) == Sum(U) \in Nat /\ \A x \in U : Sum(U) = Size[x] + Sum(U \ {x})
            Bad == {U \in SUBSET T : ~Good(U)}
<1>. SUFFICES ASSUME Bad # {} PROVE FALSE
  OBVIOUS
<1>1. \A U \in Bad : IsFiniteSet(U)
  BY FS_Subset
<1>2. PICK U \in Bad : \A X \in Bad : X \subseteq U => X = U
  <2>. HIDE DEF Bad
  <2>. QED BY <1>1, SmallestSet
<1>. IsFiniteSet(U) BY <1>1, <1>2
<1>3. \A V \in SUBSET U : V # U => Good(V)
  BY <1>2
<1>4. U # {}
  <2>1. Good({})
    BY SumEmpty
  <2>. HIDE DEF Good
  <2>. QED BY <1>2, <2>1
<1>. DEFINE o == One(U)
<1>5. o \in U /\ o \in Servers /\ Size[o] \in Nat
  BY <1>4, OneIn, <1>2, SizeAssumption
<1>6. Sum(U) = Size[o] + Sum(U \ {o})
  BY <1>4, SumOne
<1>7. Good(U \ {o})
  BY <1>3, <1>5
<1>. HIDE DEF o
<1>8. Sum(U) \in Nat
  BY <1>5, <1>6, <1>7
<1>9. ASSUME NEW x \in U, x # o PROVE Sum(U) = Size[x] + Sum(U \ {x})
  <2>1. Good(U \ {x}) /\ o \in U \ {x} /\ x \in U \ {o}
    BY <1>3, <1>5, <1>9
  <2>2. (U \ {x}) \ {o} = (U \ {o}) \ {x}
    OBVIOUS
  <2>3. Sum(U \ {o}) = Size[x] + Sum((U \ {o}) \ {x})
    BY <1>7, <2>1
  <2>4. Sum(U \ {x}) = Size[o] + Sum((U \ {o}) \ {x})
    BY <2>1, <2>2
  <2>5. Good((U \ {o}) \ {x})
    BY <1>3, <1>5
  <2>6. Size[x] \in Nat
    BY <1>2, SizeAssumption
  <2>. QED BY <1>5, <1>6, <2>3, <2>4, <2>5, <2>6
<1>. QED BY <1>2, <1>6, <1>8, <1>9
-----------------------------------------------------------------------------
(***************************************************************************)
(* What is allocated on a provider.                                         *)
(***************************************************************************)
On(p, al) == {s \in DOMAIN al : al[s] = p}

\* What a provider has allocated is a sum over the servers on it.
LEMMA AllocatedIsSum == \A p, al : Allocated(p, al) = Sum(On(p, al))
BY DEF Allocated, Sum, On

\* It is a number.
LEMMA AllocatedNat ==
  ASSUME NEW p, NEW al, DOMAIN al = Servers
  PROVE  Allocated(p, al) \in Nat
<1>1. On(p, al) \in SUBSET Servers /\ IsFiniteSet(On(p, al))
  BY FiniteAssumption, FS_Subset DEF On
<1>. QED BY <1>1, SumRemove, AllocatedIsSum

\* Only server s is allocated differently.
Differ(al, bl, s) ==
    /\ DOMAIN al = Servers
    /\ DOMAIN bl = Servers
    /\ \A t \in Servers \ {s} : al[t] = bl[t]

\* An allocation more, or one less.
LEMMA AllocatedMore ==
  ASSUME NEW p, NEW s \in Servers, NEW al, NEW bl, Differ(al, bl, s), al[s] # p, bl[s] = p
  PROVE  /\ Allocated(p, bl) = Allocated(p, al) + Size[s]
         /\ Allocated(p, al) \in Nat
<1>. DEFINE T == On(p, bl)
<1>1. T \in SUBSET Servers /\ IsFiniteSet(T) /\ s \in T /\ T \ {s} = On(p, al)
  BY FiniteAssumption, FS_Subset DEF On, Differ
<1>. HIDE DEF T
<1>2. Sum(T) = Size[s] + Sum(T \ {s})
  BY <1>1, SumRemove
<1>3. Sum(On(p, al)) \in Nat /\ Size[s] \in Nat
  BY AllocatedNat, AllocatedIsSum, SizeAssumption DEF Differ
<1>4. Allocated(p, bl) = Sum(T) /\ Allocated(p, al) = Sum(T \ {s})
  BY <1>1, AllocatedIsSum DEF T
<1>. QED BY <1>1, <1>2, <1>3, <1>4

\* What others have allocated does not count.
LEMMA AllocatedSame ==
  ASSUME NEW p, NEW al, NEW bl, On(p, al) = On(p, bl)
  PROVE  Allocated(p, al) = Allocated(p, bl)
BY AllocatedIsSum

-----------------------------------------------------------------------------
(***************************************************************************)
(* Type correctness.                                                        *)
(***************************************************************************)
Somewhere == Providers \cup {None}

Places == {"new", "lookup", "read", "intent", "check", "provider", "commit", "settle", "abandon", "drop",
           "reobserve", "reserve", "persist", "observe", "replay", "answer", "drive", "release",
           "giveback", "undo", "unreserve", "done"}

Memories == [life : Nat, selected : SUBSET Providers,
             candidates : SUBSET [provider : Providers, gen : Nat, free : Nat],
             pick : [provider : Somewhere, gen : Nat], decision : Somewhere]

LedgerType ==
    /\ state \in [Providers -> States]
    /\ total \in [Providers -> Totals]
    /\ used \in [Providers -> Nat]
    /\ gen \in [Providers -> Nat \ {0}]
    /\ alloc \in [Servers -> Somewhere]
    /\ intent \in [Servers -> Somewhere]

RequestType ==
    /\ pc \in [Requests -> Places]
    /\ mem \in [Requests -> Memories]
    /\ ask \in [Requests -> [canonical : BOOLEAN, body : Bodies \cup {None}, op : Lives]]
    /\ \A r \in Requests : mem[r].life < MaxLives

Rows == [state : {"none", "requested", "active", "error", "deleted"},
         provider : Somewhere, life : Lives, body : Bodies \cup {None}]

\* A row that exists, or has a delete, has been created.
Lived(s) == row[s].state # "none" \/ del[s].pc # "none" => row[s].life # 0

RowType ==
    /\ row \in [Servers -> Rows]
    /\ DOMAIN del = Servers
    /\ \A s \in Servers : Lived(s)
    /\ reserved \in [Servers -> Bodies \cup {None}]
    /\ quota \in [Servers \X Lives -> {"none", "pending", "committed", "released"}]

Reports == [state : States, total : Totals]

RestType ==
    /\ agent \in [Providers -> [state : States, total : Totals, new : BOOLEAN]]
    /\ report \in [Providers -> Reports \cup {NoReport}]
    /\ pass \in [on : BOOLEAN, live : SUBSET Servers]
    /\ disturbed \subseteq Servers
    /\ crashed \in BOOLEAN
    /\ faults \in 0..MaxFaults

TInv == LedgerType /\ RequestType /\ RowType /\ RestType

\* The types hold at the start.
LEMMA TInvInit == ASSUME Init PROVE TInv
<1>1. LedgerType
  BY TotalsAssumption DEF Init, LedgerType, States, Somewhere
<1>2. RequestType
  <2>1. NoMemory \in Memories
    BY DEF NoMemory, Memory, Memories, NoPick, Somewhere
  <2>2. NoMemory.life < MaxLives
    BY BoundsAssumption DEF NoMemory, Memory
  <2>3. NoAsk \in [canonical : BOOLEAN, body : Bodies \cup {None}, op : Lives]
    BY BoundsAssumption DEF NoAsk, Lives
  <2>. HIDE DEF NoMemory, NoAsk
  <2>. QED BY <2>1, <2>2, <2>3 DEF Init, RequestType, Places
<1>3. RowType
  <2>1. NoRow \in Rows /\ NoRow.state = "none" /\ NoDelete.pc = "none"
    BY BoundsAssumption DEF NoRow, NoDelete, Rows, Somewhere, Lives
  <2>. HIDE DEF NoRow, NoDelete
  <2>. QED BY <2>1 DEF Init, RowType, Lived
<1>4. RestType
  <2>1. agent \in [Providers -> [state : States, total : Totals, new : BOOLEAN]]
    BY DEF Init, States
  <2>2. report \in [Providers -> Reports \cup {NoReport}] /\ pass \in [on : BOOLEAN, live : SUBSET Servers]
    BY DEF Init, NoPass
  <2>3. faults \in 0..MaxFaults
    BY BoundsAssumption DEF Init
  <2>4. disturbed \subseteq Servers /\ crashed \in BOOLEAN
    BY Zenon DEF Init
  <2>. QED BY <2>1, <2>2, <2>3, <2>4 DEF RestType
<1>. QED BY <1>1, <1>2, <1>3, <1>4 DEF TInv

\* What the moves of a request leave behind.
LEMMA GotoType ==
  ASSUME RequestType, NEW r \in Requests, NEW place \in Places, Goto(r, place)
  PROVE  RequestType'
BY DEF RequestType, Goto, Places

\* A request that is done is well typed.
LEMMA DoneType ==
  ASSUME RequestType, NEW r \in Requests, Done(r)
  PROVE  RequestType'
<1>1. NoMemory \in Memories
  BY DEF NoMemory, Memory, Memories, NoPick, Somewhere
<1>2. NoMemory.life < MaxLives
  BY BoundsAssumption DEF NoMemory, Memory
<1>3. NoAsk \in [canonical : BOOLEAN, body : Bodies \cup {None}, op : Lives]
  BY BoundsAssumption DEF NoAsk, Lives
<1>. HIDE DEF NoMemory, NoAsk
<1>. QED BY <1>1, <1>2, <1>3 DEF RequestType, Done, Places

\* So is one that has decided on a provider.
LEMMA DecideType ==
  ASSUME RequestType, NEW r \in Requests, NEW p \in Somewhere, Decide(r, p)
  PROVE  RequestType'
<1>1. Memory(mem[r].life, {}, {}, NoPick, p) \in Memories
  BY DEF RequestType, Memory, Memories, NoPick, Somewhere
<1>2. Memory(mem[r].life, {}, {}, NoPick, p).life = mem[r].life
  BY DEF Memory
<1>. QED BY <1>1, <1>2 DEF RequestType, Decide, Places

\* Giving an allocation back keeps the ledger well typed.
LEMMA ReleaseType ==
  ASSUME LedgerType, NEW p, NEW s \in Servers, release_allocation(p, s)
  PROVE  LedgerType'
<1>1. CASE alloc[s] = p
  <2>1. alloc' = [alloc EXCEPT ![s] = None] /\ alloc' \in [Servers -> Somewhere]
    BY <1>1 DEF LedgerType, release_allocation, Somewhere
  <2>2. used' \in [Providers -> Nat] /\ gen' \in [Providers -> Nat \ {0}]
    <3>1. CASE p \in Providers
      <4>1. used[p] \in Nat /\ gen[p] \in Nat /\ Size[s] \in Nat
        BY <3>1, SizeAssumption DEF LedgerType
      <4>2. used' = [used EXCEPT ![p] = IF used[p] > Size[s] THEN used[p] - Size[s] ELSE 0]
        BY <1>1 DEF release_allocation
      <4>3. gen' = [gen EXCEPT ![p] = gen[p] + 1]
        BY <1>1 DEF release_allocation
      <4>4. (IF used[p] > Size[s] THEN used[p] - Size[s] ELSE 0) \in Nat
        BY <4>1
      <4>5. gen[p] + 1 \in Nat \ {0}
        BY <4>1
      <4>. QED BY <4>2, <4>3, <4>4, <4>5 DEF LedgerType
    <3>2. CASE p \notin Providers
      BY <1>1, <3>2 DEF LedgerType, release_allocation
    <3>. QED BY <3>1, <3>2
  <2>. QED BY <1>1, <2>1, <2>2 DEF LedgerType, release_allocation
<1>2. CASE alloc[s] # p
  BY <1>2 DEF LedgerType, release_allocation, Somewhere
<1>. QED BY <1>1, <1>2

\* The faults stay within their bound.
LEMMA FaultType == ASSUME RestType, NEW f, Fault(f) PROVE faults' \in 0..MaxFaults
BY BoundsAssumption DEF RestType, Fault

\* Steps that leave the rows and the rest alone.
LEMMA RestKept ==
  ASSUME TInv, UNCHANGED <<rows, quota, del, agent, report, pass, disturbed, crashed, faults>>
  PROVE  RowType' /\ RestType'
BY DEF TInv, RowType, RestType, Lived, rows

-----------------------------------------------------------------------------
\* The steps of a request up to its commit.
LEMMA SchedulingTypes ==
  ASSUME TInv, NEW r \in Requests,
         \/ Identify(r) \/ Probe(r) \/ Lookup(r) \/ ReadProviders(r) \/ BeginIntent(r)
         \/ CheckIntent(r) \/ ReadProvider(r)
  PROVE  TInv'
<1>. S(r) \in Servers
  BY RequestsAssumption DEF S
<1>1. LedgerType'
  <2>1. CASE BeginIntent(r)
    <3>1. \A c \in Best(r) : c.provider \in Providers
      BY DEF TInv, RequestType, Memories, Best
    <3>2. intent' \in [Servers -> Somewhere]
      BY <2>1, <3>1 DEF BeginIntent, ledger, TInv, LedgerType, Somewhere
    <3>. QED BY <2>1, <3>2 DEF BeginIntent, ledger, provider, TInv, LedgerType
  <2>2. CASE ~BeginIntent(r)
    <3>1. UNCHANGED ledger
      BY <2>2, Zenon DEF Identify, Probe, Lookup, ReadProviders, CheckIntent, ReadProvider
    <3>. QED BY <3>1 DEF TInv, LedgerType, ledger, provider
  <2>. QED BY <2>1, <2>2
<1>2. RequestType'
  <2>0. CASE Identify(r) \/ Probe(r)
    <3>1. CASE Identify(r)
      <4>1. CreateOp(row[S(r)]) \in Lives
        <5>1. /\ row[S(r)].life \in 0..MaxLives
              /\ row[S(r)].state # "none" => row[S(r)].life # 0
          <6>1. row[S(r)] \in Rows /\ Lived(S(r))
            BY DEF TInv, RowType
          <6>. QED BY <6>1 DEF Rows, Lived, Lives
        <5>. QED BY <5>1, BoundsAssumption DEF CreateOp, Lives
      <4>2. PICK kind \in Contents[r] :
               ask' = [ask EXCEPT ![r] = [canonical |-> kind.canonical, body |-> kind.body,
                                          op |-> CreateOp(row[S(r)])]]
        BY <3>1 DEF Identify
      <4>3. kind \in [canonical : BOOLEAN, body : Bodies]
        BY <4>2, ContentsAssumption
      <4>4. pc' = [pc EXCEPT ![r] = "lookup"] /\ UNCHANGED mem
        BY <3>1 DEF Identify
      <4>. HIDE DEF CreateOp
      <4>. QED BY <4>1, <4>2, <4>3, <4>4 DEF TInv, RequestType, Places
    <3>2. CASE Probe(r)
      BY <3>2, GotoType, DoneType DEF Probe, TInv, Places
    <3>. QED BY <2>0, <3>1, <3>2
  <2>1. CASE Lookup(r)
    <3>1. CASE Done(r)
      BY <3>1, DoneType DEF TInv
    <3>2. CASE ~Done(r)
      <4>. DEFINE m == Memory(row[S(r)].life, {}, {}, NoPick, None)
      <4>1. m \in Memories /\ m.life < MaxLives
        BY <2>1, <3>2, BoundsAssumption DEF Lookup, TInv, RowType, Rows, Memory, Memories, NoPick,
                                           Somewhere, Lives
      <4>2. pc' = [pc EXCEPT ![r] = "read"] /\ mem' = [mem EXCEPT ![r] = m] /\ UNCHANGED ask
        BY <2>1, <3>2 DEF Lookup
      <4>. HIDE DEF m
      <4>. QED BY <4>1, <4>2 DEF TInv, RequestType, Places
    <3>. QED BY <3>1, <3>2
  <2>2. CASE ReadProviders(r)
    <3>. DEFINE selected == {p \in Providers : agent[p].state = "Enabled"}
                fit == {p \in selected : state[p] = "Enabled" /\ Available(p) >= Size[S(r)]}
                read == {[provider |-> p, gen |-> gen[p], free |-> Available(p)] : p \in fit}
                m == Memory(mem[r].life, selected, read, NoPick, None)
    <3>1. \A p \in Providers : Available(p) \in Nat /\ gen[p] \in Nat
      <4>. SUFFICES ASSUME NEW p \in Providers PROVE Available(p) \in Nat /\ gen[p] \in Nat
        OBVIOUS
      <4>1. total[p] \in Nat /\ used[p] \in Nat /\ gen[p] \in Nat
        BY TotalsAssumption DEF TInv, LedgerType
      <4>. QED BY <4>1 DEF Available
    <3>2. read \in SUBSET [provider : Providers, gen : Nat, free : Nat]
      BY <3>1
    <3>. HIDE DEF read
    <3>3. m \in Memories /\ m.life = mem[r].life
      BY <3>2 DEF TInv, RequestType, Memory, Memories, NoPick, Somewhere
    <3>4. pc' = [pc EXCEPT ![r] = "intent"] /\ mem' = [mem EXCEPT ![r] = m] /\ UNCHANGED ask
      BY <2>2 DEF ReadProviders, read
    <3>. HIDE DEF m
    <3>. QED BY <3>3, <3>4 DEF TInv, RequestType, Places
  <2>3. CASE BeginIntent(r)
    <3>1. CASE Goto(r, "reobserve")
      BY <3>1, GotoType DEF TInv, Places
    <3>2. ASSUME NEW c \in Best(r),
               pc' = [pc EXCEPT ![r] =
                   IF intent[S(r)] \in {None, c.provider} THEN "check" ELSE "reobserve"],
               mem' = [mem EXCEPT ![r] = Memory(mem[r].life, mem[r].selected,
                   mem[r].candidates \ {c}, [provider |-> c.provider, gen |-> c.gen], None)],
               UNCHANGED ask
          PROVE  RequestType'
      <4>. DEFINE m == Memory(mem[r].life, mem[r].selected,
                   mem[r].candidates \ {c}, [provider |-> c.provider, gen |-> c.gen], None)
      <4>1. m \in Memories /\ m.life = mem[r].life
        BY DEF TInv, RequestType, Memory, Memories, Best, Somewhere
      <4>. HIDE DEF m
      <4>. QED BY <3>2, <4>1 DEF TInv, RequestType, Places, m
    <3>. QED BY <2>3, <3>1, <3>2 DEF BeginIntent
  <2>4. CASE CheckIntent(r)
    BY <2>4, GotoType DEF CheckIntent, TInv, Places
  <2>5. CASE ReadProvider(r)
    BY <2>5, GotoType DEF ReadProvider, TInv, Places
  <2>. QED BY <2>0, <2>1, <2>2, <2>3, <2>4, <2>5
<1>3. RowType' /\ RestType'
  <2>1. UNCHANGED <<rows, quota, del, agent, report, pass, disturbed, crashed, faults>>
    BY Zenon DEF Identify, Probe, Lookup, ReadProviders, BeginIntent, CheckIntent, ReadProvider
  <2>. QED BY <2>1, RestKept
<1>. QED BY <1>1, <1>2, <1>3 DEF TInv

\* The commit of an allocation.
LEMMA CommitTypes ==
  ASSUME TInv, NEW r \in Requests, commit_allocation(r)
  PROVE  TInv'
<1>. S(r) \in Servers
  BY RequestsAssumption DEF S
<1>. DEFINE p == mem[r].pick.provider
<1>0. p \in Somewhere
  BY DEF TInv, RequestType, Memories
<1>1. LedgerType'
  <2>1. CASE UNCHANGED ledger
    BY <2>1 DEF TInv, LedgerType, ledger, provider
  <2>2. CASE Commit(p, S(r))
    <3>1. alloc' \in [Servers -> Somewhere]
      BY <1>0, <2>2 DEF Commit, TInv, LedgerType
    <3>2. CASE p \in Providers
      <4>1. used[p] + Size[S(r)] \in Nat /\ gen[p] + 1 \in Nat \ {0}
        BY <3>2, SizeAssumption DEF TInv, LedgerType
      <4>. QED BY <2>2, <3>1, <4>1 DEF Commit, TInv, LedgerType
    <3>3. CASE p \notin Providers
      BY <2>2, <3>1, <3>3 DEF Commit, TInv, LedgerType
    <3>. QED BY <3>2, <3>3
  <2>. QED BY <2>1, <2>2 DEF commit_allocation
<1>2. RequestType'
  <2>1. Goto(r, "settle") \/ Goto(r, "reobserve") \/ Goto(r, "abandon")
    BY DEF commit_allocation
  <2>. QED BY <2>1, GotoType DEF TInv, Places
<1>3. RowType' /\ RestType'
  BY RestKept DEF commit_allocation
<1>. QED BY <1>1, <1>2, <1>3 DEF TInv

\* The steps that settle an intent, or give it up.
LEMMA SettlingTypes ==
  ASSUME TInv, NEW r \in Requests, Settle(r) \/ Abandon(r) \/ Drop(r) \/ Reobserve(r)
  PROVE  TInv'
<1>. S(r) \in Servers
  BY RequestsAssumption DEF S
<1>0. mem[r].pick.provider \in Somewhere /\ alloc[S(r)] \in Somewhere
  BY DEF TInv, RequestType, LedgerType, Memories
<1>1. LedgerType'
  <2>1. CASE Settle(r) \/ Drop(r)
    BY <2>1 DEF TInv, LedgerType, Settle, Drop, provider, Somewhere
  <2>2. CASE Abandon(r) \/ Reobserve(r)
    BY <2>2 DEF TInv, LedgerType, Abandon, Reobserve, ledger, provider
  <2>. QED BY <2>1, <2>2
<1>2. RequestType'
  <2>1. CASE Settle(r) \/ Reobserve(r)
    BY <1>0, <2>1, DecideType, DoneType DEF Settle, Reobserve, TInv
  <2>2. CASE Abandon(r) \/ Drop(r)
    BY <2>2, GotoType DEF Abandon, Drop, TInv, Places
  <2>. QED BY <2>1, <2>2
<1>3. RowType' /\ RestType'
  <2>1. UNCHANGED <<rows, quota, del, agent, report, pass, disturbed, crashed, faults>>
    BY Zenon DEF Settle, Abandon, Drop, Reobserve
  <2>. QED BY <2>1, RestKept
<1>. QED BY <1>1, <1>2, <1>3 DEF TInv

\* The steps from the reservation to the end of a request, and its death.
LEMMA PersistingTypes ==
  ASSUME TInv, NEW r \in Requests,
         \/ Reserve(r) \/ Persist(r) \/ Accept(r) \/ Observe(r) \/ ObserveReplay(r) \/ Answer(r)
         \/ Drive(r) \/ Release(r) \/ Unreserve(r) \/ Crash(r)
  PROVE  TInv'
<1>. S(r) \in Servers
  BY RequestsAssumption DEF S
<1>1. LedgerType'
  <2>1. CASE Release(r)
    BY <2>1, ReleaseType DEF Release, TInv
  <2>2. CASE ~Release(r)
    <3>1. UNCHANGED ledger
      BY <2>2, Zenon DEF Reserve, Persist, Accept, Observe, ObserveReplay, Answer, Drive, Unreserve,
                         Crash
    <3>. QED BY <3>1 DEF TInv, LedgerType, ledger, provider
  <2>. QED BY <2>1, <2>2
<1>2. RequestType'
  <2>1. Done(r) \/ \E place \in Places : Goto(r, place)
    BY DEF Reserve, Persist, Accept, Observe, ObserveReplay, Answer, Drive, Release, Unreserve,
           Crash, Places
  <2>. QED BY <2>1, GotoType, DoneType DEF TInv
<1>3. RowType'
  <2>0. UNCHANGED del
    BY Zenon DEF Reserve, Persist, Accept, Observe, ObserveReplay, Answer, Drive, Release, Unreserve,
                 Crash
  <2>1. row' \in [Servers -> Rows] /\ \A s \in Servers : Lived(s)'
    <3>1. CASE UNCHANGED row
      BY <2>0, <3>1 DEF TInv, RowType, Lived
    <3>2. CASE row' = [row EXCEPT ![S(r)] = Created(r)]
      <4>1. Created(r) \in Rows /\ Created(r).life # 0
        BY BoundsAssumption DEF Created, Rows, TInv, RequestType, Memories, Lives
      <4>. HIDE DEF Created
      <4>. QED BY <2>0, <3>2, <4>1 DEF TInv, RowType, Lived
    <3>3. CASE Drive(r)
      <4>1. UNCHANGED row \/ \E st \in {"requested", "active", "error"} :
               row' = [row EXCEPT ![S(r)].state = IF @ = "requested" THEN st ELSE @]
        BY <3>3 DEF Drive
      <4>2. ASSUME NEW st \in {"requested", "active", "error"},
                   row' = [row EXCEPT ![S(r)].state = IF @ = "requested" THEN st ELSE @]
            PROVE  <2>1!1 /\ <2>1!2
        <5>1. row' \in [Servers -> Rows]
          BY <4>2 DEF TInv, RowType, Rows
        <5>2. \A s \in Servers : /\ row'[s].life = row[s].life
                                 /\ row'[s].state # "none" => row[s].state # "none"
          BY <4>2 DEF TInv, RowType, Rows
        <5>. QED BY <2>0, <5>1, <5>2 DEF TInv, RowType, Lived
      <4>. QED BY <3>1, <4>1, <4>2
    <3>4. CASE ~Drive(r)
      <4>1. UNCHANGED row \/ row' = [row EXCEPT ![S(r)] = Created(r)]
        BY <3>4, Zenon DEF Reserve, Persist, Accept, Observe, ObserveReplay, Answer, Release,
                           Unreserve, Crash, rows
      <4>. QED BY <4>1, <3>1, <3>2
    <3>. QED BY <3>3, <3>4
  <2>2. quota' \in [Servers \X Lives -> {"none", "pending", "committed", "released"}]
    <3>1. UNCHANGED quota \/ \E v \in {"none", "pending", "committed", "released"} :
                                quota' = [quota EXCEPT ![Op(r)] = v]
      <4>1. Op(r) \in Servers \X Lives
        BY DEF Op, TInv, RequestType
      <4>. HIDE DEF Op
      <4>2. quota[Op(r)] \in {"none", "pending", "committed", "released"}
        BY <4>1 DEF TInv, RowType
      <4>. QED BY <4>2 DEF Reserve, Persist, Accept, Observe, ObserveReplay, Answer, Drive, Release,
                           Unreserve, Crash
    <3>. HIDE DEF Op
    <3>. QED BY <3>1 DEF TInv, RowType
  <2>3. reserved' \in [Servers -> Bodies \cup {None}]
    <3>1. UNCHANGED reserved \/ reserved' = [reserved EXCEPT ![S(r)] = ask[r].body]
      BY Zenon DEF Reserve, Persist, Accept, Observe, ObserveReplay, Answer, Drive, Release,
                   Unreserve, Crash, rows
    <3>. QED BY <3>1 DEF TInv, RowType, RequestType
  <2>. QED BY <2>0, <2>1, <2>2, <2>3 DEF TInv, RowType
<1>4. RestType'
  <2>1. faults' \in 0..MaxFaults
    <3>1. UNCHANGED faults \/ \E f : Fault(f)
      BY DEF Reserve, Persist, Accept, Observe, ObserveReplay, Answer, Drive, Release, Unreserve,
             Crash
    <3>. QED BY <3>1, FaultType DEF TInv, RestType
  <2>2. disturbed' \subseteq Servers
    BY DEF Reserve, Persist, Accept, Observe, ObserveReplay, Answer, Drive, Release, Unreserve, Crash,
           TInv, RestType
  <2>3. crashed' \in BOOLEAN
    BY Zenon DEF Reserve, Persist, Accept, Observe, ObserveReplay, Answer, Drive, Release, Unreserve,
                 Crash, TInv, RestType
  <2>4. UNCHANGED <<agent, report, pass>>
    BY Zenon DEF Reserve, Persist, Accept, Observe, ObserveReplay, Answer, Drive, Release, Unreserve,
                 Crash
  <2>. QED BY <2>1, <2>2, <2>3, <2>4 DEF TInv, RestType
<1>. QED BY <1>1, <1>2, <1>3, <1>4 DEF TInv

\* The steps of a delete.
LEMMA DeleteTypes ==
  ASSUME TInv, NEW s \in Servers, DeleteStep(s)
  PROVE  TInv'
<1>1. LedgerType'
  <2>1. CASE ReleaseDeleted(s)
    BY <2>1, ReleaseType DEF ReleaseDeleted, TInv
  <2>2. CASE ~ReleaseDeleted(s)
    <3>1. UNCHANGED ledger
      BY <2>2, Zenon DEF DeleteStep, BeginDelete, Terminalize, UnreserveDeleted
    <3>. QED BY <3>1 DEF TInv, LedgerType, ledger, provider
  <2>. QED BY <2>1, <2>2
<1>2. RequestType'
  <2>1. UNCHANGED requests
    BY Zenon DEF DeleteStep, BeginDelete, Terminalize, ReleaseDeleted, UnreserveDeleted
  <2>. QED BY <2>1 DEF TInv, RequestType, requests
<1>3. RowType'
  <2>1. row' \in [Servers -> Rows] /\ DOMAIN del' = Servers /\ UNCHANGED reserved
    <3>1. CASE Terminalize(s)
      BY <3>1 DEF Terminalize, TInv, RowType, Rows
    <3>2. CASE ~Terminalize(s)
      BY <3>2 DEF DeleteStep, BeginDelete, ReleaseDeleted, UnreserveDeleted, TInv, RowType, rows
    <3>. QED BY <3>1, <3>2
  <2>0. \A d \in Servers : Lived(d)'
    BY DEF DeleteStep, BeginDelete, Terminalize, ReleaseDeleted, UnreserveDeleted, TInv, RowType,
           Rows, rows, Lived, NoDelete
  <2>2. quota' \in [Servers \X Lives -> {"none", "pending", "committed", "released"}]
    BY DEF DeleteStep, BeginDelete, Terminalize, ReleaseDeleted, UnreserveDeleted, TInv, RowType
  <2>. QED BY <2>0, <2>1, <2>2 DEF TInv, RowType
<1>4. RestType'
  <2>1. faults' \in 0..MaxFaults
    <3>1. UNCHANGED faults \/ \E f : Fault(f)
      BY DEF DeleteStep, BeginDelete, Terminalize, ReleaseDeleted, UnreserveDeleted
    <3>. QED BY <3>1, FaultType DEF TInv, RestType
  <2>2. disturbed' \subseteq Servers
    BY DEF DeleteStep, BeginDelete, Terminalize, ReleaseDeleted, UnreserveDeleted, TInv, RestType
  <2>3. UNCHANGED <<agent, report, pass, crashed>>
    BY Zenon DEF DeleteStep, BeginDelete, Terminalize, ReleaseDeleted, UnreserveDeleted
  <2>. QED BY <2>1, <2>2, <2>3 DEF TInv, RestType
<1>. QED BY <1>1, <1>2, <1>3, <1>4 DEF TInv

\* The steps of a provider and of the publisher of its inventory.
LEMMA ProviderTypes ==
  ASSUME TInv, NEW p \in Providers, ProviderStep(p)
  PROVE  TInv'
<1>0. UNCHANGED <<rows, quota, del, requests, pass, disturbed, crashed>>
  BY Zenon DEF ProviderStep, AgentChanges, PublishRead, Publish, Operate
<1>1. LedgerType'
  <2>1. CASE Publish(p)
    <3>1. report[p] \in Reports
      BY <2>1 DEF Publish, TInv, RestType
    <3>2. Allocated(p, alloc) \in Nat /\ gen[p] + 1 \in Nat \ {0}
      BY AllocatedNat DEF TInv, LedgerType
    <3>3. sync_provider(p, report[p])
      BY <2>1 DEF Publish
    <3>. QED BY <3>1, <3>2, <3>3 DEF sync_provider, TInv, LedgerType, Reports
  <2>2. CASE Operate(p)
    <3>1. gen[p] + 1 \in Nat \ {0}
      BY DEF TInv, LedgerType
    <3>. QED BY <2>2, <3>1 DEF Operate, SetState, TInv, LedgerType
  <2>3. CASE AgentChanges(p) \/ PublishRead(p)
    BY <2>3 DEF AgentChanges, PublishRead, TInv, LedgerType, ledger, provider
  <2>. QED BY <2>1, <2>2, <2>3 DEF ProviderStep
<1>2. RequestType' /\ RowType'
  BY <1>0 DEF TInv, RequestType, RowType, Lived, requests, rows
<1>3. RestType'
  <2>1. faults' \in 0..MaxFaults
    <3>1. UNCHANGED faults \/ \E f : Fault(f)
      BY DEF ProviderStep, AgentChanges, PublishRead, Publish, Operate
    <3>. QED BY <3>1, FaultType DEF TInv, RestType
  <2>2. agent' \in [Providers -> [state : States, total : Totals, new : BOOLEAN]]
    <3>1. CASE AgentChanges(p)
      BY <3>1 DEF AgentChanges, TInv, RestType, States
    <3>2. CASE PublishRead(p)
      BY <3>2 DEF PublishRead, TInv, RestType
    <3>3. CASE Publish(p) \/ Operate(p)
      BY <3>3 DEF Publish, Operate, TInv, RestType
    <3>. QED BY <3>1, <3>2, <3>3 DEF ProviderStep
  <2>3. report' \in [Providers -> Reports \cup {NoReport}]
    <3>1. CASE PublishRead(p)
      <4>1. state[p] \in States /\ agent[p].state \in States /\ agent[p].total \in Totals
        BY DEF TInv, RestType, LedgerType
      <4>. QED BY <3>1, <4>1 DEF PublishRead, TInv, RestType, Reports
    <3>2. CASE ~PublishRead(p)
      BY <3>2 DEF ProviderStep, AgentChanges, Publish, Operate, TInv, RestType
    <3>. QED BY <3>1, <3>2
  <2>. QED BY <1>0, <2>1, <2>2, <2>3 DEF TInv, RestType
<1>. QED BY <1>1, <1>2, <1>3 DEF TInv

\* The startup pass.
LEMMA StartupTypes ==
  ASSUME TInv, ListConsumers \/ reconcile_consumers
  PROVE  TInv'
<1>1. CASE ListConsumers
  <2>1. faults' \in 0..MaxFaults
    BY <1>1, FaultType DEF TInv, ListConsumers
  <2>2. pass' \in [on : BOOLEAN, live : SUBSET Servers]
    BY <1>1 DEF ListConsumers
  <2>3. UNCHANGED <<ledger, rows, quota, del, requests, agent, report, disturbed, crashed>>
    BY <1>1 DEF ListConsumers
  <2>. QED BY <2>1, <2>2, <2>3 DEF TInv, LedgerType, RequestType, RowType, RestType, ledger,
                                    provider, requests, rows, Lived
<1>2. CASE reconcile_consumers
  <2>. DEFINE orphaned == {s \in Servers \ Consumers : alloc[s] # None}
              affected == {alloc[s] : s \in orphaned}
              kept == [s \in Servers |-> IF s \in orphaned THEN None ELSE alloc[s]]
  <2>1. /\ alloc' = kept
        /\ intent' = [s \in Servers |-> IF s \in Consumers THEN intent[s] ELSE None]
        /\ used' = [p \in Providers |-> IF p \in affected THEN Allocated(p, kept) ELSE used[p]]
        /\ gen' = [p \in Providers |-> IF p \in affected THEN gen[p] + 1 ELSE gen[p]]
        /\ disturbed' = disturbed \cup {s \in orphaned : Shared(s)}
        /\ pass' = NoPass
        /\ UNCHANGED <<state, total, rows, quota, del, requests, agent, report, crashed, faults>>
    BY <1>2 DEF reconcile_consumers
  <2>2. \A p : Allocated(p, kept) \in Nat
    BY AllocatedNat
  <2>3. kept \in [Servers -> Somewhere]
    BY DEF TInv, LedgerType, Somewhere
  <2>4. orphaned \subseteq Servers
    OBVIOUS
  <2>. HIDE DEF orphaned, affected, kept
  <2>5. used' \in [Providers -> Nat] /\ gen' \in [Providers -> Nat \ {0}]
    BY <2>1, <2>2 DEF TInv, LedgerType
  <2>6. LedgerType'
    BY <2>1, <2>3, <2>5 DEF TInv, LedgerType, Somewhere
  <2>7. RequestType' /\ RowType'
    BY <2>1 DEF TInv, RequestType, RowType, Lived, requests, rows
  <2>8. pass' \in [on : BOOLEAN, live : SUBSET Servers]
    BY <2>1 DEF NoPass
  <2>9. RestType'
    BY <2>1, <2>4, <2>8 DEF TInv, RestType
  <2>. QED BY <2>6, <2>7, <2>9 DEF TInv
<1>. QED BY <1>1, <1>2

\* Every step keeps the types.
LEMMA TInvNext == ASSUME TInv, [Next]_vars PROVE TInv'
<1>1. ASSUME NEW r \in Requests, CreateStep(r) \/ Crash(r) PROVE TInv'
  BY <1>1, SchedulingTypes, CommitTypes, SettlingTypes, PersistingTypes DEF CreateStep
<1>2. CASE UNCHANGED vars
  BY <1>2 DEF vars, ledger, provider, requests, rows, TInv, LedgerType, RequestType, RowType,
              RestType, Lived
<1>. QED BY <1>1, <1>2, DeleteTypes, ProviderTypes, StartupTypes DEF Next

\* TInv holds in every reachable state; what TypeOK says follows from it.
THEOREM LedgerTypeCorrect == Spec => []TypeOK
<1>1. Init => TInv
  BY TInvInit
<1>2. TInv /\ [Next]_vars => TInv'
  BY TInvNext
<1>3. TInv => TypeOK
  BY DEF TInv, LedgerType, RequestType, RowType, RestType, Rows, Memories, Somewhere, TypeOK
<1>. QED BY <1>1, <1>2, <1>3, PTL DEF Spec

-----------------------------------------------------------------------------
(***************************************************************************)
(* The balance.  The commit adds what it allocates, a release takes back    *)
(* what it frees, a report and the startup pass count anew.                 *)
(***************************************************************************)
LEMMA ReleaseBalances ==
  ASSUME TInv, UsedIsAllocated, NEW p, NEW s \in Servers, release_allocation(p, s)
  PROVE  UsedIsAllocated'
<1>1. CASE alloc[s] = p
  <2>. SUFFICES ASSUME NEW q \in Providers PROVE used'[q] = Allocated(q, alloc')
    BY DEF UsedIsAllocated
  <2>1. alloc' = [alloc EXCEPT ![s] = None] /\ DOMAIN alloc = Servers /\ q # None
    BY <1>1, NoneAssumption DEF release_allocation, TInv, LedgerType
  <2>2. CASE q = p
    <3>1. used' = [used EXCEPT ![p] = IF used[p] > Size[s] THEN used[p] - Size[s] ELSE 0]
      BY <1>1 DEF release_allocation
    <3>2. Allocated(p, alloc) = Allocated(p, alloc') + Size[s] /\ Allocated(p, alloc') \in Nat
      <4>1. Differ(alloc', alloc, s) /\ alloc'[s] # p
        BY <2>1, <2>2 DEF Differ
      <4>. QED BY <1>1, <4>1, AllocatedMore
    <3>3. used[p] = Allocated(p, alloc) /\ Size[s] \in Nat /\ DOMAIN used = Providers
      BY <2>2, SizeAssumption DEF UsedIsAllocated, TInv, LedgerType
    <3>. QED BY <2>1, <2>2, <3>1, <3>2, <3>3
  <2>3. CASE q # p
    <3>1. On(q, alloc') = On(q, alloc)
      BY <1>1, <2>1, <2>3 DEF On
    <3>2. used'[q] = used[q]
      BY <1>1, <2>3 DEF release_allocation, TInv, LedgerType
    <3>. QED BY <3>1, <3>2, AllocatedSame DEF UsedIsAllocated
  <2>. QED BY <2>2, <2>3
<1>2. CASE alloc[s] # p
  BY <1>2 DEF release_allocation, UsedIsAllocated
<1>. QED BY <1>1, <1>2

\* A commit charges its provider exactly what it allocates.
LEMMA CommitBalances ==
  ASSUME TInv, UsedIsAllocated, NEW p, NEW s \in Servers, alloc[s] = None, Commit(p, s)
  PROVE  UsedIsAllocated'
<1>. SUFFICES ASSUME NEW q \in Providers PROVE used'[q] = Allocated(q, alloc')
  BY DEF UsedIsAllocated
<1>1. alloc' = [alloc EXCEPT ![s] = p] /\ DOMAIN alloc = Servers /\ q # None
  BY NoneAssumption DEF Commit, TInv, LedgerType
<1>2. CASE q = p
  <2>1. used' = [used EXCEPT ![p] = used[p] + Size[s]] /\ DOMAIN used = Providers
    BY DEF Commit, TInv, LedgerType
  <2>2. Allocated(p, alloc') = Allocated(p, alloc) + Size[s]
    <3>1. Differ(alloc, alloc', s) /\ alloc'[s] = p /\ alloc[s] # p
      BY <1>1, <1>2 DEF Differ
    <3>. QED BY <3>1, AllocatedMore
  <2>. QED BY <1>1, <1>2, <2>1, <2>2 DEF UsedIsAllocated
<1>3. CASE q # p
  <2>1. On(q, alloc') = On(q, alloc)
    BY <1>1, <1>3 DEF On
  <2>2. used'[q] = used[q]
    BY <1>3 DEF Commit, TInv, LedgerType
  <2>. QED BY <2>1, <2>2, AllocatedSame DEF UsedIsAllocated
<1>. QED BY <1>2, <1>3

\* Every step keeps the balance.
LEMMA BalanceNext == ASSUME TInv, UsedIsAllocated, [Next]_vars PROVE UsedIsAllocated'
<1>1. CASE UNCHANGED <<used, alloc>>
  BY <1>1 DEF UsedIsAllocated
<1>2. ASSUME NEW r \in Requests, CreateStep(r) \/ Crash(r) PROVE UsedIsAllocated'
  <2>. S(r) \in Servers
    BY RequestsAssumption DEF S
  <2>1. CASE Release(r)
    BY <2>1, ReleaseBalances DEF Release
  <2>2. CASE commit_allocation(r)
    <3>1. UNCHANGED ledger \/ (alloc[S(r)] = None /\ Commit(mem[r].pick.provider, S(r)))
      BY <2>2 DEF commit_allocation
    <3>2. CASE UNCHANGED ledger
      BY <3>2, <1>1 DEF ledger, provider
    <3>3. CASE alloc[S(r)] = None /\ Commit(mem[r].pick.provider, S(r))
      BY <3>3, CommitBalances
    <3>. QED BY <3>1, <3>2, <3>3
  <2>3. CASE ~Release(r) /\ ~commit_allocation(r)
    <3>1. UNCHANGED <<used, alloc>>
      BY <1>2, <2>3, Zenon DEF CreateStep, Identify, Probe, Lookup, ReadProviders, BeginIntent,
            CheckIntent, ReadProvider, Settle, Abandon, Drop, Reobserve, Reserve, Persist, Accept,
            Observe, ObserveReplay, Answer, Drive, Unreserve, Crash, ledger, provider
    <3>. QED BY <3>1, <1>1
  <2>. QED BY <2>1, <2>2, <2>3
<1>3. ASSUME NEW s \in Servers, DeleteStep(s) PROVE UsedIsAllocated'
  <2>1. CASE ReleaseDeleted(s)
    BY <2>1, ReleaseBalances DEF ReleaseDeleted
  <2>2. CASE ~ReleaseDeleted(s)
    <3>1. UNCHANGED <<used, alloc>>
      BY <1>3, <2>2, Zenon DEF DeleteStep, BeginDelete, Terminalize, UnreserveDeleted, ledger,
                               provider
    <3>. QED BY <3>1, <1>1
  <2>. QED BY <2>1, <2>2
<1>4. ASSUME NEW p \in Providers, ProviderStep(p) PROVE UsedIsAllocated'
  <2>1. CASE Publish(p)
    BY <2>1 DEF Publish, sync_provider, UsedIsAllocated, TInv, LedgerType
  <2>2. CASE ~Publish(p)
    <3>1. UNCHANGED <<used, alloc>>
      BY <1>4, <2>2, Zenon DEF ProviderStep, AgentChanges, PublishRead, Operate, SetState, ledger,
                               provider
    <3>. QED BY <3>1, <1>1
  <2>. QED BY <2>1, <2>2
<1>5. CASE ListConsumers \/ UNCHANGED vars
  <2>1. UNCHANGED <<used, alloc>>
    BY <1>5, Zenon DEF ListConsumers, vars, ledger, provider
  <2>. QED BY <2>1, <1>1
<1>6. CASE reconcile_consumers
  <2>. SUFFICES ASSUME NEW q \in Providers PROVE used'[q] = Allocated(q, alloc')
    BY DEF UsedIsAllocated
  <2>. DEFINE orphaned == {s \in Servers \ Consumers : alloc[s] # None}
              affected == {alloc[s] : s \in orphaned}
              kept == [s \in Servers |-> IF s \in orphaned THEN None ELSE alloc[s]]
  <2>1. /\ alloc' = kept
        /\ used' = [p \in Providers |-> IF p \in affected THEN Allocated(p, kept) ELSE used[p]]
    BY <1>6 DEF reconcile_consumers
  <2>2. CASE q \in affected
    <3>. HIDE DEF affected, kept
    <3>. QED BY <2>1, <2>2
  <2>3. CASE q \notin affected
    <3>1. On(q, kept) = On(q, alloc)
      BY <2>3, NoneAssumption DEF On, TInv, LedgerType
    <3>. HIDE DEF affected, kept
    <3>2. used'[q] = used[q]
      BY <2>1, <2>3
    <3>. QED BY <2>1, <3>1, <3>2, AllocatedSame DEF UsedIsAllocated
  <2>. QED BY <2>2, <2>3
<1>. QED BY <1>2, <1>3, <1>4, <1>5, <1>6 DEF Next

\* Capacity is neither lost nor sold twice: for any providers, servers, sizes
\* and requests the used column of placement_inventories is the sum of the rows
\* of placement_allocations, although every writer keeps it in its own way.
THEOREM LedgerBalances == Spec => []UsedIsAllocated
<1>1. Init => TInv /\ UsedIsAllocated
  <2>. SUFFICES ASSUME Init PROVE TInv /\ UsedIsAllocated
    OBVIOUS
  <2>1. \A p \in Providers : On(p, alloc) = {} /\ used[p] = 0
    BY NoneAssumption DEF Init, On
  <2>. QED BY <2>1, TInvInit, SumEmpty, AllocatedIsSum DEF UsedIsAllocated
<1>2. (TInv /\ UsedIsAllocated) /\ [Next]_vars => (TInv /\ UsedIsAllocated)'
  BY TInvNext, BalanceNext
<1>. QED BY <1>1, <1>2, PTL DEF Spec
=============================================================================
