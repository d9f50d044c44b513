------------------------- MODULE ServerDeleteProofs -------------------------
(***************************************************************************)
(* What deleting a server guarantees for any number of drivers, re-drives,  *)
(* retries and faults.                                                      *)
(*                                                                          *)
(* One family of shapes carries both results.  Shape(FALSE) is the typing   *)
(* of the state; Shape(TRUE) is the same typing without any evidence of a   *)
(* deletion, in the store, in a driver, on the stream or at the agent.      *)
(* While the guest exists the state has Shape(TRUE): evidence of a deletion *)
(* has one source, the executor that removed the guest.                     *)
(***************************************************************************)
EXTENDS ServerDelete, TLAPS

Gone(g) == IF g THEN {} ELSE {"Succeeded"}
Pops == Ops \cup {None}
Subjects == Ops \cup {Create}

OperationOf(g) == [state : {"Absent", "Pending", "Running", "Retryable", "Unknown", "Failed"} \cup Gone(g),
                   pop : Pops]
RowOf(g) == [state : {"Absent", "Pending", "Accepted", "Unknown"} \cup Gone(g), current : BOOLEAN]
ResultOf(g) == {"None", "New", "Recorded", "Accepted", "Retryable", "StaleState", "DeadlineExpired",
                "InvalidRequest"}
                   \cup (IF g THEN {} ELSE {"Succeeded", "NotFound"})
DriverOf(g) == [pc : {"Idle", "Picked", "Start", "Observe", "Bind", "Dispatch", "Result"},
                op : Ops, target : Ops, pop : Pops, fresh : BOOLEAN, result : ResultOf(g)]
ConsumerOf == [pc : {"Idle", "Operation", "Finish", "Project"}, op : Subjects,
               kind : {"None", "Running", "Succeeded", "Unknown"}, pop : Pops,
               closed : BOOLEAN, fresh : BOOLEAN]
EventOf(g) == [op : Ops, kind : {"Accepted", "Unknown"} \cup (IF g THEN {} ELSE {"Observed", "Succeeded"})]
                  \cup [op : {Create}, kind : {"Observed"}]
EntryOf(g) == [op : Ops, state : {"Accepted", "Running", "Unknown"} \cup Gone(g)]
                  \cup [op : {Create}, state : {"Succeeded"}]
HandOf(g) == [op : Pops, step : {"Idle", "Announce", "Execute", "Report"},
              result : {"None", "Unknown"} \cup Gone(g)]

StoreShape(g) ==
    /\ op \in [Ops -> OperationOf(g)]
    /\ row \in [Ops -> RowOf(g)]
    /\ g => res = "ACTIVE"

DriverShape(g) == drv \in [Drivers -> DriverOf(g)]

\* What the consumer may hold.
Holding(g, c) ==
    /\ c \in ConsumerOf
    /\ c.op \notin Ops => c.pc = "Project" /\ c.closed
    /\ g /\ c.op \in Ops => c.pc \notin {"Finish", "Project"} /\ c.kind # "Succeeded"
    /\ c.pc \in {"Operation", "Project"} => c.kind # "None"

ConsumerShape(g) == Holding(g, con)

StreamShape(g) == inbox \in Seq(EventOf(g)) /\ wire \subseteq Ops

AgentShape(g) ==
    /\ journal \in Seq(EntryOf(g))
    /\ replay \in Seq(EntryOf(g))
    /\ hand \in HandOf(g)
    /\ hand.step # "Idle" => hand.op \in Ops
    /\ hand.step = "Report" => hand.result # "None"

Shape(g) ==
    /\ StoreShape(g)
    /\ DriverShape(g)
    /\ ConsumerShape(g)
    /\ StreamShape(g)
    /\ AgentShape(g)

USE DriversAssumption

-----------------------------------------------------------------------------
\* The identities of operations, of the create and of nothing are distinct.
LEMMA Identities == 0 \in Ops /\ Create \notin Ops /\ None \notin Ops /\ None # Create
  BY BoundsAssumption DEF Ops, Create, None

\* A replayed entry gives well-shaped events.
LEMMA ReplayShape ==
    ASSUME NEW g \in BOOLEAN, NEW e \in EntryOf(g)
    PROVE  ReplayEntry(e) \in Seq(EventOf(g))
  <1>1. CASE e.op = Create
    <2>1. e.state = "Succeeded"
      BY <1>1, Identities DEF EntryOf
    <2>2. ReplayEntry(e) = <<Evidence(Create, "Observed")>>
      BY <1>1, <2>1 DEF ReplayEntry
    <2>3. Evidence(Create, "Observed") \in EventOf(g)
      BY DEF Evidence, EventOf
    <2> QED BY <2>2, <2>3
  <1>2. CASE e.op # Create
    <2>1. e.op \in Ops /\ e.state \in {"Accepted", "Running", "Unknown"} \cup Gone(g)
      BY <1>2 DEF EntryOf
    <2>2. CASE e.state = "Succeeded"
      <3>1. ~g
        BY <2>1, <2>2 DEF Gone
      <3>2. /\ Evidence(e.op, "Observed") \in EventOf(g)
            /\ Evidence(e.op, "Succeeded") \in EventOf(g)
        BY <3>1, <2>1 DEF Evidence, EventOf
      <3>3. ReplayEntry(e) = <<Evidence(e.op, "Observed"), Evidence(e.op, "Succeeded")>>
        BY <1>2, <2>2 DEF ReplayEntry
      <3> QED BY <3>2, <3>3
    <2>3. CASE e.state = "Unknown"
      <3>1. Evidence(e.op, "Unknown") \in EventOf(g)
        BY <2>1 DEF Evidence, EventOf
      <3>2. ReplayEntry(e) = <<Evidence(e.op, "Unknown")>>
        BY <1>2, <2>3 DEF ReplayEntry
      <3> QED BY <3>1, <3>2
    <2>4. CASE e.state # "Succeeded" /\ e.state # "Unknown"
      BY <2>4 DEF ReplayEntry
    <2> QED BY <2>2, <2>3, <2>4
  <1> QED BY <1>1, <1>2

\* Writing one operation: it stays well formed, and a terminal one is final.
Final(a, b) ==
    \A o \in Ops : a[o].state \in Terminal =>
        /\ b[o].state = a[o].state
        /\ a[o].pop # None => b[o].pop = a[o].pop

\* update_operation keeps the shape and terminal operations.
LEMMA UpdateOperation ==
    ASSUME NEW g \in BOOLEAN, NEW ops \in [Ops -> OperationOf(g)], NEW o \in Ops,
           NEW state, NEW pop \in Pops, [state |-> state, pop |-> pop] \in OperationOf(g)
    PROVE  /\ update_operation(ops, o, state, pop) \in [Ops -> OperationOf(g)]
           /\ Final(ops, update_operation(ops, o, state, pop))
  BY DEF update_operation, OperationOf, Final

\* update_agent_command keeps the shape of the command rows.
LEMMA UpdateCommand ==
    ASSUME NEW g \in BOOLEAN, NEW rows \in [Ops -> RowOf(g)], NEW o \in Ops,
           NEW state \in {"Absent", "Pending", "Accepted", "Unknown"} \cup Gone(g)
    PROVE  update_agent_command(rows, o, state) \in [Ops -> RowOf(g)]
  BY DEF update_agent_command, RowOf

\* The idle records have their shapes.
LEMMA Idle ==
    ASSUME NEW g \in BOOLEAN
    PROVE  IdleDriver \in DriverOf(g) /\ IdleHand \in HandOf(g) /\ IdleConsumer \in ConsumerOf
  BY Identities DEF IdleDriver, DriverOf, ResultOf, IdleHand, HandOf, IdleConsumer, ConsumerOf, Pops, Subjects

\* The transaction that ends a delete, run by a driver or by the consumer:
\* what it may leave of the operations (a1), the drivers (d1) and the
\* consumer (c1).
Terminalized(a, a1, o, pop, d, d1, c, c1) ==
    /\ a1 \in {a, update_operation(a, o, "Succeeded", pop)}
    /\ d1 \in {d, [p \in Drivers |-> [d[p] EXCEPT !.fresh = FALSE]]}
    /\ c1 \in {c, [c EXCEPT !.fresh = FALSE]}

\* So have drivers whose reads have gone stale.
LEMMA Unfreshened ==
    ASSUME NEW g \in BOOLEAN, NEW d \in [Drivers -> DriverOf(g)]
    PROVE  [p \in Drivers |-> [d[p] EXCEPT !.fresh = FALSE]] \in [Drivers -> DriverOf(g)]
  BY DEF DriverOf

\* Writing a terminal operation keeps the shape and terminal operations.
LEMMA Terminalize ==
    ASSUME NEW g \in BOOLEAN, ~g, NEW o \in Ops, NEW pop \in Pops, NEW a \in [Ops -> OperationOf(g)], NEW a1,
           NEW d \in [Drivers -> DriverOf(g)], NEW d1, NEW c, NEW c1,
           Terminalized(a, a1, o, pop, d, d1, c, c1)
    PROVE  /\ a1 \in [Ops -> OperationOf(g)] /\ Final(a, a1)
           /\ d1 \in [Drivers -> DriverOf(g)]
  <1>1. [state |-> "Succeeded", pop |-> pop] \in OperationOf(g)
    BY DEF OperationOf, Gone
  <1>2. /\ update_operation(a, o, "Succeeded", pop) \in [Ops -> OperationOf(g)]
        /\ Final(a, update_operation(a, o, "Succeeded", pop))
    BY <1>1, UpdateOperation
  <1>3. Final(a, a)
    BY DEF Final
  <1>4. a1 \in [Ops -> OperationOf(g)] /\ Final(a, a1)
    BY <1>2, <1>3 DEF Terminalized
  <1>6. d1 \in [Drivers -> DriverOf(g)]
    BY Unfreshened DEF Terminalized
  <1> QED BY <1>4, <1>6

-----------------------------------------------------------------------------
\* Every step keeps the shape, and a terminal operation final.  With g = TRUE
\* the guest is there after the step and the agent's node is registered.
Kept(g) == Shape(g)' /\ Final(op, op')

\* The API request.
LEMMA RequestStep ==
    ASSUME NEW g \in BOOLEAN, Shape(g), NEW p \in Drivers, delete_server(p)
    PROVE  Kept(g)
  <1>1. Shape(g)' <=> StoreShape(g)' /\ DriverShape(g)' /\ ConsumerShape(g) /\ StreamShape(g) /\ AgentShape(g)
    BY DEF delete_server, agent, Shape, ConsumerShape, StreamShape, AgentShape
  <1>2. CASE res = "DELETED"
    <2>1. ~g
      BY <1>2 DEF Shape, StoreShape
    <2>2. [state |-> "Succeeded", pop |-> None] \in OperationOf(g)
      BY <2>1 DEF OperationOf, Gone, Pops
    <2>3. op' = update_operation(op, 0, "Succeeded", None) /\ drv' = drv /\ row' = row
      BY <1>2 DEF delete_server
    <2>4. op' \in [Ops -> OperationOf(g)] /\ Final(op, op')
      BY <2>2, <2>3, UpdateOperation, Identities DEF Shape, StoreShape, Pops
    <2> QED BY <1>1, <2>1, <2>3, <2>4 DEF Kept, Shape, StoreShape, DriverShape
  <1>3. CASE res # "DELETED"
    <2>1. op' = op /\ row' = row /\ res' = res /\ drv' = [drv EXCEPT ![p] = [IdleDriver EXCEPT !.pc = "Picked"]]
      BY <1>3 DEF delete_server
    <2>2. [IdleDriver EXCEPT !.pc = "Picked"] \in DriverOf(g)
      BY Idle DEF DriverOf
    <2>3. drv' \in [Drivers -> DriverOf(g)]
      BY <2>1, <2>2 DEF Shape, DriverShape
    <2> QED BY <1>1, <2>1, <2>3 DEF Kept, Final, Shape, StoreShape, DriverShape
  <1> QED BY <1>2, <1>3

\* The convergence sweep.
LEMMA SweepStep ==
    ASSUME NEW g \in BOOLEAN, Shape(g), NEW o \in Ops, drive_all_lifecycle_convergence(o)
    PROVE  Kept(g)
  <1>1. [IdleDriver EXCEPT !.pc = "Picked", !.op = o, !.target = o] \in DriverOf(g)
    BY Idle DEF DriverOf
  <1>2. drv' \in [Drivers -> DriverOf(g)]
    BY <1>1 DEF drive_all_lifecycle_convergence, Shape, DriverShape
  <1> QED BY <1>2 DEF drive_all_lifecycle_convergence, agent, Kept, Final, Shape, StoreShape,
                      DriverShape, ConsumerShape, StreamShape, AgentShape

\* A driver reads its operation.
LEMMA ReadStep ==
    ASSUME NEW g \in BOOLEAN, Shape(g), NEW p \in Drivers, reconcile_lifecycle_once(p)
    PROVE  Kept(g)
  <1>1. drv[p] \in DriverOf(g) /\ op[drv[p].op].pop \in Pops
    BY DEF Shape, DriverShape, StoreShape, DriverOf, OperationOf
  <1>2. ASSUME NEW pc \in {"Observe", "Start"}
        PROVE  [drv[p] EXCEPT !.pop = op[drv[p].op].pop, !.fresh = TRUE, !.pc = pc] \in DriverOf(g)
    BY <1>1, <1>2 DEF DriverOf
  <1>3. drv' \in [Drivers -> DriverOf(g)]
    <2>1. CASE op[drv[p].op].state \in Terminal
      BY <2>1, Idle DEF reconcile_lifecycle_once, Shape, DriverShape
    <2>2. CASE op[drv[p].op].state \notin Terminal /\ op[drv[p].op].state = "Unknown"
      <3>1. drv' = [drv EXCEPT ![p] = [drv[p] EXCEPT !.pop = op[drv[p].op].pop, !.fresh = TRUE, !.pc = "Observe"]]
        BY <2>2 DEF reconcile_lifecycle_once
      <3> QED BY <3>1, <1>2 DEF Shape, DriverShape
    <2>3. CASE op[drv[p].op].state \notin Terminal /\ op[drv[p].op].state # "Unknown"
      <3>1. drv' = [drv EXCEPT ![p] = [drv[p] EXCEPT !.pop = op[drv[p].op].pop, !.fresh = TRUE, !.pc = "Start"]]
        BY <2>3 DEF reconcile_lifecycle_once
      <3> QED BY <3>1, <1>2 DEF Shape, DriverShape
    <2> QED BY <2>1, <2>2, <2>3
  <1> QED BY <1>3 DEF reconcile_lifecycle_once, agent, Kept, Final, Shape, StoreShape,
                      DriverShape, ConsumerShape, StreamShape, AgentShape

\* A driver starts its operation.
LEMMA StartStep ==
    ASSUME NEW g \in BOOLEAN, Shape(g), NEW p \in Drivers, Start(p)
    PROVE  Kept(g)
  <1>1. drv[p] \in DriverOf(g) /\ drv[p].op \in Ops /\ drv[p].pop \in Pops
    BY DEF Shape, DriverShape, DriverOf
  <1>2. [state |-> "Running", pop |-> drv[p].pop] \in OperationOf(g)
    BY <1>1 DEF OperationOf
  <1>3. op' \in [Ops -> OperationOf(g)] /\ Final(op, op')
    BY <1>1, <1>2, UpdateOperation DEF Start, Shape, StoreShape
  <1>4. [drv[p] EXCEPT !.pc = "Bind"] \in DriverOf(g)
    BY <1>1 DEF DriverOf
  <1>5. drv' \in [Drivers -> DriverOf(g)]
    BY <1>4 DEF Start, Shape, DriverShape
  <1> QED BY <1>3, <1>5 DEF Start, agent, Kept, Shape, StoreShape,
                      DriverShape, ConsumerShape, StreamShape, AgentShape

\* A driver asks the registry.
LEMMA ObserveStep ==
    ASSUME NEW g \in BOOLEAN, Shape(g), g => registry # "Absent", NEW p \in Drivers, Observe(p)
    PROVE  Kept(g)
  <1> DEFINE o == drv[p].op
             done == ~Present \/ (drv[p].pop # None /\ row[drv[p].pop].state = "Succeeded")
             pop == IF drv[p].pop = None THEN o ELSE drv[p].pop
             idle == [drv EXCEPT ![p] = IdleDriver]
  <1>1. drv[p] \in DriverOf(g) /\ o \in Ops /\ drv[p].pop \in Pops
    BY DEF Shape, DriverShape, DriverOf
  <1>2. CASE done
    <2>1. ~g
      <3>1. ASSUME g PROVE Present
        BY <3>1 DEF Present, Shape, StoreShape
      <3>2. ASSUME g, drv[p].pop # None PROVE row[drv[p].pop].state # "Succeeded"
        BY <3>2, <1>1 DEF Pops, Shape, StoreShape, RowOf, Gone
      <3> QED BY <1>2, <3>1, <3>2
    <2>2. terminalize_lifecycle(o, drv[p].fresh, pop, idle, con)
      BY <1>2 DEF Observe, finish_lifecycle, redrive_delete
    <2>3. idle \in [Drivers -> DriverOf(g)]
      BY <2>1, Idle DEF Shape, DriverShape
    <2>4. pop \in Pops
      BY <1>1 DEF Pops
    <2>7. op \in [Ops -> OperationOf(g)] /\ Holding(g, con) /\ o \in Ops
      BY <1>1 DEF Shape, StoreShape, ConsumerShape
    <2> HIDE DEF o, pop, idle
    <2>8. Terminalized(op, op', o, pop, idle, drv', con, con')
      BY <2>2 DEF terminalize_lifecycle, WriteResource, Terminalized
    <2>6. /\ op' \in [Ops -> OperationOf(g)] /\ Final(op, op')
          /\ drv' \in [Drivers -> DriverOf(g)]
      BY <2>1, <2>8, <2>3, <2>4, <2>7, Terminalize
    <2>9. Holding(g, con')
      BY <2>7, <2>8 DEF Terminalized, Holding, ConsumerOf
    <2> QED BY <2>1, <2>6, <2>9 DEF Observe, finish_lifecycle, redrive_delete, agent, Kept, Shape, StoreShape,
                      DriverShape, ConsumerShape, StreamShape, AgentShape
  <1>3. CASE ~done
    <2>1. /\ op' = IF o + 1 \in Ops /\ op[o + 1].state = "Absent"
                   THEN [op EXCEPT ![o + 1] = [state |-> "Pending", pop |-> None]] ELSE op
          /\ drv' = [drv EXCEPT ![p] = IF o + 1 \in Ops
                        THEN [drv[p] EXCEPT !.pc = "Bind", !.target = o + 1] ELSE IdleDriver]
          /\ UNCHANGED <<res, con>>
      BY <1>3 DEF Observe, finish_lifecycle, redrive_delete
    <2>2. [state |-> "Pending", pop |-> None] \in OperationOf(g)
      BY DEF OperationOf, Pops
    <2> HIDE DEF o
    <2>3. op' \in [Ops -> OperationOf(g)] /\ Final(op, op')
      BY <2>1, <2>2 DEF Final, Terminal, Shape, StoreShape
    <2>4. o + 1 \in Ops => [drv[p] EXCEPT !.pc = "Bind", !.target = o + 1] \in DriverOf(g)
      BY <1>1 DEF DriverOf
    <2>5. drv' \in [Drivers -> DriverOf(g)]
      BY <2>1, <2>4, Idle DEF Shape, DriverShape
    <2> QED BY <2>1, <2>3, <2>5 DEF Observe, finish_lifecycle, redrive_delete, agent, Kept, Shape, StoreShape,
                      DriverShape, ConsumerShape, StreamShape, AgentShape
  <1> QED BY <1>2, <1>3

\* A driver chooses the agent and records the command.
LEMMA RecordStep ==
    ASSUME NEW g \in BOOLEAN, Shape(g), g => registry # "Absent", NEW p \in Drivers, delete_instance(p)
    PROVE  Kept(g)
  <1> DEFINE t == drv[p].target
  <1>1. drv[p] \in DriverOf(g) /\ t \in Ops
    BY DEF Shape, DriverShape, DriverOf
  <1>2. PICK r \in {"NotFound", "Retryable", "StaleState", "Succeeded", "New", "Recorded"},
             pc \in {"Result", "Dispatch"} :
            /\ drv' = [drv EXCEPT ![p] = [@ EXCEPT !.pc = pc, !.result = r]]
            /\ r = "NotFound" => rehydrate = "None" \/ registry = "Absent"
            /\ r = "Succeeded" => row[t].state = "Succeeded"
    BY DEF delete_instance, dispatch_recorded, Answer
  <1>3. r \in ResultOf(g)
    <2>1. ASSUME g PROVE r # "NotFound"
      BY <1>2, <2>1 DEF rehydrate, Shape, StoreShape
    <2>2. ASSUME g PROVE r # "Succeeded"
      BY <1>1, <1>2, <2>2 DEF Shape, StoreShape, RowOf, Gone
    <2> QED BY <2>1, <2>2 DEF ResultOf
  <1>4. [drv[p] EXCEPT !.pc = pc, !.result = r] \in DriverOf(g)
    BY <1>1, <1>3 DEF DriverOf
  <1>5. drv' \in [Drivers -> DriverOf(g)]
    BY <1>2, <1>4 DEF Shape, DriverShape
  <1>6. row' \in [Ops -> RowOf(g)]
    <2>1. [state |-> "Pending", current |-> TRUE] \in RowOf(g)
      BY DEF RowOf
    <2>2. row' = row \/ row' = [row EXCEPT ![t] = [state |-> "Pending", current |-> TRUE]]
      BY DEF delete_instance, dispatch_recorded, Answer
    <2> QED BY <1>1, <2>1, <2>2 DEF Shape, StoreShape
  <1> QED BY <1>1, <1>5, <1>6 DEF delete_instance, agent, Kept, Final, Shape, StoreShape,
                      DriverShape, ConsumerShape, StreamShape, AgentShape

\* A driver sends the command.
LEMMA DispatchStep ==
    ASSUME NEW g \in BOOLEAN, Shape(g), NEW p \in Drivers, dispatch_command(p)
    PROVE  Kept(g)
  <1> DEFINE t == drv[p].target
  <1>1. drv[p] \in DriverOf(g) /\ t \in Ops
    BY DEF Shape, DriverShape, DriverOf
  <1>2. PICK r \in {"DeadlineExpired", "StaleState", "Retryable", "InvalidRequest", "Accepted"} :
            drv' = [drv EXCEPT ![p] = [@ EXCEPT !.pc = "Result", !.result = r]]
    BY DEF dispatch_command, Answer
  <1>3. [drv[p] EXCEPT !.pc = "Result", !.result = r] \in DriverOf(g)
    BY <1>1 DEF DriverOf, ResultOf
  <1>4. drv' \in [Drivers -> DriverOf(g)]
    BY <1>2, <1>3 DEF Shape, DriverShape
  <1>5. wire' = wire \/ wire' = wire \cup {t}
    BY DEF dispatch_command
  <1> QED BY <1>1, <1>4, <1>5 DEF dispatch_command, agent, Kept, Final, Shape, StoreShape,
                      DriverShape, ConsumerShape, StreamShape, AgentShape

\* A driver applies the provider's result.
LEMMA ResultStep ==
    ASSUME NEW g \in BOOLEAN, Shape(g), NEW p \in Drivers, handle_lifecycle_result(p)
    PROVE  Kept(g)
  <1> DEFINE o == drv[p].op
             t == drv[p].target
             r == drv[p].result
             idle == [drv EXCEPT ![p] = IdleDriver]
             pop == CASE r = "Succeeded" -> t
                      [] r = "NotFound" /\ drv[p].pop # None -> drv[p].pop
                      [] OTHER -> o
  <1>1. drv[p] \in DriverOf(g) /\ o \in Ops /\ t \in Pops /\ r \in ResultOf(g) /\ drv[p].pop \in Pops
    BY DEF Shape, DriverShape, DriverOf, Pops
  <1>2. idle \in [Drivers -> DriverOf(g)]
    BY Idle DEF Shape, DriverShape
  <1>3. UNCHANGED <<row, wire, inbox, journal, replay, hand>>
    BY DEF handle_lifecycle_result, agent
  <1>4. CASE r \in {"Succeeded", "NotFound"}
    <2>1. ~g
      BY <1>1, <1>4 DEF ResultOf
    <2>2. terminalize_lifecycle(o, drv[p].fresh, pop, idle, con)
      BY <1>4 DEF handle_lifecycle_result, finish_lifecycle, retry_or_fail
    <2>3. pop \in Pops
      BY <1>1, <1>4 DEF Pops
    <2>4. op \in [Ops -> OperationOf(g)] /\ Holding(g, con) /\ o \in Ops
      BY <1>1 DEF Shape, StoreShape, ConsumerShape
    <2> HIDE DEF o, pop, idle
    <2>5. Terminalized(op, op', o, pop, idle, drv', con, con')
      BY <2>2 DEF terminalize_lifecycle, WriteResource, Terminalized
    <2>6. op' \in [Ops -> OperationOf(g)] /\ Final(op, op') /\ drv' \in [Drivers -> DriverOf(g)]
      BY <1>2, <2>1, <2>3, <2>4, <2>5, Terminalize
    <2>7. Holding(g, con')
      BY <2>4, <2>5 DEF Terminalized, Holding, ConsumerOf
    <2> QED BY <1>3, <2>1, <2>6, <2>7 DEF Kept, Shape, StoreShape,
                      DriverShape, ConsumerShape, StreamShape, AgentShape
  <1>5. CASE r \notin {"Succeeded", "NotFound"}
    <2>1. PICK s \in {"Running", "Unknown", "Retryable", "Failed"}, q \in Pops :
              op' = update_operation(op, o, s, q)
      BY <1>1, <1>5 DEF handle_lifecycle_result, retry_or_fail, Pops
    <2>2. [state |-> s, pop |-> q] \in OperationOf(g)
      BY DEF OperationOf
    <2>3. op' \in [Ops -> OperationOf(g)] /\ Final(op, op')
      BY <1>1, <2>1, <2>2, UpdateOperation DEF Shape, StoreShape
    <2>4. drv' = idle /\ UNCHANGED <<res, con>>
      BY <1>5 DEF handle_lifecycle_result, finish_lifecycle, retry_or_fail
    <2> QED BY <1>2, <1>3, <2>3, <2>4 DEF Kept, Shape, StoreShape,
                      DriverShape, ConsumerShape, StreamShape, AgentShape
  <1> QED BY <1>4, <1>5
\* What the consumer holds has its shape.
LEMMA HeldShape ==
    ASSUME NEW g \in BOOLEAN, Shape(g), NEW o \in Subjects, NEW kind \in {"Running", "Succeeded", "Unknown"},
           NEW pc \in {"Operation", "Finish", "Project"}
    PROVE  /\ Held(o, kind, pc) \in ConsumerOf
           /\ Held(o, kind, pc).op = o /\ Held(o, kind, pc).kind = kind /\ Held(o, kind, pc).pc = pc
           /\ o \notin Ops => Held(o, kind, pc).closed
  <1>1. o \in Ops => op[o].pop \in Pops
    BY DEF Shape, StoreShape, OperationOf
  <1> QED BY <1>1 DEF Held, ConsumerOf, Pops, Subjects

\* An idle consumer holds nothing.
LEMMA IdleHolding ==
    ASSUME NEW g \in BOOLEAN
    PROVE  Holding(g, IdleConsumer)
  BY Idle, Identities DEF Holding, IdleConsumer

\* What the consumer may hold before the guest is gone.
LEMMA HeldHolding ==
    ASSUME NEW g \in BOOLEAN, Shape(g), NEW o \in Subjects, NEW kind \in {"Running", "Succeeded", "Unknown"},
           NEW pc \in {"Operation", "Finish", "Project"},
           o \notin Ops => pc = "Project",
           g /\ o \in Ops => pc = "Operation" /\ kind # "Succeeded"
    PROVE  Holding(g, Held(o, kind, pc))
  BY HeldShape DEF Holding

\* The consumer takes an event.
LEMMA TakeStep ==
    ASSUME NEW g \in BOOLEAN, Shape(g), Take
    PROVE  Kept(g)
  <1> DEFINE e == Head(inbox)
  <1>1. inbox \in Seq(EventOf(g)) /\ inbox # <<>> /\ inbox' = Tail(inbox)
    BY DEF Take, Shape, StreamShape
  <1>2. e \in EventOf(g) /\ inbox' \in Seq(EventOf(g))
    BY <1>1
  <1> HIDE DEF e
  <1>3. row \in [Ops -> RowOf(g)]
    BY DEF Shape, StoreShape
  <1>4. row' \in [Ops -> RowOf(g)] /\ Holding(g, con')
    <2>1. CASE e.kind = "Accepted" /\ TakeAccepted(e.op)
      <3>1. e.op \in Ops
        BY <1>2, <2>1 DEF EventOf
      <3>2. row' = row \/ row' = update_agent_command(row, e.op, "Accepted")
        BY <2>1 DEF TakeAccepted
      <3>3. row' \in [Ops -> RowOf(g)]
        BY <1>3, <3>1, <3>2, UpdateCommand
      <3>4. con' = IdleConsumer \/ con' = Held(e.op, "Running", "Operation")
        BY <2>1 DEF TakeAccepted
      <3>5. Holding(g, Held(e.op, "Running", "Operation"))
        BY <3>1, HeldHolding DEF Subjects
      <3> QED BY <3>3, <3>4, <3>5, IdleHolding
    <2>2. CASE e.kind = "Succeeded" /\ TakeSucceeded(e.op)
      <3>1. e.op \in Ops /\ ~g
        BY <1>2, <2>2 DEF EventOf
      <3>2. row' = row \/ row' = update_agent_command(row, e.op, "Succeeded")
        BY <2>2 DEF TakeSucceeded
      <3>3. "Succeeded" \in Gone(g)
        BY <3>1 DEF Gone
      <3>4. row' \in [Ops -> RowOf(g)]
        BY <1>3, <3>1, <3>2, <3>3, UpdateCommand
      <3>5. con' = IdleConsumer \/ con' = Held(e.op, "Succeeded", "Finish")
        BY <2>2 DEF TakeSucceeded
      <3>6. Holding(g, Held(e.op, "Succeeded", "Finish"))
        BY <3>1, HeldHolding DEF Subjects
      <3> QED BY <3>4, <3>5, <3>6, IdleHolding
    <2>3. CASE e.kind = "Unknown" /\ TakeUnknown(e.op)
      <3>1. e.op \in Ops
        BY <1>2, <2>3 DEF EventOf
      <3>2. row' = row \/ row' = update_agent_command(row, e.op, "Unknown")
        BY <2>3 DEF TakeUnknown
      <3>3. row' \in [Ops -> RowOf(g)]
        BY <1>3, <3>1, <3>2, UpdateCommand
      <3>4. con' = IdleConsumer \/ con' = Held(e.op, "Unknown", "Operation")
        BY <2>3 DEF TakeUnknown
      <3>5. Holding(g, Held(e.op, "Unknown", "Operation"))
        BY <3>1, HeldHolding DEF Subjects
      <3> QED BY <3>3, <3>4, <3>5, IdleHolding
    <2>4. CASE e.kind = "Observed" /\ TakeObserved(e.op)
      <3>1. e.op \in Subjects /\ (g => e.op \notin Ops)
        BY <1>2, <2>4, Identities DEF EventOf, Subjects
      <3>2. row' = row
        BY <2>4 DEF TakeObserved
      <3>3. con' = IdleConsumer \/ con' = Held(e.op, "Succeeded", "Project")
        BY <2>4 DEF TakeObserved
      <3>4. Holding(g, Held(e.op, "Succeeded", "Project"))
        BY <3>1, HeldHolding
      <3> QED BY <1>3, <3>2, <3>3, <3>4, IdleHolding
    <2> QED BY <2>1, <2>2, <2>3, <2>4 DEF Take, e
  <1> QED BY <1>2, <1>4 DEF Take, agent, Kept, Final, Shape, StoreShape,
                      DriverShape, ConsumerShape, StreamShape, AgentShape

\* The consumer lags behind the channel.
LEMMA LagStep ==
    ASSUME NEW g \in BOOLEAN, Shape(g), Lag
    PROVE  Kept(g)
  <1>1. inbox \in Seq(EventOf(g)) /\ inbox # <<>> /\ inbox' = Tail(inbox)
    BY DEF Lag, Shape, StreamShape
  <1>2. inbox' \in Seq(EventOf(g))
    BY <1>1
  <1> QED BY <1>2 DEF Lag, control, agent, Kept, Final, Shape, StoreShape,
                      DriverShape, ConsumerShape, StreamShape, AgentShape

\* The consumer applies an event to the operation.
LEMMA OperationStep ==
    ASSUME NEW g \in BOOLEAN, Shape(g), ApplyOperation
    PROVE  Kept(g)
  <1>1. con \in ConsumerOf /\ con.pc = "Operation"
    BY DEF ApplyOperation, Shape, ConsumerShape, Holding
  <1>2. con.op \in Ops /\ con.pop \in Pops /\ con.kind \in {"Running", "Unknown"} \cup Gone(g)
    BY <1>1 DEF Shape, ConsumerShape, Holding, ConsumerOf, Gone
  <1>3. [state |-> con.kind, pop |-> con.pop] \in OperationOf(g)
    BY <1>2 DEF OperationOf
  <1>4. op' \in [Ops -> OperationOf(g)] /\ Final(op, op')
    BY <1>2, <1>3, UpdateOperation DEF ApplyOperation, Shape, StoreShape
  <1>5. Holding(g, con')
    BY IdleHolding DEF ApplyOperation
  <1> QED BY <1>4, <1>5 DEF ApplyOperation, agent, Kept, Shape, StoreShape,
                      DriverShape, ConsumerShape, StreamShape, AgentShape

\* The consumer applies a success.
LEMMA SuccessStep ==
    ASSUME NEW g \in BOOLEAN, Shape(g), ApplySuccess
    PROVE  Kept(g)
  <1>1. con \in ConsumerOf /\ con.pc = "Finish"
    BY DEF ApplySuccess, Shape, ConsumerShape, Holding
  <1>2. con.op \in Ops /\ con.pop \in Pops /\ ~g
    BY <1>1 DEF Shape, ConsumerShape, Holding, ConsumerOf
  <1>3. op \in [Ops -> OperationOf(g)] /\ drv \in [Drivers -> DriverOf(g)]
    BY DEF Shape, StoreShape, DriverShape
  <1>4. Terminalized(op, op', con.op, con.pop, drv, drv', IdleConsumer, con')
    BY DEF ApplySuccess, terminalize_lifecycle, WriteResource, Terminalized
  <1>5. op' \in [Ops -> OperationOf(g)] /\ Final(op, op') /\ drv' \in [Drivers -> DriverOf(g)]
    BY <1>2, <1>3, <1>4, Terminalize
  <1>6. Holding(g, con')
    BY <1>4, IdleHolding DEF Terminalized, Holding, ConsumerOf
  <1> QED BY <1>2, <1>5, <1>6 DEF ApplySuccess, agent, Kept, Shape, StoreShape,
                      DriverShape, ConsumerShape, StreamShape, AgentShape

\* The consumer applies an observation.
LEMMA ObservationStep ==
    ASSUME NEW g \in BOOLEAN, Shape(g), ApplyObservation
    PROVE  Kept(g)
  <1> DEFINE next == IF con.closed THEN IdleConsumer ELSE [con EXCEPT !.pc = "Operation"]
  <1>1. con \in ConsumerOf /\ con.pc = "Project" /\ con.op \in Subjects
    BY DEF ApplyObservation, Shape, ConsumerShape, Holding, ConsumerOf
  <1>2. g => con.op = Create
    BY <1>1 DEF Shape, ConsumerShape, Holding, Subjects
  <1>3. Holding(g, next)
    <2>1. CASE con.closed
      BY <2>1, IdleHolding
    <2>2. CASE ~con.closed
      <3>1. con.op \in Ops /\ ~g /\ con.kind # "None"
        BY <1>1, <2>2 DEF Shape, ConsumerShape, Holding
      <3>2. next = [con EXCEPT !.pc = "Operation"]
        BY <2>2
      <3> QED BY <1>1, <3>1, <3>2 DEF Holding, ConsumerOf
    <2> QED BY <2>1, <2>2
  <1> HIDE DEF next
  <1>4. Holding(g, [next EXCEPT !.fresh = FALSE])
    BY <1>3 DEF Holding, ConsumerOf
  <1>5. Holding(g, con')
    BY <1>3, <1>4, IdleHolding DEF ApplyObservation, WriteResource, next
  <1>6. g => res' = "ACTIVE"
    BY <1>2 DEF ApplyObservation, WriteResource, ObservedState, Shape, StoreShape
  <1>7. drv' \in [Drivers -> DriverOf(g)]
    <2>1. drv' = drv \/ drv' = [p \in Drivers |-> [drv[p] EXCEPT !.fresh = FALSE]]
      BY DEF ApplyObservation, WriteResource
    <2>2. [p \in Drivers |-> [drv[p] EXCEPT !.fresh = FALSE]] \in [Drivers -> DriverOf(g)]
      BY Unfreshened DEF Shape, DriverShape
    <2> QED BY <2>1, <2>2 DEF Shape, DriverShape
  <1> QED BY <1>5, <1>6, <1>7 DEF ApplyObservation, agent, Kept, Final, Shape, StoreShape,
                      DriverShape, ConsumerShape, StreamShape, AgentShape

\* The provider applies an event.
LEMMA ProviderStep ==
    ASSUME NEW g \in BOOLEAN, Shape(g), apply_agent_provider_event
    PROVE  Kept(g)
  <1>1. PICK i \in DOMAIN inbox : ProviderEvent(inbox[i])
    BY DEF apply_agent_provider_event
  <1> DEFINE e == inbox[i]
  <1>2. e \in EventOf(g)
    BY <1>1 DEF Shape, StreamShape
  <1>3. row' \in [Ops -> RowOf(g)]
    <2>1. row' = row \/ (row' = update_agent_command(row, e.op, e.kind) /\ e.op \in Ops /\ e.kind # "Observed")
      BY <1>1 DEF ProviderEvent
    <2>2. e.op \in Ops /\ e.kind # "Observed" => e.kind \in {"Accepted", "Unknown"} \cup Gone(g)
      BY <1>2, Identities DEF EventOf, Gone
    <2>3. row \in [Ops -> RowOf(g)]
      BY DEF Shape, StoreShape
    <2> HIDE DEF e
    <2>4. ASSUME row' = update_agent_command(row, e.op, e.kind), e.op \in Ops, e.kind # "Observed"
          PROVE  row' \in [Ops -> RowOf(g)]
      BY <2>2, <2>3, <2>4, UpdateCommand
    <2> QED BY <2>1, <2>3, <2>4
  <1> QED BY <1>1, <1>3 DEF ProviderEvent, agent, Kept, Final, Shape, StoreShape,
                      DriverShape, ConsumerShape, StreamShape, AgentShape
-----------------------------------------------------------------------------
\* A sequence rewritten in place is a sequence.
LEMMA Rewritten ==
    ASSUME NEW S, NEW s \in Seq(S), NEW t \in [DOMAIN s -> S]
    PROVE  t \in Seq(S)
  OBVIOUS

\* Events sent after others have their shape.
LEMMA Sent ==
    ASSUME NEW g \in BOOLEAN, NEW a \in Seq(EventOf(g)), NEW b \in Seq(EventOf(g))
    PROVE  a \o b \in Seq(EventOf(g))
  OBVIOUS

\* Marking a journal entry keeps the shape of the journal.
LEMMA MarkShape ==
    ASSUME NEW g \in BOOLEAN, journal \in Seq(EntryOf(g)), NEW o \in Ops,
           NEW state \in {"Running", "Unknown"} \cup Gone(g)
    PROVE  Mark(o, state) \in Seq(EntryOf(g))
  <1>1. ASSUME NEW i \in DOMAIN journal, journal[i].op = o
        PROVE  [journal[i] EXCEPT !.state = state] \in EntryOf(g)
    <2>1. journal[i] \in EntryOf(g)
      OBVIOUS
    <2>2. journal[i] \in [op : Ops, state : {"Accepted", "Running", "Unknown"} \cup Gone(g)]
      BY <1>1, <2>1, Identities DEF EntryOf
    <2> QED BY <2>2 DEF EntryOf
  <1>2. ASSUME NEW i \in DOMAIN journal PROVE journal[i] \in EntryOf(g)
    OBVIOUS
  <1>3. Mark(o, state) \in [DOMAIN journal -> EntryOf(g)]
    BY <1>1, <1>2 DEF Mark
  <1> QED BY <1>3, Rewritten

\* The agent replays its journal.
LEMMA ReplayStep ==
    ASSUME NEW g \in BOOLEAN, Shape(g), Replay
    PROVE  Kept(g)
  <1>1. replay \in Seq(EntryOf(g)) /\ replay # <<>> /\ inbox \in Seq(EventOf(g))
    BY DEF Replay, Shape, AgentShape, StreamShape
  <1>2. Head(replay) \in EntryOf(g) /\ Tail(replay) \in Seq(EntryOf(g))
    BY <1>1
  <1>3. ReplayEntry(Head(replay)) \in Seq(EventOf(g))
    BY <1>2, ReplayShape
  <1>4. inbox' \in Seq(EventOf(g))
    BY <1>1, <1>3, Sent DEF Replay, Send
  <1>5. replay' \in Seq(EntryOf(g))
    BY <1>2 DEF Replay
  <1> QED BY <1>4, <1>5 DEF Replay, control, Kept, Final, Shape, StoreShape,
                      DriverShape, ConsumerShape, StreamShape, AgentShape

\* A command is delivered to the agent.
LEMMA DeliverStep ==
    ASSUME NEW g \in BOOLEAN, Shape(g), NEW o \in Ops, Deliver(o)
    PROVE  Kept(g)
  <1>1. journal \in Seq(EntryOf(g)) /\ inbox \in Seq(EventOf(g)) /\ hand \in HandOf(g) /\ wire' \subseteq Ops
    BY DEF Deliver, Shape, AgentShape, StreamShape
  <1>2. UNCHANGED <<op, row, res, drv, con, replay>>
    BY DEF Deliver, control
  <1>3. CASE Journaled(o)
    <2>1. Position(o) \in DOMAIN journal
      BY <1>3 DEF Journaled, Position
    <2>2. journal[Position(o)] \in EntryOf(g)
      BY <1>1, <2>1
    <2>3. ReplayEntry(journal[Position(o)]) \in Seq(EventOf(g))
      BY <2>2, ReplayShape
    <2>4. inbox' \in Seq(EventOf(g)) /\ UNCHANGED <<journal, hand>>
      BY <1>1, <1>3, <2>3, Sent DEF Deliver, Send
    <2> QED BY <1>1, <1>2, <2>4 DEF Kept, Final, Shape, StoreShape,
                      DriverShape, ConsumerShape, StreamShape, AgentShape
  <1>4. CASE ~Journaled(o)
    <2>1. [op |-> o, state |-> "Accepted"] \in EntryOf(g)
      BY DEF EntryOf
    <2>2. journal' = Append(journal, [op |-> o, state |-> "Accepted"]) /\ inbox' = inbox
      BY <1>4 DEF Deliver
    <2>5. journal' \in Seq(EntryOf(g))
      BY <1>1, <2>1, <2>2
    <2>3. hand' = [op |-> o, step |-> "Announce", result |-> "None"]
      BY <1>4 DEF Deliver
    <2>4. hand' \in HandOf(g) /\ hand'.op \in Ops /\ hand'.step # "Report"
      BY <2>3 DEF HandOf, Pops
    <2> QED BY <1>1, <1>2, <2>2, <2>4, <2>5 DEF Kept, Final, Shape, StoreShape,
                      DriverShape, ConsumerShape, StreamShape, AgentShape
  <1> QED BY <1>3, <1>4

\* The agent announces its commands.
LEMMA AnnounceStep ==
    ASSUME NEW g \in BOOLEAN, Shape(g), Announce
    PROVE  Kept(g)
  <1>1. journal \in Seq(EntryOf(g)) /\ inbox \in Seq(EventOf(g)) /\ hand \in HandOf(g) /\ hand.op \in Ops
    BY DEF Announce, Shape, AgentShape, StreamShape
  <1>2. <<Evidence(hand.op, "Accepted")>> \in Seq(EventOf(g))
    BY <1>1 DEF Evidence, EventOf
  <1>3. inbox' \in Seq(EventOf(g))
    BY <1>1, <1>2, Sent DEF Announce, Send
  <1>4. Mark(hand.op, "Running") \in Seq(EntryOf(g))
    BY <1>1, MarkShape
  <1>5. journal' \in Seq(EntryOf(g))
    BY <1>1, <1>4 DEF Announce
  <1>6. hand' \in HandOf(g) /\ (hand'.step # "Idle" => hand'.op \in Ops) /\ hand'.step # "Report"
    <2>1. CASE hand' = IdleHand
      BY <2>1, Idle DEF IdleHand
    <2>2. CASE hand' = [hand EXCEPT !.step = "Execute"]
      BY <1>1, <2>2 DEF HandOf
    <2> QED BY <2>1, <2>2 DEF Announce
  <1> QED BY <1>3, <1>5, <1>6 DEF Announce, control, Kept, Final, Shape, StoreShape,
                      DriverShape, ConsumerShape, StreamShape, AgentShape

\* The one step that removes the guest is the one that may report it.
LEMMA ExecuteStep ==
    ASSUME NEW g \in BOOLEAN, Shape(g), g => guest', Execute
    PROVE  Kept(g)
  <1>1. hand \in HandOf(g) /\ hand.op \in Ops
    BY DEF Execute, Shape, AgentShape
  <1>2. PICK r \in ExecuteResults :
            /\ hand' = [hand EXCEPT !.step = "Report", !.result = r[1]]
            /\ guest' = (guest /\ r[2])
    BY DEF Execute
  <1>3. r[1] \in {"Unknown"} \cup Gone(g)
    <2>1. r = <<"Succeeded", FALSE>> \/ r \in {"Unknown"} \X BOOLEAN
      BY DEF ExecuteResults
    <2>2. CASE r = <<"Succeeded", FALSE>>
      BY <1>2, <2>2 DEF Gone
    <2>3. CASE r \in {"Unknown"} \X BOOLEAN
      BY <2>3
    <2> QED BY <2>1, <2>2, <2>3
  <1>4. hand' \in HandOf(g) /\ hand'.op \in Ops /\ hand'.result # "None"
    BY <1>1, <1>2, <1>3 DEF HandOf, Gone
  <1> QED BY <1>4 DEF Execute, control, Kept, Final, Shape, StoreShape,
                      DriverShape, ConsumerShape, StreamShape, AgentShape

\* The agent reports an event.
LEMMA ReportStep ==
    ASSUME NEW g \in BOOLEAN, Shape(g), Report
    PROVE  Kept(g)
  <1>1. journal \in Seq(EntryOf(g)) /\ inbox \in Seq(EventOf(g)) /\ hand \in HandOf(g)
    BY DEF Shape, AgentShape, StreamShape
  <1>2. hand.op \in Ops /\ hand.result \in {"Unknown"} \cup Gone(g)
    BY <1>1 DEF Report, Shape, AgentShape, HandOf
  <1>3. [op |-> hand.op, state |-> hand.result] \in EntryOf(g)
    BY <1>2 DEF EntryOf
  <1>4. ReplayEntry([op |-> hand.op, state |-> hand.result]) \in Seq(EventOf(g))
    BY <1>3, ReplayShape
  <1>5. inbox' \in Seq(EventOf(g))
    BY <1>1, <1>4, Sent DEF Report, Send
  <1>6. journal' \in Seq(EntryOf(g))
    BY <1>1, <1>2, MarkShape DEF Report
  <1>7. hand' \in HandOf(g) /\ hand'.step = "Idle"
    BY Idle DEF Report, IdleHand
  <1> QED BY <1>5, <1>6, <1>7 DEF Report, control, Kept, Final, Shape, StoreShape,
                      DriverShape, ConsumerShape, StreamShape, AgentShape
\* The agent registers.
LEMMA RegisterStep ==
    ASSUME NEW g \in BOOLEAN, Shape(g), Register
    PROVE  Kept(g)
  <1>1. row' \in [Ops -> RowOf(g)]
    BY DEF Register, Shape, StoreShape, RowOf
  <1>2. inbox' \in Seq(EventOf(g)) /\ replay' \in Seq(EntryOf(g))
    BY DEF Register, Shape, AgentShape
  <1> QED BY <1>1, <1>2 DEF Register, Kept, Final, Shape, StoreShape,
                      DriverShape, ConsumerShape, StreamShape, AgentShape

\* Heartbeats, and the watch over them.
LEMMA PresenceStep ==
    ASSUME NEW g \in BOOLEAN, Shape(g), heartbeat \/ mark_unavailable
    PROVE  Kept(g)
  BY DEF heartbeat, mark_unavailable, agent, Kept, Final, Shape, StoreShape,
         DriverShape, ConsumerShape, StreamShape, AgentShape

\* A lost connection, a crash of the agent, a restart of the control plane.
LEMMA FaultStep ==
    ASSUME NEW g \in BOOLEAN, Shape(g), Disconnect \/ AgentCrash \/ ControlRestart
    PROVE  Kept(g)
  <1>1. CASE Disconnect
    <2>1. wire' = {} /\ replay' = <<>>
      BY <1>1 DEF Disconnect, Unlink
    <2> QED BY <1>1, <2>1 DEF Disconnect, control, Kept, Final, Shape, StoreShape,
                      DriverShape, ConsumerShape, StreamShape, AgentShape
  <1>2. CASE AgentCrash
    <2>1. wire' = {} /\ replay' = <<>> /\ hand' \in HandOf(g) /\ hand'.step = "Idle"
      BY <1>2, Idle DEF AgentCrash, Unlink, IdleHand
    <2>2. journal \in Seq(EntryOf(g))
      BY DEF Shape, AgentShape
    <2>3. ASSUME NEW i \in DOMAIN journal, journal[i].state \in {"Accepted", "Running"}
          PROVE  [journal[i] EXCEPT !.state = "Unknown"] \in EntryOf(g)
      <3>1. journal[i] \in EntryOf(g)
        BY <2>2
      <3>2. journal[i] \in [op : Ops, state : {"Accepted", "Running", "Unknown"} \cup Gone(g)]
        BY <2>3, <3>1 DEF EntryOf
      <3> QED BY <3>2 DEF EntryOf
    <2>4. journal' \in [DOMAIN journal -> EntryOf(g)]
      BY <1>2, <2>2, <2>3 DEF AgentCrash
    <2>5. journal' \in Seq(EntryOf(g))
      BY <2>2, <2>4, Rewritten
    <2> QED BY <1>2, <2>1, <2>5 DEF AgentCrash, control, Kept, Final, Shape, StoreShape,
                      DriverShape, ConsumerShape, StreamShape, AgentShape
  <1>3. CASE ControlRestart
    <2>1. wire' = {} /\ replay' = <<>> /\ inbox' = <<>> /\ con' = IdleConsumer
      BY <1>3 DEF ControlRestart, Unlink
    <2>2. drv' \in [Drivers -> DriverOf(g)]
      BY <1>3, Idle DEF ControlRestart
    <2>3. Holding(g, con')
      BY <2>1, IdleHolding
    <2> QED BY <1>3, <2>1, <2>2, <2>3 DEF ControlRestart, Kept, Final, Shape, StoreShape,
                      DriverShape, ConsumerShape, StreamShape, AgentShape
  <1> QED BY <1>1, <1>2, <1>3

\* Every step keeps the shape, and terminal operations.
LEMMA Step ==
    ASSUME NEW g \in BOOLEAN, Shape(g), g => registry # "Absent", g => guest', [Next]_vars
    PROVE  Kept(g)
  <1>1. CASE UNCHANGED vars
    BY <1>1 DEF vars, Kept, Final, Shape, StoreShape, DriverShape, ConsumerShape, StreamShape, AgentShape
  <1>2. ASSUME NEW p \in Drivers, delete_server(p) \/ Driver(p) PROVE Kept(g)
    BY <1>2, RequestStep, ReadStep, StartStep, ObserveStep, RecordStep, DispatchStep, ResultStep DEF Driver
  <1>3. ASSUME NEW o \in Ops, drive_all_lifecycle_convergence(o) \/ Deliver(o) PROVE Kept(g)
    BY <1>3, SweepStep, DeliverStep
  <1>4. CASE Consumer
    BY <1>4, TakeStep, OperationStep, SuccessStep, ObservationStep DEF Consumer
  <1>5. CASE apply_agent_provider_event
    BY <1>5, ProviderStep
  <1>6. CASE Agent
    BY <1>6, ReplayStep, AnnounceStep, ExecuteStep, ReportStep, RegisterStep, PresenceStep DEF Agent
  <1>7. CASE Fault
    BY <1>7, LagStep, PresenceStep, FaultStep DEF Fault
  <1> QED BY <1>1, <1>2, <1>3, <1>4, <1>5, <1>6, <1>7 DEF Next

\* The shape holds at the start.
LEMMA InitShape ==
    ASSUME NEW g \in BOOLEAN, Init
    PROVE  Shape(g)
  <1>1. op \in [Ops -> OperationOf(g)] /\ row \in [Ops -> RowOf(g)] /\ res = "ACTIVE"
    BY DEF Init, OperationOf, RowOf, Pops
  <1>2. drv \in [Drivers -> DriverOf(g)] /\ Holding(g, con)
    BY Idle, IdleHolding DEF Init
  <1>3. [op |-> Create, state |-> "Succeeded"] \in EntryOf(g)
    BY DEF EntryOf
  <1>4. journal \in Seq(EntryOf(g)) /\ replay \in Seq(EntryOf(g)) /\ inbox \in Seq(EventOf(g)) /\ wire = {}
    BY <1>3 DEF Init
  <1>5. hand \in HandOf(g) /\ hand.step = "Idle"
    BY Idle DEF Init, IdleHand
  <1> QED BY <1>1, <1>2, <1>4, <1>5 DEF Shape, StoreShape, DriverShape,
                      ConsumerShape, StreamShape, AgentShape

\* A terminal operation keeps its state and its provider operation, whichever
\* of the drivers, the sweep, the consumer and the observations writes last.
THEOREM TerminalFinal == Spec => TerminalIsFinal
  <1>1. Init => Shape(FALSE)
    BY InitShape
  <1>2. Shape(FALSE) /\ [Next]_vars => Shape(FALSE)' /\ Final(op, op')
    BY Step DEF Kept
  <1>3. Shape(FALSE) /\ [Next]_vars => [\A o \in Ops : op[o].state \in Terminal =>
          /\ op'[o].state = op[o].state
          /\ op[o].pop # None => op'[o].pop = op[o].pop]_vars
    BY <1>2 DEF Final
  <1> QED BY <1>1, <1>2, <1>3, PTL DEF Spec, TerminalIsFinal

\* While the guest exists the whole system is free of evidence of a deletion,
\* and the control plane knows the agent's node.
Evidenceless ==
    /\ guest \in BOOLEAN
    /\ registry # "Absent"
    /\ spent \in [requests : Nat, disconnects : Nat, crashes : Nat, restarts : Nat, lags : Nat]
    /\ Shape(FALSE)
    /\ guest => Shape(TRUE)

\* What a step does to the guest, the registry and the bounds.
LEMMA WorldStep ==
    ASSUME MaxRestarts = 0, Evidenceless, [Next]_vars
    PROVE  /\ guest' \in BOOLEAN /\ (guest' => guest)
           /\ registry' # "Absent"
           /\ spent' \in [requests : Nat, disconnects : Nat, crashes : Nat, restarts : Nat, lags : Nat]
  <1> DEFINE Budget == [requests : Nat, disconnects : Nat, crashes : Nat, restarts : Nat, lags : Nat]
  <1> USE DEF Evidenceless
  <1>1. \A w \in {"requests", "disconnects", "crashes", "lags"} :
            [spent EXCEPT ![w] = @ + 1] \in Budget
    OBVIOUS
  <1>2. CASE UNCHANGED vars
    BY <1>2 DEF vars
  <1>3. ASSUME NEW p \in Drivers, delete_server(p) PROVE UNCHANGED <<guest, registry>> /\ spent' \in Budget
    BY <1>1, <1>3 DEF delete_server, agent, Spend
  <1>4. ASSUME NEW p \in Drivers, Driver(p) PROVE UNCHANGED <<guest, registry, spent>>
    BY <1>4 DEF Driver, reconcile_lifecycle_once, Start, Observe, delete_instance, dispatch_command, handle_lifecycle_result, agent
  <1>5. ASSUME NEW o \in Ops, drive_all_lifecycle_convergence(o) \/ Deliver(o)
        PROVE  UNCHANGED <<guest, registry, spent>>
    BY <1>5 DEF drive_all_lifecycle_convergence, Deliver, agent, control
  <1>6. ASSUME Consumer \/ apply_agent_provider_event PROVE UNCHANGED <<guest, registry, spent>>
    BY <1>6 DEF Consumer, Take, ApplyOperation, ApplySuccess, ApplyObservation,
                apply_agent_provider_event, ProviderEvent, agent
  <1>7. CASE Agent
    <2>1. CASE Execute
      <3>1. PICK r \in ExecuteResults :
                /\ guest' = (guest /\ r[2])
                /\ spent' = IF r[1] = "Unknown" THEN [spent EXCEPT !.crashes = @ + 1] ELSE spent
        BY <2>1 DEF Execute
      <3>2. spent' \in Budget
        BY <1>1, <3>1
      <3>3. registry' = registry
        BY <2>1 DEF Execute, control
      <3>4. guest' \in BOOLEAN /\ (guest' => guest)
        BY <3>1
      <3> QED BY <3>2, <3>3, <3>4
    <2>2. CASE Replay \/ Announce \/ Report \/ Register \/ heartbeat
      BY <2>2 DEF Replay, Announce, Report, Register, heartbeat, control, agent
    <2> QED BY <1>7, <2>1, <2>2 DEF Agent
  <1>8. CASE Fault
    <2>1. ~ControlRestart
      BY DEF ControlRestart, Spend
    <2>2. CASE mark_unavailable
      BY <2>2 DEF mark_unavailable, agent
    <2>3. CASE Lag \/ Disconnect \/ AgentCrash
      <3>1. UNCHANGED <<guest, registry>>
        BY <2>3 DEF Lag, Disconnect, AgentCrash, control, agent
      <3>2. spent' \in Budget
        BY <1>1, <2>3 DEF Lag, Disconnect, AgentCrash, Spend
      <3> QED BY <3>1, <3>2
    <2> QED BY <1>8, <2>1, <2>2, <2>3 DEF Fault
  <1> QED BY <1>2, <1>3, <1>4, <1>5, <1>6, <1>7, <1>8 DEF Next

\* As long as the control plane does not restart, neither a lost answer nor
\* an agent out of reach nor a re-drive makes it report a deletion that did
\* not happen: DELETED and Succeeded are shown only when the guest is gone.
THEOREM DeletedGone ==
    ASSUME MaxRestarts = 0
    PROVE  Spec => []DeletedIsGone
  <1>1. Init => Evidenceless
    <2> SUFFICES ASSUME Init PROVE Evidenceless
      OBVIOUS
    <2>1. Shape(FALSE) /\ Shape(TRUE)
      BY InitShape
    <2>2. guest \in BOOLEAN /\ registry # "Absent"
      BY DEF Init
    <2>3. spent \in [requests : Nat, disconnects : Nat, crashes : Nat, restarts : Nat, lags : Nat]
      BY DEF Init
    <2> QED BY <2>1, <2>2, <2>3 DEF Evidenceless
  <1>2. Evidenceless /\ [Next]_vars => Evidenceless'
    <2> SUFFICES ASSUME Evidenceless, [Next]_vars PROVE Evidenceless'
      OBVIOUS
    <2>1. Shape(FALSE)'
      BY Step DEF Evidenceless, Kept
    <2>2. ASSUME guest' PROVE Shape(TRUE)'
      BY <2>2, WorldStep, Step DEF Evidenceless, Kept
    <2> QED BY <2>1, <2>2, WorldStep DEF Evidenceless
  <1>3. Evidenceless => DeletedIsGone
    BY DEF Evidenceless, DeletedIsGone, Shape, StoreShape, OperationOf, Gone
  <1> QED BY <1>1, <1>2, <1>3, PTL DEF Spec

-----------------------------------------------------------------------------
(***************************************************************************)
(* The type invariant.  Shape(FALSE) types most of the state.  That the     *)
(* watermark stays within the journal needs more: an observation that is    *)
(* projected names an entry of the journal.  So does everything it comes    *)
(* from: the events on the stream, the entries replayed, the command in     *)
(* hand; and no entry is ever removed.                                      *)
(***************************************************************************)
Named(s) == {s[i].op : i \in DOMAIN s}

Traced ==
    /\ Named(inbox) \subseteq Named(journal)
    /\ Named(replay) \subseteq Named(journal)
    /\ hand.step # "Idle" => hand.op \in Named(journal)
    /\ con.pc = "Project" => con.op \in Named(journal)
    /\ mark \in 0..Len(journal)

Scalars ==
    /\ attempts \in [Ops -> 0..(MaxAttempts - 1)]
    /\ res \in {"ACTIVE", "DELETED"}
    /\ registry \in {"Absent", "Available", "Unavailable"}
    /\ bound \in {"None", "Current", "Stale"}
    /\ seen \subseteq Subjects

Switches == linked \in BOOLEAN /\ guest \in BOOLEAN

\* What a concatenation, a rest and a single event name.
LEMMA NamedJoined ==
    ASSUME NEW S, NEW s \in Seq(S), NEW t \in Seq(S)
    PROVE  Named(s \o t) \subseteq Named(s) \cup Named(t)
  <1> SUFFICES ASSUME NEW i \in DOMAIN (s \o t)
               PROVE  (s \o t)[i].op \in Named(s) \cup Named(t)
    BY DEF Named
  <1>1. i \in 1..(Len(s) + Len(t)) /\ Len(s) \in Nat /\ Len(t) \in Nat
    OBVIOUS
  <1>2. CASE i <= Len(s)
    <2>1. (s \o t)[i] = s[i] /\ i \in DOMAIN s
      BY <1>1, <1>2
    <2> QED BY <2>1 DEF Named
  <1>3. CASE i > Len(s)
    <2>1. (s \o t)[i] = t[i - Len(s)] /\ i - Len(s) \in DOMAIN t
      BY <1>1, <1>3
    <2> QED BY <2>1 DEF Named
  <1> QED BY <1>1, <1>2, <1>3

\* The rest of a sequence names no more, and its head is named.
LEMMA NamedRest ==
    ASSUME NEW S, NEW s \in Seq(S), s # <<>>
    PROVE  Named(Tail(s)) \subseteq Named(s) /\ Head(s).op \in Named(s)
  <1>1. ASSUME NEW i \in DOMAIN Tail(s)
        PROVE  Tail(s)[i] = s[i + 1] /\ i + 1 \in DOMAIN s
    OBVIOUS
  <1>2. 1 \in DOMAIN s /\ Head(s) = s[1]
    OBVIOUS
  <1> QED BY <1>1, <1>2 DEF Named

\* What an entry sends is about the entry's operation.
LEMMA NamedReplay ==
    ASSUME NEW e
    PROVE  Named(ReplayEntry(e)) \subseteq {e.op}
  <1>1. Named(<<>>) = {}
    BY DEF Named
  <1>2. \A o, k : Named(<<Evidence(o, k)>>) \subseteq {o}
    BY DEF Named, Evidence
  <1>3. \A o, k, l : Named(<<Evidence(o, k), Evidence(o, l)>>) \subseteq {o}
    BY DEF Named, Evidence
  <1> QED BY <1>1, <1>2, <1>3 DEF ReplayEntry

\* Sequences with one domain have one length.
LEMMA SameLength ==
    ASSUME NEW S, NEW s \in Seq(S), NEW T, NEW t \in Seq(T), DOMAIN t = DOMAIN s
    PROVE  Len(t) = Len(s)
  <1> DEFINE m == Len(s)
             n == Len(t)
  <1>1. DOMAIN t = 1..n /\ DOMAIN s = 1..m /\ n \in Nat /\ m \in Nat
    OBVIOUS
  <1>2. 1..n = 1..m
    BY <1>1
  <1> HIDE DEF m, n
  <1>3. \A i \in Nat : i \in 1..n <=> i \in 1..m
    BY <1>2
  <1>4. n = m
    BY <1>1, <1>3, n \in 1..n \/ n = 0, m \in 1..m \/ m = 0
  <1> QED BY <1>4 DEF m, n

\* A journal whose entries are rewritten in place names what it named.
LEMMA NamedRewritten ==
    ASSUME NEW S, NEW s \in Seq(S), NEW T, NEW t \in Seq(T), DOMAIN t = DOMAIN s,
           \A i \in DOMAIN s : t[i].op = s[i].op
    PROVE  Named(t) = Named(s) /\ Len(t) = Len(s)
  <1>1. Named(t) = Named(s)
    BY DEF Named
  <1>2. Len(t) = Len(s)
    BY SameLength
  <1> QED BY <1>1, <1>2

\* Marking an entry removes none.
LEMMA MarkNames ==
    ASSUME NEW g \in BOOLEAN, journal \in Seq(EntryOf(g)), NEW o \in Ops,
           NEW state \in {"Running", "Unknown"} \cup Gone(g)
    PROVE  Named(Mark(o, state)) = Named(journal) /\ Len(Mark(o, state)) = Len(journal)
  <1>1. Mark(o, state) \in Seq(EntryOf(g))
    BY MarkShape
  <1>2. DOMAIN Mark(o, state) = DOMAIN journal
    BY DEF Mark
  <1>3. ASSUME NEW i \in DOMAIN journal PROVE Mark(o, state)[i].op = journal[i].op
    <2>1. journal[i] \in EntryOf(g)
      OBVIOUS
    <2>2. [journal[i] EXCEPT !.state = state].op = journal[i].op
      BY <2>1 DEF EntryOf
    <2> QED BY <2>2 DEF Mark
  <1> QED BY <1>1, <1>2, <1>3, NamedRewritten

\* Evidence that is sent names what the journal names.
LEMMA SendNames ==
    ASSUME NEW g \in BOOLEAN, inbox \in Seq(EventOf(g)), NEW b \in Seq(EventOf(g)),
           Named(inbox) \subseteq Named(journal), Named(b) \subseteq Named(journal), Send(b)
    PROVE  Named(inbox') \subseteq Named(journal)
  <1>1. Named(inbox \o b) \subseteq Named(inbox) \cup Named(b)
    BY NamedJoined
  <1> QED BY <1>1 DEF Send

\* The control plane's writers leave the journal, the stream and the agent alone.
LEMMA ControlTraced ==
    ASSUME NEW g \in BOOLEAN, Shape(g), Traced, UNCHANGED <<inbox, journal, replay, hand, mark>>,
           \/ con' \in {con, [con EXCEPT !.fresh = FALSE]}
           \/ con'.pc # "Project"
    PROVE  Traced'
  <1>1. con \in ConsumerOf
    BY DEF Shape, ConsumerShape, Holding
  <1>2. con'.pc = "Project" => con'.pc = con.pc /\ con'.op = con.op
    BY <1>1 DEF ConsumerOf
  <1> QED BY <1>2 DEF Traced

\* A driver may make the consumer stale, and touches nothing the agent sent.
LEMMA DriversTraced ==
    ASSUME NEW g \in BOOLEAN, Shape(g), Traced, NEW p \in Drivers, delete_server(p) \/ Driver(p)
    PROVE  Traced'
  <1>1. UNCHANGED <<inbox, journal, replay, hand, mark>>
    BY DEF delete_server, Driver, reconcile_lifecycle_once, Start, Observe, delete_instance, dispatch_command,
           handle_lifecycle_result, agent
  <1>2. con' \in {con, [con EXCEPT !.fresh = FALSE]}
    BY DEF delete_server, Driver, reconcile_lifecycle_once, Start, Observe, delete_instance, dispatch_command,
           handle_lifecycle_result, finish_lifecycle, terminalize_lifecycle, WriteResource,
           redrive_delete, retry_or_fail
  <1> QED BY <1>1, <1>2, ControlTraced

\* The consumer projects what it took from the stream, at its position in the journal.
LEMMA ConsumerTraced ==
    ASSUME NEW g \in BOOLEAN, Shape(g), Traced, Consumer
    PROVE  Traced'
  <1>1. UNCHANGED <<journal, replay, hand>>
    BY DEF Consumer, Take, ApplyOperation, ApplySuccess, ApplyObservation, agent
  <1>2. CASE Take
    <2>1. inbox \in Seq(EventOf(g)) /\ inbox # <<>> /\ inbox' = Tail(inbox) /\ mark' = mark
      BY <1>2 DEF Take, Shape, StreamShape
    <2>2. Named(inbox') \subseteq Named(inbox) /\ Head(inbox).op \in Named(inbox)
      BY <2>1, NamedRest
    <2>3. con'.pc = "Project" => con'.op = Head(inbox).op
      BY <1>2 DEF Take, TakeAccepted, TakeSucceeded, TakeUnknown, TakeObserved, IdleConsumer, Held
    <2> QED BY <1>1, <2>1, <2>2, <2>3 DEF Traced
  <1>3. CASE ApplyOperation \/ ApplySuccess
    <2>1. con'.pc # "Project" /\ UNCHANGED <<inbox, mark>>
      BY <1>3 DEF ApplyOperation, ApplySuccess, terminalize_lifecycle, WriteResource, IdleConsumer
    <2> QED BY <1>1, <2>1, ControlTraced
  <1>4. CASE ApplyObservation
    <2>1. con \in ConsumerOf
      BY DEF Shape, ConsumerShape, Holding
    <2>2. con'.pc # "Project" /\ UNCHANGED inbox
      <3> DEFINE next == IF con.closed THEN IdleConsumer ELSE [con EXCEPT !.pc = "Operation"]
      <3>1. next.pc # "Project" /\ IdleConsumer.pc # "Project" /\ next \in ConsumerOf
        BY <2>1, Idle DEF IdleConsumer, ConsumerOf
      <3> HIDE DEF next
      <3>2. [next EXCEPT !.fresh = FALSE].pc # "Project"
        BY <3>1 DEF ConsumerOf
      <3>3. con' = IdleConsumer \/ con' = next \/ con' = [next EXCEPT !.fresh = FALSE]
        BY <1>4 DEF ApplyObservation, WriteResource, next
      <3> QED BY <1>4, <3>1, <3>2, <3>3 DEF ApplyObservation
    <2>3. Position(con.op) \in DOMAIN journal
      <3>1. con.op \in Named(journal)
        BY <1>4 DEF ApplyObservation, Traced
      <3> QED BY <3>1 DEF Named, Position
    <2>4. mark' \in 0..Len(journal)
      <3>1. journal \in Seq(EntryOf(g))
        BY DEF Shape, AgentShape
      <3>2. Position(con.op) \in 1..Len(journal) /\ Len(journal) \in Nat
        BY <2>3, <3>1
      <3>3. mark' = mark \/ mark' = Position(con.op)
        BY <1>4 DEF ApplyObservation
      <3> QED BY <3>2, <3>3 DEF Traced
    <2> QED BY <1>1, <2>2, <2>4 DEF Traced
  <1> QED BY <1>2, <1>3, <1>4 DEF Consumer

\* A command is journaled before it is handled; one that was journaled is answered from its entry.
LEMMA DeliverTraced ==
    ASSUME NEW g \in BOOLEAN, Shape(g), Traced, NEW o \in Ops, Deliver(o)
    PROVE  Traced'
  <1>1. /\ journal \in Seq(EntryOf(g)) /\ inbox \in Seq(EventOf(g))
        /\ UNCHANGED <<con, mark, replay>>
    BY DEF Deliver, control, Shape, AgentShape, StreamShape
  <1>2. CASE Journaled(o)
    <2>1. Position(o) \in DOMAIN journal /\ journal[Position(o)].op = o
      BY <1>2 DEF Journaled, Position
    <2>2. journal[Position(o)] \in EntryOf(g)
      BY <1>1, <2>1
    <2>3. ReplayEntry(journal[Position(o)]) \in Seq(EventOf(g))
      BY <2>2, ReplayShape
    <2>4. Named(ReplayEntry(journal[Position(o)])) \subseteq Named(journal)
      BY <2>1, NamedReplay DEF Named
    <2>5. Named(inbox') \subseteq Named(journal) /\ UNCHANGED <<journal, hand>>
      <3>1. Send(ReplayEntry(journal[Position(o)])) /\ UNCHANGED <<journal, hand>>
        BY <1>2 DEF Deliver
      <3> QED BY <1>1, <2>3, <2>4, <3>1, SendNames DEF Traced
    <2> QED BY <1>1, <2>5 DEF Traced
  <1>3. CASE ~Journaled(o)
    <2> DEFINE e == [op |-> o, state |-> "Accepted"]
    <2>1. journal' = Append(journal, e) /\ inbox' = inbox /\ hand'.op = o
      BY <1>3 DEF Deliver
    <2>2. e \in EntryOf(g)
      BY DEF EntryOf
    <2>3. /\ Len(journal') = Len(journal) + 1 /\ Len(journal) \in Nat
          /\ DOMAIN journal' = 1..(Len(journal) + 1) /\ DOMAIN journal = 1..Len(journal)
          /\ \A i \in DOMAIN journal : journal'[i] = journal[i]
          /\ journal'[Len(journal) + 1] = e
      BY <1>1, <2>1, <2>2
    <2>4. DOMAIN journal \subseteq DOMAIN journal' /\ Len(journal) + 1 \in DOMAIN journal'
      BY <2>3
    <2>5. Named(journal) \subseteq Named(journal') /\ o \in Named(journal')
      BY <2>3, <2>4 DEF Named
    <2>6. mark \in 0..(Len(journal) + 1)
      BY <2>3 DEF Traced
    <2> QED BY <1>1, <2>1, <2>3, <2>5, <2>6 DEF Traced
  <1> QED BY <1>2, <1>3

\* The agent sends what it replays or handles, and that is journaled.
LEMMA AgentTraced ==
    ASSUME NEW g \in BOOLEAN, Shape(g), Traced, Replay \/ Announce \/ Execute \/ Report
    PROVE  Traced'
  <1>1. /\ journal \in Seq(EntryOf(g)) /\ inbox \in Seq(EventOf(g)) /\ hand \in HandOf(g)
        /\ UNCHANGED <<con, mark>>
    BY DEF Replay, Announce, Execute, Report, control, Shape, AgentShape, StreamShape
  <1>2. CASE Replay
    <2>1. replay \in Seq(EntryOf(g)) /\ replay # <<>> /\ UNCHANGED <<journal, hand>>
      BY <1>2 DEF Replay, Shape, AgentShape
    <2>2. Head(replay) \in EntryOf(g) /\ Named(Tail(replay)) \subseteq Named(replay)
          /\ Head(replay).op \in Named(replay)
      BY <2>1, NamedRest
    <2>3. ReplayEntry(Head(replay)) \in Seq(EventOf(g))
      BY <2>2, ReplayShape
    <2>4. Named(ReplayEntry(Head(replay))) \subseteq Named(journal)
      BY <2>2, NamedReplay DEF Traced
    <2>5. Named(inbox') \subseteq Named(journal)
      BY <1>1, <1>2, <2>3, <2>4, SendNames DEF Replay, Traced
    <2> QED BY <1>1, <1>2, <2>1, <2>2, <2>5 DEF Replay, Traced
  <1>3. CASE Announce
    <2>1. hand.op \in Ops /\ hand.op \in Named(journal)
      BY <1>3 DEF Announce, Shape, AgentShape, Traced
    <2> DEFINE b == <<Evidence(hand.op, "Accepted")>>
    <2>2. b \in Seq(EventOf(g)) /\ Named(b) \subseteq {hand.op}
      BY <2>1 DEF Evidence, EventOf, Named
    <2> HIDE DEF b
    <2>3. Named(inbox') \subseteq Named(journal)
      <3>1. Send(b)
        BY <1>3 DEF Announce, b
      <3> QED BY <1>1, <2>1, <2>2, <3>1, SendNames DEF Traced
    <2>4. Named(journal') = Named(journal) /\ Len(journal') = Len(journal)
      <3>1. journal' = journal \/ journal' = Mark(hand.op, "Running")
        BY <1>3 DEF Announce
      <3> QED BY <1>1, <2>1, <3>1, MarkNames
    <2>5. hand'.step # "Idle" => hand'.op = hand.op
      BY <1>1, <1>3 DEF Announce, IdleHand, HandOf
    <2> QED BY <1>1, <1>3, <2>1, <2>3, <2>4, <2>5 DEF Announce, Traced
  <1>4. CASE Execute
    <2>1. hand'.op = hand.op /\ UNCHANGED <<inbox, journal, replay>> /\ hand.step # "Idle"
      BY <1>1, <1>4 DEF Execute, HandOf
    <2> QED BY <1>1, <2>1 DEF Traced
  <1>5. CASE Report
    <2>1. /\ hand.op \in Ops /\ hand.op \in Named(journal)
          /\ hand.result \in {"Unknown"} \cup Gone(g)
      BY <1>1, <1>5 DEF Report, Shape, AgentShape, HandOf, Traced
    <2> DEFINE e == [op |-> hand.op, state |-> hand.result]
    <2>2. e \in EntryOf(g) /\ e.op = hand.op
      BY <2>1 DEF EntryOf
    <2>3. Send(ReplayEntry(e)) /\ journal' = Mark(hand.op, hand.result)
      BY <1>5 DEF Report
    <2> HIDE DEF e
    <2>4. ReplayEntry(e) \in Seq(EventOf(g)) /\ Named(ReplayEntry(e)) \subseteq Named(journal)
      BY <2>1, <2>2, ReplayShape, NamedReplay
    <2>5. Named(inbox') \subseteq Named(journal)
      BY <1>1, <2>3, <2>4, SendNames DEF Traced
    <2>6. Named(journal') = Named(journal) /\ Len(journal') = Len(journal)
      BY <1>1, <2>1, <2>3, MarkNames
    <2>7. hand'.step = "Idle" /\ UNCHANGED replay
      BY <1>5 DEF Report, IdleHand
    <2> QED BY <1>1, <2>5, <2>6, <2>7 DEF Traced
  <1> QED BY <1>2, <1>3, <1>4, <1>5

\* A registration replays the journal; no fault removes an entry.
LEMMA FaultTraced ==
    ASSUME NEW g \in BOOLEAN, Shape(g), Traced, Register \/ Lag \/ Disconnect \/ AgentCrash \/ ControlRestart
    PROVE  Traced'
  <1>1. Named(<<>>) = {}
    BY DEF Named
  <1>2. journal \in Seq(EntryOf(g)) /\ Len(journal) \in Nat
    BY DEF Shape, AgentShape
  <1>3. CASE Register
    <2>1. /\ inbox' = <<>> /\ replay' = journal /\ mark' = 0
          /\ UNCHANGED <<con, journal, hand>>
      BY <1>3 DEF Register
    <2> QED BY <1>1, <1>2, <2>1 DEF Traced
  <1>4. CASE Lag
    <2>1. inbox \in Seq(EventOf(g)) /\ inbox # <<>> /\ inbox' = Tail(inbox)
      BY <1>4 DEF Lag, Shape, StreamShape
    <2>2. Named(inbox') \subseteq Named(inbox)
      BY <2>1, NamedRest
    <2> QED BY <1>4, <2>2 DEF Lag, control, agent, Traced
  <1>5. CASE Disconnect
    BY <1>1, <1>5 DEF Disconnect, Unlink, control, Traced
  <1>6. CASE AgentCrash
    <2>1. journal' \in Seq(EntryOf(g))
      BY <1>6, FaultStep DEF Kept, Shape, AgentShape
    <2>2. DOMAIN journal' = DOMAIN journal
      BY <1>6 DEF AgentCrash
    <2>3. ASSUME NEW i \in DOMAIN journal PROVE journal'[i].op = journal[i].op
      <3>1. journal[i] \in EntryOf(g)
        BY <1>2
      <3>2. [journal[i] EXCEPT !.state = "Unknown"].op = journal[i].op
        BY <3>1 DEF EntryOf
      <3> QED BY <1>6, <3>2 DEF AgentCrash
    <2>4. Named(journal') = Named(journal) /\ Len(journal') = Len(journal)
      BY <1>2, <2>1, <2>2, <2>3, NamedRewritten
    <2>5. hand'.step = "Idle" /\ replay' = <<>> /\ UNCHANGED <<inbox, con, mark>>
      BY <1>6 DEF AgentCrash, Unlink, IdleHand, control
    <2> QED BY <1>1, <2>4, <2>5 DEF Traced
  <1>7. CASE ControlRestart
    BY <1>1, <1>7 DEF ControlRestart, Unlink, IdleConsumer, Traced
  <1> QED BY <1>3, <1>4, <1>5, <1>6, <1>7

\* Traced is inductive relative to Shape(FALSE).
LEMMA TracedStep ==
    ASSUME NEW g \in BOOLEAN, Shape(g), Traced, [Next]_vars
    PROVE  Traced'
  <1>1. CASE UNCHANGED vars
    BY <1>1 DEF vars, Traced
  <1>2. ASSUME NEW o \in Ops, drive_all_lifecycle_convergence(o) PROVE Traced'
    BY <1>2, ControlTraced DEF drive_all_lifecycle_convergence, agent
  <1>3. CASE apply_agent_provider_event
    BY <1>3, ControlTraced DEF apply_agent_provider_event, ProviderEvent, agent
  <1>4. CASE heartbeat \/ mark_unavailable
    BY <1>4, ControlTraced DEF heartbeat, mark_unavailable, agent
  <1> QED BY <1>1, <1>2, <1>3, <1>4, DriversTraced, ConsumerTraced, DeliverTraced, AgentTraced,
             FaultTraced DEF Next, Agent, Fault

\* The retry counter, the projection, the registry and the observations stay
\* in their ranges.
LEMMA ScalarsStep ==
    ASSUME NEW g \in BOOLEAN, Shape(g), Scalars, [Next]_vars
    PROVE  Scalars'
  <1>1. rehydrate \in {"None", "Current", "Stale"}
    BY DEF rehydrate, Scalars
  <1>2. ASSUME NEW p \in Drivers, delete_server(p) \/ Driver(p) PROVE Scalars'
    <2>1. attempts' \in [Ops -> 0..(MaxAttempts - 1)]
      <3>1. drv[p].op \in Ops
        BY DEF Shape, DriverShape, DriverOf
      <3>2. CASE attempts' = attempts
        BY <3>2 DEF Scalars
      <3>3. CASE handle_lifecycle_result(p) /\ retry_or_fail(p)
        <4> DEFINE a == attempts[drv[p].op]
        <4>1. a \in 0..(MaxAttempts - 1)
          BY <3>1 DEF Scalars
        <4>2. (IF a + 1 >= MaxAttempts THEN a ELSE a + 1) \in 0..(MaxAttempts - 1)
          BY <4>1, BoundsAssumption
        <4> QED BY <3>1, <3>3, <4>2 DEF retry_or_fail, Scalars
      <3> QED BY <1>2, <3>2, <3>3 DEF delete_server, Driver, reconcile_lifecycle_once, Start,
                   Observe, delete_instance, dispatch_command, handle_lifecycle_result
    <2>2. res' \in {"ACTIVE", "DELETED"}
      BY <1>2 DEF delete_server, Driver, reconcile_lifecycle_once, Start, Observe, delete_instance, dispatch_command,
           handle_lifecycle_result, finish_lifecycle, terminalize_lifecycle, WriteResource,
           redrive_delete, retry_or_fail, Scalars
    <2>3. UNCHANGED <<registry, seen>> /\ bound' \in {bound, rehydrate}
      BY <1>2 DEF delete_server, Driver, reconcile_lifecycle_once, Start, Observe, delete_instance, dispatch_command,
           handle_lifecycle_result
    <2> QED BY <1>1, <2>1, <2>2, <2>3 DEF Scalars
  <1>3. CASE Consumer
    <2>1. UNCHANGED <<attempts, registry, bound>>
      BY <1>3 DEF Consumer, Take, ApplyOperation, ApplySuccess, ApplyObservation
    <2>2. res' \in {"ACTIVE", "DELETED"}
      BY <1>3 DEF Consumer, Take, ApplyOperation, ApplySuccess, ApplyObservation,
           terminalize_lifecycle, WriteResource, ObservedState, Scalars
    <2>3. seen' \subseteq Subjects
      <3>1. CASE Take
        <4>1. inbox \in Seq(EventOf(g)) /\ inbox # <<>>
          BY <3>1 DEF Take, Shape, StreamShape
        <4>2. Head(inbox) \in EventOf(g)
          BY <4>1
        <4>3. Head(inbox).op \in Subjects
          BY <4>2 DEF EventOf, Subjects
        <4> QED BY <3>1, <4>3 DEF Take, TakeAccepted, TakeSucceeded, TakeUnknown, TakeObserved, Scalars
      <3>2. CASE seen' = seen
        BY <3>2 DEF Scalars
      <3> QED BY <1>3, <3>1, <3>2 DEF Consumer, ApplyOperation, ApplySuccess, ApplyObservation
    <2> QED BY <2>1, <2>2, <2>3 DEF Scalars
  <1>4. CASE apply_agent_provider_event
    BY <1>4 DEF apply_agent_provider_event, ProviderEvent, Scalars
  <1>5. ASSUME NEW o \in Ops, drive_all_lifecycle_convergence(o) \/ Deliver(o) PROVE Scalars'
    BY <1>5 DEF drive_all_lifecycle_convergence, Deliver, control, Scalars
  <1>6. CASE Agent
    BY <1>6 DEF Agent, Replay, Announce, Execute, Report, Register, heartbeat, control, Scalars
  <1>7. CASE Fault
    BY <1>7 DEF Fault, Lag, mark_unavailable, Disconnect, AgentCrash, ControlRestart, control, Scalars
  <1>8. CASE UNCHANGED vars
    BY <1>8 DEF vars, Scalars
  <1> QED BY <1>2, <1>3, <1>4, <1>5, <1>6, <1>7, <1>8 DEF Next

\* The stream is open or not, the guest exists or not.
LEMMA SwitchesStep == Switches /\ [Next]_vars => Switches'
  <1> SUFFICES ASSUME Switches, [Next]_vars PROVE Switches'
    OBVIOUS
  <1>1. CASE UNCHANGED <<linked, guest>>
    BY <1>1 DEF Switches
  <1>2. CASE guest' = guest /\ linked' \in BOOLEAN
    BY <1>2 DEF Switches
  <1>3. CASE Execute
    <2>1. linked' = linked
      BY <1>3 DEF Execute
    <2>2. PICK r \in ExecuteResults : guest' = (guest /\ r[2])
      BY <1>3 DEF Execute
    <2>3. guest' \in BOOLEAN
      BY <2>2
    <2> QED BY <2>1, <2>3 DEF Switches
  <1>4. ASSUME NEW p \in Drivers, delete_server(p) \/ Driver(p) PROVE UNCHANGED <<linked, guest>>
    BY <1>4 DEF delete_server, Driver, reconcile_lifecycle_once, Start, Observe, delete_instance, dispatch_command,
                handle_lifecycle_result, agent
  <1>5. ASSUME NEW o \in Ops, drive_all_lifecycle_convergence(o) \/ Deliver(o)
        PROVE  UNCHANGED <<linked, guest>>
    BY <1>5 DEF drive_all_lifecycle_convergence, Deliver, agent
  <1>6. ASSUME Consumer \/ apply_agent_provider_event PROVE UNCHANGED <<linked, guest>>
    BY <1>6 DEF Consumer, Take, ApplyOperation, ApplySuccess, ApplyObservation,
                apply_agent_provider_event, ProviderEvent, agent
  <1>7. ASSUME Replay \/ Announce \/ Report \/ heartbeat \/ Lag \/ mark_unavailable
        PROVE  UNCHANGED <<linked, guest>>
    BY <1>7 DEF Replay, Announce, Report, heartbeat, Lag, mark_unavailable, agent
  <1>8. ASSUME Register \/ Disconnect \/ AgentCrash \/ ControlRestart
        PROVE  guest' = guest /\ linked' \in BOOLEAN
    BY <1>8 DEF Register, Disconnect, AgentCrash, ControlRestart, Unlink
  <1>9. CASE UNCHANGED vars
    BY <1>1, <1>9 DEF vars
  <1> QED BY <1>1, <1>2, <1>3, <1>4, <1>5, <1>6, <1>7, <1>8, <1>9 DEF Next, Agent, Fault

\* A sequence over a set is one over a larger set.
LEMMA Widened ==
    ASSUME NEW S, NEW T, S \subseteq T, NEW s \in Seq(S)
    PROVE  s \in Seq(T)
  <1>1. s \in [DOMAIN s -> T] /\ s \in Seq(S)
    OBVIOUS
  <1> QED BY <1>1

\* Every reachable state of the store, the drivers, the consumer, the stream
\* and the agent is well typed; in particular the watermark never runs ahead of
\* the agent's journal and the retry counter never leaves its budget.
THEOREM DeleteTypeCorrect == Spec => []TypeOK
  <1>1. Init => Shape(FALSE) /\ Traced /\ Scalars /\ Switches
    <2> SUFFICES ASSUME Init PROVE Shape(FALSE) /\ Traced /\ Scalars /\ Switches
      OBVIOUS
    <2>1. Shape(FALSE)
      BY InitShape
    <2>2. Traced
      BY DEF Init, Traced, Named, IdleHand, IdleConsumer
    <2>3. Scalars
      BY BoundsAssumption DEF Init, Scalars
    <2>4. Switches
      BY DEF Init, Switches
    <2> QED BY <2>1, <2>2, <2>3, <2>4
  <1>2. Shape(FALSE) /\ [Next]_vars => Shape(FALSE)'
    BY Step DEF Kept
  <1>3. Shape(FALSE) /\ Traced /\ Scalars /\ Switches => TypeOK
    <2> SUFFICES ASSUME Shape(FALSE), Traced, Scalars, Switches PROVE TypeOK
      OBVIOUS
    <2>1. op \in [Ops -> [state : {"Absent", "Pending", "Running", "Retryable", "Unknown"} \cup Terminal,
                          pop : Ops \cup {None}]]
      BY DEF Shape, StoreShape, OperationOf, Gone, Terminal, Pops
    <2>2. row \in [Ops -> [state : DOMAIN Rank, current : BOOLEAN]]
      BY DEF Shape, StoreShape, RowOf, Gone, Rank
    <2>3. drv \in [Drivers -> [pc : {"Idle", "Picked", "Start", "Observe", "Bind", "Dispatch", "Result"},
                            op : Ops, target : Ops, pop : Ops \cup {None},
                            fresh : BOOLEAN,
                            result : {"None", "New", "Recorded", "Accepted", "Succeeded", "NotFound",
                                      "Retryable", "StaleState", "DeadlineExpired", "InvalidRequest"}]]
      BY DEF Shape, DriverShape, DriverOf, ResultOf, Pops
    <2>4. con \in ConsumerOf /\ wire \subseteq Ops
      BY DEF Shape, ConsumerShape, Holding, StreamShape
    <2> DEFINE Events == EventOf(FALSE)
               Entries == EntryOf(FALSE)
    <2>5. inbox \in Seq([op : Ops \cup {Create}, kind : {"Accepted", "Observed", "Succeeded", "Unknown"}])
      <3>1. Events \subseteq [op : Ops \cup {Create}, kind : {"Accepted", "Observed", "Succeeded", "Unknown"}]
        BY DEF EventOf
      <3>2. inbox \in Seq(Events)
        BY DEF Shape, StreamShape
      <3> HIDE DEF Events
      <3> QED BY <3>1, <3>2, Widened
    <2>6. /\ journal \in Seq([op : Ops \cup {Create}, state : {"Accepted", "Running", "Succeeded", "Unknown"}])
          /\ replay \in Seq([op : Ops \cup {Create}, state : {"Accepted", "Running", "Succeeded", "Unknown"}])
      <3>1. Entries \subseteq [op : Ops \cup {Create}, state : {"Accepted", "Running", "Succeeded", "Unknown"}]
        BY DEF EntryOf, Gone
      <3>2. journal \in Seq(Entries) /\ replay \in Seq(Entries)
        BY DEF Shape, AgentShape
      <3> HIDE DEF Entries
      <3> QED BY <3>1, <3>2, Widened
    <2>7. hand \in [op : Ops \cup {None}, step : {"Idle", "Announce", "Execute", "Report"},
                    result : {"None", "Succeeded", "Unknown"}]
      BY DEF Shape, AgentShape, HandOf, Gone, Pops
    <2>8. con \in [pc : {"Idle", "Operation", "Finish", "Project"}, op : Ops \cup {Create},
                kind : {"None", "Running", "Succeeded", "Unknown"}, pop : Ops \cup {None},
                closed : BOOLEAN, fresh : BOOLEAN]
      BY <2>4 DEF ConsumerOf, Subjects, Pops
    <2> HIDE DEF Shape
    <2>9. linked \in BOOLEAN /\ guest \in BOOLEAN
      BY DEF Switches
    <2>10. /\ attempts \in [Ops -> 0..(MaxAttempts - 1)] /\ res \in {"ACTIVE", "DELETED"}
           /\ registry \in {"Absent", "Available", "Unavailable"}
           /\ bound \in {"None", "Current", "Stale"} /\ seen \subseteq Ops \cup {Create}
           /\ mark \in 0..Len(journal)
      BY DEF Scalars, Traced, Subjects
    <2> QED BY <2>1, <2>2, <2>3, <2>4, <2>5, <2>6, <2>7, <2>8, <2>9, <2>10, Zenon DEF TypeOK
  <1>4. Shape(FALSE) /\ Traced /\ [Next]_vars => Traced'
    BY TracedStep
  <1>5. Shape(FALSE) /\ Scalars /\ [Next]_vars => Scalars'
    BY ScalarsStep
  <1> QED BY <1>1, <1>2, <1>3, <1>4, <1>5, SwitchesStep, PTL DEF Spec
=============================================================================
