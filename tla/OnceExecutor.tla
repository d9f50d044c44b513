---------------------------- MODULE OnceExecutor ----------------------------
(***************************************************************************)
(* What a host agent promises the control plane about the operations it is  *)
(* sent: an operation changes the host at most once; once the agent has     *)
(* said that it cannot tell what became of an operation, the operation does *)
(* not change the host any more; and it says "Executed" only of operations  *)
(* that did.  The control plane may then observe the host and act on what   *)
(* it sees.  The compute agent's CommandJournal and the network agent       *)
(* (NetworkAgent) both implement this specification.                        *)
(***************************************************************************)
EXTENDS Naturals

CONSTANT Operations

VARIABLES
    runs,  \* how often each operation changed the host
    pending, \* the operations that may still do so
    told   \* what the agent has said: pairs of an operation and an outcome

vars == <<runs, pending, told>>

Outcomes == {"Executed", "Unknown"}

Init ==
    /\ runs = [o \in Operations |-> 0]
    /\ pending = Operations
    /\ told = {}

\* The operation changes the host and is over.
Run(o) ==
    /\ o \in pending
    /\ runs' = [runs EXCEPT ![o] = @ + 1]
    /\ pending' = pending \ {o}
    /\ UNCHANGED told

\* Operations end without having changed the host: a crash, a refusal.
Close ==
    /\ pending' \in SUBSET pending
    /\ UNCHANGED <<runs, told>>

True(o, s) ==
    \/ s = "Executed" /\ runs[o] > 0
    \/ s = "Unknown" /\ o \notin pending

Tell ==
    /\ told \subseteq told'
    /\ told' \subseteq Operations \X Outcomes
    /\ \A t \in told' \ told : True(t[1], t[2])
    /\ UNCHANGED <<runs, pending>>

Next == (\E o \in Operations : Run(o)) \/ Close \/ Tell

Spec == Init /\ [][Next]_vars
=============================================================================
