---------------------------- MODULE PoolProtocol ----------------------------
(***************************************************************************)
(* The order in which a client of one ThreadPool calls it: a slot is       *)
(* acquired, the pool is activated for it, the slot is released, and the   *)
(* pool is deactivated, and a slot has one client at a time.  ThreadPool   *)
(* relies on it, CPURuntime keeps it.                                      *)
(***************************************************************************)
EXTENDS Integers

CONSTANTS Clients,      \* whoever calls the pool
          Slots,        \* the indices of mTaskAvailable
          NoSlot        \* what acquireWorkIndex returns when none is left

VARIABLES free,         \* the slots that nobody has
          lease,        \* the slot a client has, or NoSlot
          stage         \* how far a client has come

vars == <<free, lease, stage>>

Goto(c, from, to) == stage[c] = from /\ stage' = [stage EXCEPT ![c] = to]

Init ==
  /\ free = Slots
  /\ lease = [c \in Clients |-> NoSlot]
  /\ stage = [c \in Clients |-> "out"]

Acquire(c) == \E s \in free :
  /\ Goto(c, "out", "taken")
  /\ free' = free \ {s}
  /\ lease' = [lease EXCEPT ![c] = s]

Activate(c) == Goto(c, "taken", "active") /\ UNCHANGED <<free, lease>>

Release(c) ==
  /\ Goto(c, "active", "released")
  /\ free' = free \cup {lease[c]}
  /\ UNCHANGED lease

Deactivate(c) ==
  /\ Goto(c, "released", "out")
  /\ lease' = [lease EXCEPT ![c] = NoSlot]
  /\ UNCHANGED free

Next == \E c \in Clients :
  Acquire(c) \/ Activate(c) \/ Release(c) \/ Deactivate(c)

Spec == Init /\ [][Next]_vars
=============================================================================
