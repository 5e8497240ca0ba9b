------------------------------ MODULE Monitor ------------------------------
(***************************************************************************)
(* What sleep and wakeup promise to code that calls them with the lock of  *)
(* the condition held (lab3/kernel/proc.c:553, "Atomically release lock    *)
(* and sleep on chan.  Reacquires lock when awakened"): a monitor with one *)
(* condition.  Who is asleep when wakeup is called is woken by it; a kill  *)
(* may wake a sleeper at any time.                                         *)
(***************************************************************************)
CONSTANTS
  Client,    \* processes and interrupt handlers
  Nobody

VARIABLES
  owner,     \* the client that holds the lock, or Nobody
  asleep     \* the clients asleep on the condition

vars == <<owner, asleep>>

Init == owner = Nobody /\ asleep = {}

Enter(x) ==
  /\ owner = Nobody /\ x \notin asleep
  /\ owner' = x
  /\ UNCHANGED asleep

Leave(x) ==
  /\ owner = x
  /\ owner' = Nobody
  /\ UNCHANGED asleep

Sleep(x) ==
  /\ owner = x
  /\ owner' = Nobody
  /\ asleep' = asleep \cup {x}

Wakeup(x) ==
  /\ owner = x
  /\ asleep' = {}
  /\ UNCHANGED owner

(* An interrupt handler takes the lock and wakes in one go.                *)
EnterWakeup(x) ==
  /\ owner = Nobody /\ x \notin asleep
  /\ owner' = x
  /\ asleep' = {}

Kill(x) ==
  /\ x \in asleep
  /\ asleep' = asleep \ {x}
  /\ UNCHANGED owner

Next == \E x \in Client :
  Enter(x) \/ Leave(x) \/ Sleep(x) \/ Wakeup(x) \/ EnterWakeup(x) \/ Kill(x)

Spec == Init /\ [][Next]_vars
============================================================================
