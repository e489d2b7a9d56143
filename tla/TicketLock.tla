----------------------------- MODULE TicketLock -----------------------------
(***************************************************************************)
(* What a caller of withProjectLock may rely on, with no promise chain in  *)
(* sight: callers of one project take tickets, hold the lock one at a      *)
(* time, and are served in the order of their tickets.                     *)
(***************************************************************************)
EXTENDS Naturals

CONSTANTS Calls, Paths

VARIABLES
  stage,      \* call -> where it stands
  path,       \* call -> the project it locks
  ticket,     \* call -> its ticket, 0 before it has one
  clock       \* the last ticket given out

vars == <<stage, path, ticket, clock>>

Init ==
  /\ stage = [c \in Calls |-> "idle"]
  /\ path \in [Calls -> Paths]
  /\ ticket = [c \in Calls |-> 0]
  /\ clock = 0

Rivals(c) == {d \in Calls \ {c} : path[d] = path[c]}

TakeTicket(c) ==
  /\ stage[c] = "idle"
  /\ stage' = [stage EXCEPT ![c] = "waiting"]
  /\ clock' = clock + 1
  /\ ticket' = [ticket EXCEPT ![c] = clock + 1]
  /\ UNCHANGED path

Hold(c) ==
  /\ stage[c] = "waiting"
  /\ \A d \in Rivals(c) : stage[d] # "running"
  /\ \A d \in Rivals(c) : stage[d] = "waiting" => ticket[c] < ticket[d]
  /\ stage' = [stage EXCEPT ![c] = "running"]
  /\ UNCHANGED <<path, ticket, clock>>

Leave(c) ==
  /\ stage[c] = "running"
  /\ stage' = [stage EXCEPT ![c] = "released"]
  /\ UNCHANGED <<path, ticket, clock>>

Next == \E c \in Calls : TakeTicket(c) \/ Hold(c) \/ Leave(c)

Spec == Init /\ [][Next]_vars
=============================================================================
