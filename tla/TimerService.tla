---------------------------- MODULE TimerService ----------------------------
(***************************************************************************)
(* What the rest of the server relies on when it calls                     *)
(* g_scheduler.addEvent and g_scheduler.stopEvent: an event is armed once, *)
(* fires at most once and never before it is due, and an event whose       *)
(* stopEvent answered true never fires.  Module Scheduler, the threaded    *)
(* priority queue of src/src/scheduler.cpp, implements this.               *)
(***************************************************************************)
EXTENDS Integers

CONSTANTS
  Tasks,      \* the SchedulerTask objects
  Delays      \* the delays, in clock ticks, createSchedulerTask is given

VARIABLES
  armed,      \* events that are still going to fire
  fired,      \* events handed to the dispatcher
  cancelled,  \* events stopped by stopEvent
  dropped,    \* events refused by, or discarded at, shutdown
  due,        \* the time an event is due
  now         \* the system clock

vars == <<armed, fired, cancelled, dropped, due, now>>

Used == armed \cup fired \cup cancelled \cup dropped

Init ==
  /\ armed = {} /\ fired = {} /\ cancelled = {} /\ dropped = {}
  /\ due = [t \in Tasks |-> 0]
  /\ now = 0

Arm(t, d) ==
  /\ t \notin Used
  /\ armed' = armed \cup {t}
  /\ due' = [due EXCEPT ![t] = now + d]
  /\ UNCHANGED <<fired, cancelled, dropped, now>>

Refuse(t) ==
  /\ t \notin Used
  /\ dropped' = dropped \cup {t}
  /\ UNCHANGED <<armed, fired, cancelled, due, now>>

Cancel(t) ==
  /\ t \in armed
  /\ armed' = armed \ {t}
  /\ cancelled' = cancelled \cup {t}
  /\ UNCHANGED <<fired, dropped, due, now>>

Fire(t) ==
  /\ t \in armed
  /\ due[t] <= now
  /\ armed' = armed \ {t}
  /\ fired' = fired \cup {t}
  /\ UNCHANGED <<cancelled, dropped, due, now>>

Discard ==
  /\ armed' = {}
  /\ dropped' = dropped \cup armed
  /\ UNCHANGED <<fired, cancelled, due, now>>

Tick == now' = now + 1 /\ UNCHANGED <<armed, fired, cancelled, dropped, due>>

Next ==
  \/ \E t \in Tasks, d \in Delays : Arm(t, d)
  \/ \E t \in Tasks : Refuse(t) \/ Cancel(t) \/ Fire(t)
  \/ Discard
  \/ Tick

Spec == Init /\ [][Next]_vars
=============================================================================
