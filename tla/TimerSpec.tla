----------------------------- MODULE TimerSpec -----------------------------
(***************************************************************************)
(* What the kernel timers promise (kern/schedule/sched.c): a timer added   *)
(* for t ticks expires at the t-th timer interrupt after that, unless it   *)
(* is deleted first.                                                       *)
(***************************************************************************)
EXTENDS Integers

CONSTANTS Sleeper,      \* processes that may own a timer
          MaxSleep      \* longest time a timer is added for

VARIABLE due            \* due[p]: ticks that remain until p's timer expires

Init == due = [p \in {} |-> 0]

\* Timers that have reached zero expire before anything else happens.
NoneExpired == \A p \in DOMAIN due : due[p] > 0

Add(p, t) == /\ NoneExpired
             /\ p \notin DOMAIN due
             /\ due' = [q \in DOMAIN due \cup {p} |-> IF q = p THEN t ELSE due[q]]

Delete(p) == /\ NoneExpired
             /\ p \in DOMAIN due
             /\ due' = [q \in DOMAIN due \ {p} |-> due[q]]

Tick == /\ NoneExpired
        /\ due' = [q \in DOMAIN due |-> due[q] - 1]

Expire(p) == /\ p \in DOMAIN due
             /\ due[p] = 0
             /\ due' = [q \in DOMAIN due \ {p} |-> due[q]]

Next == \/ \E p \in Sleeper, t \in 1 .. MaxSleep : Add(p, t)
        \/ \E p \in Sleeper : Delete(p) \/ Expire(p)
        \/ Tick

Spec == Init /\ [][Next]_due
=============================================================================
