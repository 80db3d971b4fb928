----------------------------- MODULE TimerList -----------------------------
(***************************************************************************)
(* The list of kernel timers: add_timer, del_timer and run_timer_list of   *)
(* kern/schedule/sched.c.                                                  *)
(*                                                                         *)
(* The list is ordered by deadline and each timer stores the difference to *)
(* the deadline before it, so that a timer interrupt decrements the head   *)
(* only.  add_timer and del_timer run with interrupts disabled and are one *)
(* step.  run_timer_list is one step per expired timer, because each of    *)
(* them wakes a process; nothing else runs until it is done.               *)
(***************************************************************************)
EXTENDS Integers, Sequences, FiniteSets

CONSTANTS Sleeper, MaxSleep

ASSUME TimerAssumption == MaxSleep \in Nat \ {0}

VARIABLES timers,       \* sequence of [proc, expires]
          irq           \* progress of run_timer_list: "none" when it is not
                        \* running, "fire" while the head has expired, "tick"
                        \* before its last call, sched_class_proc_tick

timerVars == <<timers, irq>>

TimerInit == timers = <<>> /\ irq = "none"

Owners == {timers[i].proc : i \in 1 .. Len(timers)}

-----------------------------------------------------------------------------
\* Mutated forms of definitions below.

MutLoseRest(l, i) == [k \in 1 .. Len(l) - 1 |-> IF k < i THEN l[k] ELSE l[k + 1]]

MutKeepNext(l, i, t) ==
  [k \in 1 .. Len(l) + 1 |->
     IF k < i THEN l[k] ELSE IF k = i THEN t ELSE l[k - 1]]

-----------------------------------------------------------------------------
\* What is left of e when the loop of add_timer reaches position i of list l.
Left(l, e) == LET left[i \in 1 .. Len(l) + 1] ==
                    IF i = 1 THEN e ELSE left[i - 1] - l[i - 1].expires
              IN  left

\* The condition that ends the loop of add_timer.
StopsAt(l, left, i) == i > Len(l) \/ left < l[i].expires

\* The position the loop ends at: behind the timers it has passed.
InsertPos(l, e) ==
  1 + Cardinality({i \in 1 .. Len(l) :
                     \A j \in 1 .. i : ~StopsAt(l, Left(l, e)[j], j)})

\* list_add_before; the timer behind the new one is now relative to it.
InsertBefore(l, i, t) ==
  [k \in 1 .. Len(l) + 1 |->
     IF k < i THEN l[k]
     ELSE IF k = i THEN t
     ELSE IF k = i + 1 THEN [l[i] EXCEPT !.expires = @ - t.expires]
     ELSE l[k - 1]]

AddTimer(p, e) ==
  LET i == InsertPos(timers, e)
  IN  timers' = InsertBefore(timers, i, [proc |-> p, expires |-> Left(timers, e)[i]])

\* list_del_init; the rest of the removed timer is owed by the one behind it.
RemoveAndOwe(l, i) ==
  [k \in 1 .. Len(l) - 1 |->
     IF k < i THEN l[k]
     ELSE IF k = i THEN [l[k + 1] EXCEPT !.expires = @ + l[i].expires]
     ELSE l[k + 1]]

\* del_timer is a no-op for a timer that is not linked.
DelTimer(p) ==
  timers' = IF p \in Owners
              THEN RemoveAndOwe(timers, CHOOSE i \in 1 .. Len(timers) : timers[i].proc = p)
              ELSE timers

\* Does the loop of run_timer_list go on with list l?
NextIrq(l) == IF Len(l) > 0 /\ l[1].expires = 0 THEN "fire" ELSE "tick"

\* The timer interrupt: run_timer_list up to its loop.
TimerTick ==
  /\ irq = "none"
  /\ timers' = [k \in 1 .. Len(timers) |->
                  IF k = 1 THEN [timers[1] EXCEPT !.expires = @ - 1] ELSE timers[k]]
  /\ irq' = IF Len(timers) > 0 /\ timers[1].expires = 1 THEN "fire" ELSE "tick"

\* One iteration of the loop: the head has expired and is deleted (it owes
\* nothing).  The owner is woken; Process adds that.
FireHead ==
  /\ irq = "fire"
  /\ timers' = Tail(timers)
  /\ irq' = NextIrq(Tail(timers))

\* run_timer_list returns.
TimerTickEnd == irq = "tick" /\ irq' = "none" /\ UNCHANGED timers

-----------------------------------------------------------------------------
\* The deadline of the i-th timer: the sum of the differences up to it.
Deadline(i) == LET sum[k \in 0 .. Len(timers)] ==
                     IF k = 0 THEN 0 ELSE sum[k - 1] + timers[k].expires
               IN  sum[i]

due == [p \in Owners |->
          Deadline(CHOOSE i \in 1 .. Len(timers) : timers[i].proc = p)]

TS == INSTANCE TimerSpec

\* The delta list keeps every deadline exactly: adding or deleting a timer
\* moves no other deadline, and a timer expires at its own tick.
ImplementsTimerSpec == TS!Spec
=============================================================================
