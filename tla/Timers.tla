-------------------------------- MODULE Timers --------------------------------
(***************************************************************************)
(* The timers of the task scheduler: a fixed array in which a timer's      *)
(* place is its id modulo the length, guarded by one mutex.  A wait polls  *)
(* its place, runs the callback itself when the deadline has passed, and   *)
(* records the end; cancellation is one timer's or a whole region's.  What *)
(* happens between a lock and its unlock is one step.  The ids waited for  *)
(* and cancelled are ones that timer_create has returned.                  *)
(***************************************************************************)
EXTENDS Integers

CONSTANTS Waiters,               \* threads that call timer_wait
          MAX_CONCURRENT_TIMERS, \* 4096
          Delays,                \* the delays the program asks for
          Regions,               \* the regions it creates timers in
          MaxTimers,             \* bound: calls of timer_create
          MaxTime                \* bound: the last moment of the clock

TimersAssumption ==
    /\ MAX_CONCURRENT_TIMERS \in Nat \ {0} /\ MaxTimers \in Nat /\ MaxTime \in Nat
    /\ Delays \subseteq Nat /\ Regions \subseteq Nat \ {0}

VARIABLES g_timers,   \* the array: [id, fire, region, status] at each place
          counter,    \* g_timer_counter
          now,        \* datara_rt_time_now_ms
          wait,       \* wait[w]: where a waiter is, and what it has read or
                      \* returned (st), when (at), and whether the timer was
                      \* cancelled before the wait was called (late)
          deadline,   \* history: deadline[id], as asked for
          cancelled   \* history: the timers a cancellation has taken

vars == <<g_timers, counter, now, wait, deadline, cancelled>>

Slots == 0..(MAX_CONCURRENT_TIMERS - 1)
Idle == [pc |-> "idle", id |-> 0, st |-> 0, fire |-> 0, at |-> 0, late |-> FALSE]

Init == /\ g_timers = [s \in Slots |-> [id |-> 0, fire |-> 0, region |-> 0, status |-> 0]]
        /\ counter = 0 /\ now = 0
        /\ wait = [w \in Waiters |-> Idle]
        /\ deadline = [i \in 1..MaxTimers |-> 0]
        /\ cancelled = {}

\* timer_id % MAX_CONCURRENT_TIMERS
Slot(id) == id % MAX_CONCURRENT_TIMERS

\* ++g_timer_counter; whatever was in the place is overwritten.
TimerCreate(d, r) ==
    /\ counter < MaxTimers /\ now + d =< MaxTime
    /\ counter' = counter + 1
    /\ g_timers' = [g_timers EXCEPT ![Slot(counter + 1)] =
                       [id |-> counter + 1, fire |-> now + d, region |-> r, status |-> 0]]
    /\ deadline' = [deadline EXCEPT ![counter + 1] = now + d]
    /\ UNCHANGED <<now, wait, cancelled>>

TimerWait(w, id) ==
    /\ wait[w].pc = "idle"
    /\ wait' = [wait EXCEPT ![w] = [Idle EXCEPT !.pc = "read", !.id = id, !.late = id \in cancelled]]
    /\ UNCHANGED <<g_timers, counter, now, deadline, cancelled>>

\* Variant: the place is read whosoever it is.
Found_Any(t, id) == t.id # 0

\* Variant: only a pending timer is found.
Found_Pending(t, id) == t.id = id /\ t.status = 0

\* g_timers[slot].timer_id == timer_id
Found(t, id) == t.id = id

\* The locked read; "not found -> cancelled".
WaitReads(w) ==
    /\ wait[w].pc = "read"
    /\ LET t == g_timers[Slot(wait[w].id)]
       IN  wait' = [wait EXCEPT ![w] =
                       IF Found(t, wait[w].id)
                       THEN [@ EXCEPT !.pc = "test", !.st = t.status, !.fire = t.fire]
                       ELSE [@ EXCEPT !.pc = "test", !.st = 2, !.fire = 0]]
    /\ UNCHANGED <<g_timers, counter, now, deadline, cancelled>>

Answers(w, n) ==
    wait' = [wait EXCEPT ![w] = [@ EXCEPT !.pc = "idle", !.st = n, !.fire = 0, !.at = now]]

\* Variant: a cancelled timer is not over.
IsOver_Completed(st) == st = 1

\* st != 0
IsOver(st) == st # 0

\* The timer is over: its status is the answer.
WaitReturns(w) ==
    /\ wait[w].pc = "test" /\ IsOver(wait[w].st)
    /\ Answers(w, wait[w].st)
    /\ UNCHANGED <<g_timers, counter, now, deadline, cancelled>>

\* Not due yet: sleep and poll again.
WaitSleeps(w) ==
    /\ wait[w].pc = "test" /\ wait[w].st = 0 /\ now < wait[w].fire
    /\ wait' = [wait EXCEPT ![w].pc = "read", ![w].fire = 0]
    /\ UNCHANGED <<g_timers, counter, now, deadline, cancelled>>

\* The callback is called, without the lock.
WaitFires(w) ==
    /\ wait[w].pc = "test" /\ wait[w].st = 0 /\ now >= wait[w].fire
    /\ wait' = [wait EXCEPT ![w].pc = "callback"]
    /\ UNCHANGED <<g_timers, counter, now, deadline, cancelled>>

\* Variant: the status is overwritten.
IsPending_Any(t, id) == t.id = id

\* timer_id is still here, and pending.
IsPending(t, id) == t.id = id /\ t.status = 0

\* The callback is over: completed, unless somebody was faster; the answer is
\* 1 all the same.
WaitCompletes(w) ==
    /\ wait[w].pc = "callback"
    /\ g_timers' = [g_timers EXCEPT ![Slot(wait[w].id)] =
                       IF IsPending(@, wait[w].id) THEN [@ EXCEPT !.status = 1] ELSE @]
    /\ Answers(w, 1)
    /\ UNCHANGED <<counter, now, deadline, cancelled>>

\* Answers 1; for a timer that is over, or not here, nothing changes.
TimerCancel(id) ==
    /\ LET t == g_timers[Slot(id)]
       IN  /\ t.id = id /\ t.status = 0
           /\ g_timers' = [g_timers EXCEPT ![Slot(id)].status = 2]
    /\ cancelled' = cancelled \cup {id}
    /\ UNCHANGED <<counter, now, wait, deadline>>

\* cancel_timers_in_region: every pending timer of the region.
CancelRegion(r) ==
    LET hit == {s \in Slots : g_timers[s].id # 0 /\ g_timers[s].region = r /\ g_timers[s].status = 0}
    IN  /\ hit # {}
        /\ g_timers' = [s \in Slots |-> IF s \in hit THEN [g_timers[s] EXCEPT !.status = 2]
                                                     ELSE g_timers[s]]
        /\ cancelled' = cancelled \cup {g_timers[s].id : s \in hit}
        /\ UNCHANGED <<counter, now, wait, deadline>>

Tick == now < MaxTime /\ now' = now + 1
        /\ UNCHANGED <<g_timers, counter, wait, deadline, cancelled>>

InWait(w) == WaitReads(w) \/ WaitReturns(w) \/ WaitSleeps(w) \/ WaitFires(w) \/ WaitCompletes(w)

Next == \/ \E d \in Delays, r \in Regions \cup {0} : TimerCreate(d, r)
        \/ \E w \in Waiters : InWait(w) \/ \E id \in 1..counter : TimerWait(w, id)
        \/ \E id \in 1..counter : TimerCancel(id)
        \/ \E r \in Regions : CancelRegion(r)
        \/ Tick

Spec == Init /\ [][Next]_vars

\* Time passes, and a waiter that is not asleep goes on.
FairSpec == Spec /\ WF_vars(Tick) /\ \A w \in Waiters : WF_vars(InWait(w))

(* ------------------------------- properties ------------------------------ *)

\* A wait of w has returned.
Answered(w) == wait[w].pc = "idle" /\ wait[w].id # 0

\* Ranges of the variables; a timer is in its place.
TypeOK ==
    /\ g_timers \in [Slots -> [id : 0..counter, fire : Nat, region : Regions \cup {0},
                               status : 0..2]]
    /\ \A s \in Slots : g_timers[s].id # 0 => Slot(g_timers[s].id) = s
    /\ counter \in 0..MaxTimers /\ now \in 0..MaxTime
    /\ wait \in [Waiters -> [pc : {"idle", "read", "test", "callback"}, id : 0..counter,
                              st : 0..2, fire : Nat, at : Nat, late : BOOLEAN]]
    /\ deadline \in [1..MaxTimers -> Nat]
    /\ cancelled \subseteq 1..counter

\* "Waiting on cancelled timers returns 2": a wait that is called after a
\* cancellation was answered returns 2, whoever else was waiting at that time.  And every
\* variable is in its range.
CancelSticks == TypeOK /\ \A w \in Waiters : Answered(w) /\ wait[w].late => wait[w].st = 2

\* A wait says 1 no earlier than the timer's own deadline, also when its place
\* was given to another timer in the meantime.
NotBeforeDeadline ==
    \A w \in Waiters : Answered(w) /\ wait[w].st = 1 => wait[w].at >= deadline[wait[w].id]

\* A wait says 2 (cancelled) only of a timer that somebody has cancelled, or
\* whose place in the array has been given to a later one.
CancelledHasReason ==
    \A w \in Waiters : Answered(w) /\ wait[w].st = 2 =>
       wait[w].id \in cancelled \/ counter >= wait[w].id + MAX_CONCURRENT_TIMERS

\* Why (inductive): a place holds its newest timer with that timer's deadline and
\* the truth about its cancellation, and what a waiter has read was true of its own.
PlacesInv ==
    /\ \A s \in Slots : g_timers[s].id # 0 =>
          /\ g_timers[s].fire = deadline[g_timers[s].id]
          /\ g_timers[s].status = 2 <=> g_timers[s].id \in cancelled
          /\ g_timers[s].status = 1 => now >= g_timers[s].fire
    /\ \A n \in 1..counter : n =< g_timers[Slot(n)].id
CancelReason(n) == n \in cancelled \/ counter >= n + MAX_CONCURRENT_TIMERS
WaitsInv ==
    \A w \in Waiters :
       /\ wait[w].id = 0 => wait[w].pc = "idle"
       /\ wait[w].late => wait[w].id \in cancelled
       /\ wait[w].pc = "test" =>
             /\ wait[w].late => wait[w].st = 2
             /\ wait[w].st = 0 => wait[w].fire = deadline[wait[w].id]
             /\ wait[w].st = 1 => now >= deadline[wait[w].id]
             /\ wait[w].st = 2 => CancelReason(wait[w].id)
       /\ wait[w].pc = "callback" => ~wait[w].late /\ now >= deadline[wait[w].id]
TimerInv == CancelSticks /\ NotBeforeDeadline /\ CancelledHasReason /\ PlacesInv /\ WaitsInv

\* Every wait returns.
WaitsReturn == \A w \in Waiters : (wait[w].pc # "idle") ~> (wait[w].pc = "idle")

(* Said in the repository, not kept by the code: see the README, "What the   *)
(* code does not guarantee", for the constants that show it.                *)

\* "Cancelling a region cancels all pending ... timers": no callback is called
\* for a timer whose cancellation was answered.
NoCallbackAfterCancel ==
    [][\A w \in Waiters : wait[w].pc = "test" /\ wait'[w].pc = "callback" =>
          wait[w].id \notin cancelled]_vars
===============================================================================
