---------------------------- MODULE TimerService ----------------------------
(****************************************************************************)
(* What the timers of src/src/uxmpp/io/Timer.hpp promise: a timer that is   *)
(* set expires when its time has come, once or periodically, until it is     *)
(* cancelled; the earliest expires first, and its callback is called each    *)
(* time it expires, one callback at a time.                                 *)
(*                                                                          *)
(* The promise has two limits. A timer that is set or cancelled while the    *)
(* service sleeps for one whose time has just come may be called in place of *)
(* that one. And the promise ends (`sound`) when a timer is set or cancelled *)
(* that can be confused with another, or when a timer that was not pending   *)
(* is called in place of another.                                           *)
(****************************************************************************)
EXTENDS Naturals

CONSTANTS Timers, Periods, MaxTime, None

VARIABLES
    clock,     \* the steady clock
    deadline,  \* the time each timer was last set to, or expires next
    period,    \* the time between its expirations, 0 for one only
    pending,   \* the timers that will expire
    calling,   \* the timer whose callback is being called, None for none
    alarm,     \* when the service will wake, None if not for a timer
    touched,   \* the timers set or cancelled since it fell asleep
    sound      \* the promise has not ended

promise == <<deadline, period, pending, sound>>
serviceVars == <<clock, deadline, period, pending, calling, alarm, touched, sound>>

Init ==
    /\ clock = 1
    /\ deadline = [t \in Timers |-> 0]
    /\ period = [t \in Timers |-> 0]
    /\ pending = {}
    /\ calling = None /\ alarm = None /\ touched = {}
    /\ sound = TRUE

Tick == clock < MaxTime /\ clock' = clock + 1 /\ UNCHANGED <<promise, calling, alarm, touched>>

New(t) ==
    /\ t \notin pending
    /\ deadline' = [deadline EXCEPT ![t] = 0]
    /\ period' = [period EXCEPT ![t] = 0]
    /\ UNCHANGED <<clock, pending, calling, alarm, touched, sound>>

Set(t) ==
    /\ \E time \in clock..MaxTime : deadline' = [deadline EXCEPT ![t] = time]
    /\ \E p \in Periods : period' = [period EXCEPT ![t] = p]
    /\ pending' = pending \cup {t}
    /\ touched' = touched \cup {t}
    /\ UNCHANGED <<clock, calling, alarm, sound>>

Cancel(t) ==
    /\ pending' = pending \ {t}
    /\ touched' = IF t \in pending THEN touched \cup {t} ELSE touched
    /\ UNCHANGED <<clock, deadline, period, calling, alarm, sound>>

Sleep ==
    /\ calling = None
    /\ alarm' \in {deadline[t] : t \in pending} \cup {None}
    /\ alarm' = None <=> pending = {}
    /\ \A t \in pending : alarm' <= deadline[t]
    /\ touched' = {}
    /\ UNCHANGED <<clock, promise, calling>>

(* The service wakes before the time it sleeps for.                          *)
Wake == touched # {} /\ alarm' = None /\ UNCHANGED <<clock, promise, calling, touched>>

(* The time the service sleeps for has come.                                *)
Up == alarm # None /\ alarm <= clock

(* A pending timer expires: the earliest, when its time has come, or one that *)
(* was set while the service slept.                                          *)
Expire(t) ==
    /\ Up
    /\ calling = None /\ calling' = t
    /\ t \in pending
    /\ \/ deadline[t] <= clock /\ \A u \in pending \ touched : deadline[t] <= deadline[u]
       \/ t \in touched
    /\ IF period[t] = 0
       THEN pending' = pending \ {t} /\ UNCHANGED deadline
       ELSE deadline' = [deadline EXCEPT ![t] = @ + period[t]] /\ UNCHANGED pending
    /\ alarm' = None
    /\ UNCHANGED <<clock, period, touched, sound>>

Return == calling # None /\ calling' = None /\ UNCHANGED <<clock, promise, alarm, touched>>

(* Timer u expires at a time between two.                                   *)
Between(u, a, b) == \/ a <= deadline[u] /\ deadline[u] <= b
                    \/ b <= deadline[u] /\ deadline[u] <= a

(* Timer t, with the deadline that is or was looked up for it, can be         *)
(* confused with another: one with that deadline, or one that t is moved past. *)
Confused(t, time) ==
    \E u \in pending \ {t} : Between(u, IF t \in pending THEN deadline[t] ELSE time, time)

(* The promise ends.                                                         *)
End ==
    /\ sound' = FALSE
    /\ \E t \in Timers : \/ Confused(t, deadline'[t])
                         \/ Up /\ t \in touched /\ calling = None /\ calling' = t

Promised == \/ Tick \/ Sleep \/ Wake \/ Return
            \/ \E t \in Timers : New(t) \/ Set(t) \/ Cancel(t) \/ Expire(t)

Next == \/ sound /\ (Promised \/ End)
        \/ ~sound /\ ~sound'

Spec == Init /\ [][Next]_serviceVars
=============================================================================
