------------------------------- MODULE Timer --------------------------------
(****************************************************************************)
(* The timers of src/src/uxmpp/io/Timer.cpp: a map with an entry for every   *)
(* Timer object, a multiset of references to the entries that are scheduled, *)
(* ordered by the entries' timeouts, and a worker thread that sleeps until   *)
(* the first of them.                                                       *)
(*                                                                          *)
(* The multiset is a sequence of nodes in tree order. The order is that of   *)
(* the timeouts at the time of insertion: set() changes the timeout of an    *)
(* entry that may be in the set. Looking up a timeout in a set that is no    *)
(* longer ordered gives what the shape of the tree makes of it. A node that   *)
(* was erased gives its memory back, for another node or for something else. *)
(* Using the end of the set ends the program: `crashed`.                     *)
(****************************************************************************)
EXTENDS Naturals, Sequences, SequencesExt

CONSTANTS
    Timers,
    None,
    Periods,  \* periods a timer is set with, 0 among them
    Places,   \* the memory for nodes, numbered: a bound on the nodes of the set
    Usage,    \* "destroy": a timer may be destroyed while its callback
              \* executes; "idle": half an hour may pass with no timer scheduled
    MaxTime,  \* bound on the clock and the timeouts
    MaxSet    \* bound on the calls of set()

ASSUME TimerAssumption ==
    /\ Periods \subseteq Nat /\ Places \subseteq Nat
    /\ Usage \subseteq {"destroy", "idle"}
    /\ MaxTime \in Nat \ {0} /\ MaxSet \in Nat
    /\ None \notin Timers /\ None \notin Nat

VARIABLES
    clock,      \* steady_clock
    timer_map,  \* the entries; those of destroyed timers are not `alive`
    timer_set,  \* the nodes: a timer and the place of the node
    sets,       \* calls of set() so far
    at,         \* worker: "look", "wait" or "callback"
    iter,       \* worker: the node it waits for, End for the end of the set
    until,      \* worker: when its wait ends, None for half an hour from now
    notified,   \* the timers for which resource_cond was notified since the
                \* wait began
    running,    \* worker: the timer whose callback executes
    sound,      \* every lookup found the node it was meant to find, and the
                \* worker used no node that had been erased
    crashed

vars == <<clock, timer_map, timer_set, sets, at, iter, until, notified, running,
          sound, crashed>>
workerVars == <<at, iter, until, running>>

Node == [timer : Timers, place : Places]
End  == [timer |-> None, place |-> None]

Scheduled(t) == \E i \in DOMAIN timer_set : timer_set[i].timer = t

TypeOK ==
    /\ clock \in 1..MaxTime
    /\ timer_map \in [Timers -> [alive : BOOLEAN, timeout : Nat, repeat : Nat]]
    /\ timer_set \in Seq(Node)
    /\ sound => \A i \in DOMAIN timer_set : timer_map[timer_set[i].timer].alive
    /\ sets \in 0..MaxSet
    /\ at \in {"look", "wait", "callback"}
    /\ iter \in Node \cup {End} /\ until \in Nat \cup {None}
    /\ running \in Timers \cup {None}
    /\ notified \subseteq Timers
    /\ sound \in BOOLEAN /\ crashed \in BOOLEAN

Init ==
    /\ clock = 1
    /\ timer_map = [t \in Timers |-> [alive |-> FALSE, timeout |-> 0, repeat |-> 0]]
    /\ timer_set = <<>>
    /\ sets = 0
    /\ at = "look" /\ iter = End /\ until = None /\ running = None
    /\ notified = {}
    /\ sound = TRUE /\ crashed = FALSE

Key(map, n) == map[n.timer].timeout
Ordered(map, set) == \A i, j \in DOMAIN set : i < j => Key(map, set[i]) <= Key(map, set[j])

(* multiset::find, the position of a node with that timeout, 0 for none.     *)
Find(map, set, timeout) ==
    LET equal == {i \in DOMAIN set : Key(map, set[i]) = timeout}
    IN IF ~Ordered(map, set) THEN equal \cup {0}
       ELSE IF equal = {} THEN {0}
       ELSE {i \in equal : \A j \in equal : i <= j}

(* Where multiset::insert puts a node for t: after its equals.                *)
Positions(map, set, t) ==
    IF ~Ordered(map, set) THEN 1..(Len(set) + 1)
    ELSE {i \in 1..(Len(set) + 1) : \A j \in DOMAIN set :
             j < i <=> Key(map, set[j]) <= map[t].timeout}

(* The memory for it: what iter points to, if it is free, or elsewhere.       *)
Memory(set) ==
    LET free == {p \in Places : \A i \in DOMAIN set : set[i].place # p}
        here == {p \in free : p = iter.place}
    IN here \cup {p \in free : \A q \in free \ here : p <= q}

Insert(map, set, t) ==
    UNION {{InsertAt(set, i, [timer |-> t, place |-> p]) : i \in Positions(map, set, t)} :
             p \in Memory(set)}

(* What a lookup for t found is its node, or there is none.                  *)
FoundOwn(t, pos) == IF pos = 0 THEN ~Scheduled(t) ELSE timer_set[pos].timer = t

-----------------------------------------------------------------------------
(* The application. Every method holds resource_lock.                       *)

Construct(t) ==
    /\ ~crashed /\ ~timer_map[t].alive /\ running # t
    /\ timer_map' = [timer_map EXCEPT ![t] = [alive |-> TRUE, timeout |-> 0, repeat |-> 0]]
    /\ UNCHANGED <<clock, timer_set, sets, workerVars, notified, sound, crashed>>

(* set_impl. The entry changes first, then it is looked up by its new timeout. *)
Schedule(t) ==
    /\ ~crashed /\ timer_map[t].alive /\ sets < MaxSet
    /\ \E timeout \in clock..MaxTime, repeat \in Periods :
         LET map == [timer_map EXCEPT ![t].timeout = timeout, ![t].repeat = repeat]
         IN /\ timer_map' = map
            /\ \E pos \in Find(map, timer_set, timeout) :
                 /\ timer_set' \in Insert(map, IF pos = 0 THEN timer_set
                                              ELSE RemoveAt(timer_set, pos), t)
                 /\ sound' = (sound /\ FoundOwn(t, pos))
    /\ sets' = sets + 1
    /\ UNCHANGED <<clock, workerVars, crashed>>

(* Bug: the worker is not told.                                              *)
BugSet(t) == Schedule(t) /\ UNCHANGED notified

Set(t) == Schedule(t) /\ notified' = notified \cup {t}

(* The effect of cancel(): a node with the timeout of t is erased.            *)
Unschedule(t) ==
    \E pos \in Find(timer_map, timer_set, timer_map[t].timeout) :
        /\ IF pos = 0
           THEN UNCHANGED <<timer_set, notified>>
           ELSE timer_set' = RemoveAt(timer_set, pos) /\ notified' = notified \cup {t}
        /\ sound' = (sound /\ FoundOwn(t, pos))

Cancel(t) ==
    /\ ~crashed /\ timer_map[t].alive
    /\ Unschedule(t)
    /\ UNCHANGED <<clock, timer_map, sets, workerVars, crashed>>

(* Bug: the destructor forgets to cancel.                                    *)
BugDestroy(t) ==
    /\ ~crashed /\ timer_map[t].alive
    /\ timer_map' = [timer_map EXCEPT ![t].alive = FALSE]
    /\ UNCHANGED <<clock, timer_set, notified, sets, workerVars, sound, crashed>>

Destroy(t) ==
    /\ ~crashed /\ timer_map[t].alive
    /\ running # t \/ "destroy" \in Usage
    /\ Unschedule(t)
    /\ timer_map' = [timer_map EXCEPT ![t].alive = FALSE]
    /\ UNCHANGED <<clock, sets, workerVars, crashed>>

-----------------------------------------------------------------------------
(* worker_function                                                          *)

Look ==
    /\ at = "look" /\ ~crashed
    /\ iter' = IF timer_set = <<>> THEN End ELSE Head(timer_set)
    /\ until' = IF timer_set = <<>> THEN None ELSE Key(timer_map, Head(timer_set))
    /\ at' = "wait" /\ notified' = {}
    /\ UNCHANGED <<clock, timer_map, timer_set, sets, running, sound, crashed>>

TimeIsUp == IF until = None THEN "idle" \in Usage ELSE clock >= until

(* wait_until returns because of a notification; its result is that of the    *)
(* clock by then, not of what woke it.                                       *)
Modified ==
    /\ at = "wait" /\ ~crashed
    /\ notified # {} /\ ~TimeIsUp
    /\ at' = "look" /\ iter' = End /\ until' = None
    /\ UNCHANGED <<clock, timer_map, timer_set, sets, notified, running, sound, crashed>>

(* The entry of t, found in `left` no more, is periodic and put back for the  *)
(* next time, or is not.                                                     *)
Renew(t, left) ==
    LET next == [timer_map EXCEPT ![t].timeout = @ + timer_map[t].repeat]
    IN  \/ timer_map[t].repeat = 0 /\ timer_set' = left /\ UNCHANGED timer_map
        \/ /\ timer_map[t].repeat # 0
           /\ timer_map' = next
           /\ timer_set' \in Insert(next, left, t)

(* iter is the end of the set, or the node of iter was erased and its memory  *)
(* used for something else, or it still names the entry of its timer, which   *)
(* expires; erasing the node once more changes nothing, or ends the program.  *)
StaleIter ==
    /\ \A i \in DOMAIN timer_set : timer_set[i].place # iter.place
    /\ \/ crashed' = TRUE /\ UNCHANGED <<timer_map, timer_set, at, running, sound>>
       \/ /\ iter # End
          /\ Renew(iter.timer, timer_set)
          /\ at' = "callback" /\ running' = iter.timer
          /\ sound' = FALSE
          /\ UNCHANGED crashed

(* Bug: an entry that is not periodic stays scheduled.                       *)
BugExpire ==
    /\ at = "wait" /\ ~crashed
    /\ TimeIsUp
    /\ \/ StaleIter
       \/ \E i \in DOMAIN timer_set :
            /\ timer_set[i].place = iter.place
            /\ at' = "callback" /\ running' = timer_set[i].timer
            /\ UNCHANGED <<timer_map, timer_set, sound, crashed>>
    /\ iter' = End /\ until' = None
    /\ UNCHANGED <<clock, sets, notified>>

(* The wait has timed out, and whatever node is where that of iter was is     *)
(* taken from the set or, if its entry is periodic, put back for the next     *)
(* time, and its callback is called.                                         *)
Expire ==
    /\ at = "wait" /\ ~crashed
    /\ TimeIsUp
    /\ \/ StaleIter
       \/ \E i \in DOMAIN timer_set :
            /\ timer_set[i].place = iter.place
            /\ Renew(timer_set[i].timer, RemoveAt(timer_set, i))
            /\ at' = "callback" /\ running' = timer_set[i].timer
            /\ UNCHANGED <<sound, crashed>>
    /\ iter' = End /\ until' = None
    /\ UNCHANGED <<clock, sets, notified>>

(* The callback returns; its code and the data bound to it are those of an    *)
(* entry that may be gone.                                                   *)
CallbackDone ==
    /\ at = "callback" /\ ~crashed
    /\ \/ UNCHANGED crashed
       \/ ~timer_map[running].alive /\ crashed' = TRUE
    /\ at' = "look" /\ running' = None
    /\ UNCHANGED <<clock, timer_map, timer_set, sets, iter, until, notified, sound>>

Tick ==
    /\ clock < MaxTime /\ ~crashed
    /\ clock' = clock + 1
    /\ UNCHANGED <<timer_map, timer_set, sets, workerVars, notified, sound, crashed>>

Worker == Look \/ Modified \/ Expire \/ CallbackDone

Next == \/ Worker \/ Tick
        \/ \E t \in Timers : Construct(t) \/ Set(t) \/ Cancel(t) \/ Destroy(t)

(* Time passes and the worker runs.                                         *)
Spec == Init /\ [][Next]_vars /\ WF_vars(Worker) /\ WF_vars(Tick)

-----------------------------------------------------------------------------
(* Properties                                                               *)

Service == INSTANCE TimerService WITH
    deadline <- [t \in Timers |-> timer_map[t].timeout],
    period   <- [t \in Timers |-> timer_map[t].repeat],
    pending  <- {t \in Timers : Scheduled(t)},
    calling  <- running,
    alarm    <- until,
    touched  <- notified

(* The set and its worker are the timers of Timer.hpp: a callback is called    *)
(* for a timer that is set, the earliest first, not before its time, once or   *)
(* once a period, and never for one that was cancelled, set again to later, or *)
(* destroyed. The exception is one that was set or cancelled since the worker   *)
(* fell asleep, if it uses what it looked up before (Timer.cpp:92-95); and the *)
(* promise ends when an entry is confused with another (Timer.cpp:178, 192) or *)
(* an erased one is used.                                                    *)
TimerServiceSpec == Service!Spec

(* A timer that is set to a time that comes is called, unless it is cancelled, *)
(* set anew or destroyed first: no change of the set is missed by a worker     *)
(* that sleeps for another timer or for none. It may be lost when an entry is  *)
(* confused with another or an erased one is used.                            *)
Expires ==
    \A t \in Timers :
        (Scheduled(t) /\ timer_map[t].timeout <= MaxTime)
            ~> (running = t \/ ~Scheduled(t) \/ ~sound \/ crashed)

(* Timer.cpp:93, "Set is modified, start again": the worker does not use an    *)
(* entry it looked up before the set was modified: it calls the callback of a  *)
(* timer that is scheduled and whose time has come.                           *)
NoStaleEntry ==
    [][\A t \in Timers : running = None /\ running' = t =>
          Scheduled(t) /\ timer_map[t].timeout <= clock]_vars

(* A timer is cancelled by cancelling it, not another.                        *)
CancelsOwn ==
    [][\A t \in Timers : Cancel(t) => \A u \in Timers \ {t} : Scheduled(u) => Scheduled(u)']_vars
=============================================================================
