--------------------------- MODULE StreamLifecycle ---------------------------
(****************************************************************************)
(* What XmlStream promises its user, without its threads and connection: a   *)
(* run is opened, ends once, and returns only when no client callback is     *)
(* executing and no object accepted for sending is held any more. Objects    *)
(* are accepted and received only while the run is open. Each one received    *)
(* is handed to one callback, in the order they came, one callback at a time. *)
(* A run that has ended hands over what is queued behind the object being     *)
(* handled, and nothing else; if none is being handled, it hands over nothing *)
(* any more.                                                                *)
(****************************************************************************)
EXTENDS Naturals, Sequences

CONSTANT Buf    \* the objects a stream can hold for sending

VARIABLES
    phase,   \* "idle", "open", "ending"
    held,    \* objects accepted by write() and not yet released
    inbox,   \* objects received, the first one being handled if busy
    busy     \* a client callback is executing

vars == <<phase, held, inbox, busy>>

Init == phase = "idle" /\ held = {} /\ inbox = <<>> /\ busy = FALSE

Open ==
    /\ phase = "idle"
    /\ phase' = "open"
    /\ UNCHANGED <<held, inbox, busy>>

Accept ==
    /\ phase = "open"
    /\ \E b \in Buf \ held : held' = held \cup {b}
    /\ UNCHANGED <<phase, inbox, busy>>

Release ==
    /\ \E b \in held : held' = held \ {b}
    /\ UNCHANGED <<phase, inbox, busy>>

(* What is received joins the objects that wait, at their end.              *)
Receive ==
    /\ phase = "open"
    /\ Len(inbox') = Len(inbox) + 1
    /\ SubSeq(inbox', 1, Len(inbox)) = inbox
    /\ UNCHANGED <<phase, held, busy>>

(* The callback for the first object begins.                                *)
Handle ==
    /\ phase = "open"
    /\ ~busy /\ inbox # <<>>
    /\ busy' = TRUE
    /\ UNCHANGED <<phase, held, inbox>>

(* It has returned; that for the next begins at once, whatever the phase.     *)
Handled ==
    /\ busy
    /\ inbox' = Tail(inbox)
    /\ busy' = (inbox' # <<>>)
    /\ UNCHANGED <<phase, held>>

End ==
    /\ phase = "open"
    /\ phase' = "ending"
    /\ UNCHANGED <<held, inbox, busy>>

Close ==
    /\ phase = "ending"
    /\ held = {}
    /\ ~busy
    /\ phase' = "idle"
    /\ UNCHANGED <<held, inbox, busy>>

Next == Open \/ Accept \/ Release \/ Receive \/ Handle \/ Handled \/ End \/ Close

Spec == Init /\ [][Next]_vars
=============================================================================
