------------------------------ MODULE CopyQueue ------------------------------
(***************************************************************************)
(* What the data mover promises to the harts that use it: every copy that  *)
(* is queued is started once, in the order of the queue, and dm_wait does  *)
(* not return before the copies its caller queued are complete.            *)
(***************************************************************************)
EXTENDS Naturals, Sequences

CONSTANTS
    Clients,    \* the harts that queue copies
    Tasks,      \* the copies
    OwnerOf(_)  \* the client that queued a copy

VARIABLES
    pending,    \* the copies queued and not started, oldest first
    active,     \* the copies the DMA engine works on
    done,       \* the copies that are complete
    waiting     \* the clients in dm_wait

vars == <<pending, active, done, waiting>>

Queued == {pending[i] : i \in DOMAIN pending} \cup active \cup done

Init ==
    /\ pending = <<>>
    /\ active = {}
    /\ done = {}
    /\ waiting = {}

Push(t) ==
    /\ t \notin Queued
    /\ pending' = Append(pending, t)
    /\ UNCHANGED <<active, done, waiting>>

Start ==
    /\ pending # <<>>
    /\ pending' = Tail(pending)
    /\ active' = active \cup {Head(pending)}
    /\ UNCHANGED <<done, waiting>>

Complete(t) ==
    /\ t \in active
    /\ active' = active \ {t}
    /\ done' = done \cup {t}
    /\ UNCHANGED <<pending, waiting>>

CallWait(c) ==
    /\ c \notin waiting
    /\ waiting' = waiting \cup {c}
    /\ UNCHANGED <<pending, active, done>>

ReturnWait(c) ==
    /\ c \in waiting
    /\ \A t \in Queued : OwnerOf(t) = c => t \in done
    /\ waiting' = waiting \ {c}
    /\ UNCHANGED <<pending, active, done>>

Next ==
    \/ \E t \in Tasks : Push(t) \/ Complete(t)
    \/ Start
    \/ \E c \in Clients : CallWait(c) \/ ReturnWait(c)

Spec == Init /\ [][Next]_vars
=============================================================================
