------------------------------- MODULE Mailbox -------------------------------
(***************************************************************************)
(* What the request queue of the event loop promises to the threads that   *)
(* share it, without slots, versions or memory words.                      *)
(*                                                                         *)
(* A sender first takes a place in the order of delivery and only later    *)
(* makes its object visible.  The one receiver takes objects strictly in   *)
(* the order of the places, each once, never before it is visible, and at  *)
(* most Capacity visible objects are ever waiting for it.                  *)
(***************************************************************************)
EXTENDS Naturals, Sequences

CONSTANTS
    Items,      \* what is sent
    Capacity    \* how many visible items may wait for the receiver

VARIABLES
    order,      \* items in the order their senders took a place
    visible,    \* places (indices of order) whose item the receiver may take
    received    \* items the receiver took, oldest first

boxVars == <<order, visible, received>>

Init ==
    /\ order = <<>>
    /\ visible = {}
    /\ received = <<>>

(* A sender takes the next place. *)
TakePlace(i) ==
    /\ order' = Append(order, i)
    /\ UNCHANGED <<visible, received>>

(* The sender of place n makes its item visible; there must be room. *)
Show(n) ==
    /\ n \in 1 .. Len(order)
    /\ n \notin visible
    /\ n <= Len(received) + Capacity
    /\ visible' = visible \cup {n}
    /\ UNCHANGED <<order, received>>

(* The receiver takes the item of the next place, once it is visible. *)
Receive ==
    /\ Len(received) + 1 \in visible
    /\ received' = Append(received, order[Len(received) + 1])
    /\ UNCHANGED <<order, visible>>

Next ==
    \/ \E i \in Items : TakePlace(i)
    \/ \E n \in 1 .. Len(order) : Show(n)
    \/ Receive

Spec == Init /\ [][Next]_boxVars
=============================================================================
