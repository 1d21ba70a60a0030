---------------------------- MODULE Subscriptions ----------------------------
(***************************************************************************)
(* What the registry of the event loop promises: for each descriptor that  *)
(* is subscribed, one callback and a set of events, without the vector,    *)
(* the index and the callback map the code spreads them over.              *)
(***************************************************************************)
EXTENDS Naturals

CONSTANTS
    FDs,        \* descriptors
    Callbacks,  \* what a ready descriptor runs
    Events      \* the event flags of poll

VARIABLE
    subs        \* the subscription of each subscribed descriptor

Init == subs = [fd \in {} |-> fd]

(* A new subscription replaces the callback and adds to the events. *)
Subscribe(fd, callback, events) ==
    subs' = [f \in DOMAIN subs \cup {fd} |->
                IF f # fd THEN subs[f]
                ELSE [callback |-> callback,
                      events |-> events \cup (IF fd \in DOMAIN subs THEN subs[fd].events ELSE {})]]

(* The descriptor is forgotten; every other subscription stays as it is. *)
UnSubscribe(fd) ==
    subs' = [f \in DOMAIN subs \ {fd} |-> subs[f]]

Next ==
    \E fd \in FDs :
        \/ \E callback \in Callbacks, events \in SUBSET Events : Subscribe(fd, callback, events)
        \/ UnSubscribe(fd)

Spec == Init /\ [][Next]_subs
=============================================================================
