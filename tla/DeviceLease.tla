---------------------------- MODULE DeviceLease ----------------------------
(* What the reservation layer promises about ownership, with the database,   *)
(* the threads and the clock left out: a device has at most one holder, it   *)
(* is granted only while it is free, and it changes hands only by becoming   *)
(* free first.  Several leases may end in one step, because a sweep, the     *)
(* deletion of an account and a restart each remove several rows with one    *)
(* commit.                                                                   *)
CONSTANTS Device, User, Nobody

VARIABLE holder

LeaseTypeOK == holder \in [Device -> User \cup {Nobody}]

Init == holder = [d \in Device |-> Nobody]

Grant(d, u) ==
    /\ holder[d] = Nobody
    /\ holder' = [holder EXCEPT ![d] = u]

End(S) ==
    /\ \A d \in S : holder[d] # Nobody
    /\ holder' = [d \in Device |-> IF d \in S THEN Nobody ELSE holder[d]]

Next ==
    \/ \E d \in Device, u \in User : Grant(d, u)
    \/ \E S \in SUBSET Device : End(S)

Spec == Init /\ [][Next]_holder
=============================================================================
