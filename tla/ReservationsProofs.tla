------------------------- MODULE ReservationsProofs -------------------------
(* Theorems of Reservations, for every value of its constants.               *)
EXTENDS Reservations, TLAPS

\* The steps of the specification, one name for each alternative of Next.
LEMMA NextCases ==
    ASSUME Next
    PROVE  \/ Tick
           \/ \E t \in Thread : Arrival(t)
           \/ \E t \in Thread : Step(t)
           \/ Sweeper
           \/ \E u \in User : DeleteUser(u)
           \/ Restart
BY DEF Next

\* claim clamps whatever it is asked for to the legal durations.
LEMMA ClampInRange == \A m \in Int : Clamp(m) \in 1..MaxMinutes
BY ClockAssumption DEF Clamp

-----------------------------------------------------------------------------
(* Type correctness.                                                         *)

LEMMA ArrivalType ==
    ASSUME TypeOK, NEW t \in Thread, Arrival(t)
    PROVE  TypeOK'
<1>1. PICK u \in User, d \in Device :
        \/ \E asked \in Asked, multi \in Multi : ClaimArrives(t, u, d, asked, multi)
        \/ ReleaseArrives(t, u, d)
        \/ OfferArrives(t, u, d)
  BY DEF Arrival
<1>2. ASSUME NEW op \in {"claim", "release", "gate"}, NEW m \in 1..MaxMinutes,
             NEW place \in Place, Arrive(t, op, u, d, m, place)
      PROVE  TypeOK'
  BY <1>2 DEF TypeOK, Arrive, Goto, Request, NoRequest, Place, session
<1>3. ASSUME NEW asked \in Asked, NEW multi \in Multi,
             ClaimArrives(t, u, d, asked, multi)
      PROVE  TypeOK'
  <2>1. Clamp(asked) \in 1..MaxMinutes
    BY ClampInRange, ClockAssumption
  <2> QED
    BY <1>2, <1>3, <2>1 DEF ClaimArrives, Place
<1>4. 1 \in 1..MaxMinutes
  BY ClockAssumption
<1>5. CASE ReleaseArrives(t, u, d)
  BY <1>2, <1>4, <1>5 DEF ReleaseArrives, Place
<1>6. CASE OfferArrives(t, u, d)
  BY <1>2, <1>4, <1>6 DEF OfferArrives, Place
<1> QED
  BY <1>1, <1>3, <1>5, <1>6

\* Finishing a request keeps the thread's variables well typed.
LEMMA FinishType ==
    ASSUME TypeOK, NEW t \in Thread, Finish(t)
    PROVE  /\ pc' \in [Thread -> Place]
           /\ req' \in [Thread -> Request \cup {NoRequest}]
           /\ seen' \in [Thread -> Row \cup {NoRow}]
           /\ \A s \in Thread : pc'[s] # "idle" => req'[s] \in Request
BY DEF TypeOK, Finish, Goto, Place

\* So does returning from get, whatever row it found.
LEMMA ReturnType ==
    ASSUME TypeOK, NEW t \in Thread, NEW row \in Row \cup {NoRow},
           pc[t] # "idle", Return(t, row)
    PROVE  /\ pc' \in [Thread -> Place]
           /\ req' \in [Thread -> Request \cup {NoRequest}]
           /\ seen' \in [Thread -> Row \cup {NoRow}]
           /\ \A s \in Thread : pc'[s] # "idle" => req'[s] \in Request
<1>1. CASE NextPlace(req[t], row) = "idle"
  BY <1>1, FinishType DEF Return
<1>2. CASE NextPlace(req[t], row) # "idle"
  <2>1. NextPlace(req[t], row) \in Place
    BY DEF NextPlace, Place
  <2> QED
    BY <1>2, <2>1 DEF Return, TypeOK, Goto
<1> QED
  BY <1>1, <1>2

LEMMA StepType ==
    ASSUME TypeOK, NEW t \in Thread, Step(t)
    PROVE  TypeOK'
<1> USE DEF request, session
<1>0. pc[t] # "idle" => req[t] \in Request /\ req[t].dev \in Device
                        /\ table[req[t].dev] \in Row \cup {NoRow}
  BY DEF TypeOK, Request
<1>1. CASE Held(t)
  <2>1. CASE Finish(t)
    BY <1>1, <2>1, FinishType DEF Held, TypeOK
  <2>2. CASE Goto(t, "get") /\ UNCHANGED <<req, seen>>
    BY <1>1, <2>2 DEF Held, TypeOK, Goto, Place
  <2> QED
    BY <1>1, <2>1, <2>2 DEF Held
<1>2. CASE GetCurrent(t)
  BY <1>0, <1>2, ReturnType DEF GetCurrent, TypeOK
<1>3. CASE GetExpired(t)
  BY <1>0, <1>3 DEF GetExpired, TypeOK, Goto, Place
<1>4. CASE Reap(t)
  BY <1>0, <1>4 DEF Reap, Remove, TypeOK, Goto, Place
<1>5. CASE Delete(t)
  BY <1>0, <1>5 DEF Delete, Remove, TypeOK, Goto, Place
<1>6. CASE TearDownReaped(t)
  <2>1. live' \in [Device -> SUBSET User] /\ stray' \subseteq Device
    BY <1>6 DEF TearDownReaped, TearDown, TypeOK
  <2> QED
    BY <1>6, <2>1, ReturnType DEF TearDownReaped, TypeOK
<1>7. CASE TearDownReleased(t)
  <2>1. live' \in [Device -> SUBSET User] /\ stray' \subseteq Device
    BY <1>7 DEF TearDownReleased, TearDown, TypeOK
  <2> QED
    BY <1>7, <2>1, FinishType DEF TearDownReleased, TypeOK
<1>8. CASE InsertSucceeds(t)
  <2>1. [user |-> req[t].user, exp |-> now + req[t].minutes] \in Row
    BY <1>0, <1>8, ClockAssumption DEF InsertSucceeds, TypeOK, Request, Row
  <2>2. Answer(req[t]) \in Request
    BY <1>0, <1>8, ClockAssumption DEF InsertSucceeds, Request, Answer
  <2> QED
    BY <1>0, <1>8, <2>1, <2>2 DEF InsertSucceeds, TypeOK, Goto, Place
<1>9. CASE InsertRefused(t)
  BY <1>9, FinishType DEF InsertRefused, TypeOK
<1>10. CASE Extend(t)
  <2>1. \A d \in Device : table[d] # NoRow =>
           [user |-> table[d].user, exp |-> now + req[t].minutes] \in Row
    BY <1>0, <1>10, ClockAssumption DEF Extend, TypeOK, Request, Row
  <2>2. Answer(req[t]) \in Request
    BY <1>0, <1>10, ClockAssumption DEF Extend, Request, Answer
  <2> QED
    BY <1>0, <1>10, <2>1, <2>2 DEF Extend, TypeOK, Goto, Place
<1>11. CASE StartSession(t)
  <2>1. live' \in [Device -> SUBSET User] /\ stray' \subseteq Device
    BY <1>0, <1>11 DEF StartSession, TypeOK, Request
  <2> QED
    BY <1>11, <2>1, FinishType DEF StartSession, TypeOK
<1>12. CASE StartFails(t)
  BY <1>12, FinishType DEF StartFails, TypeOK
<1> QED
  BY <1>1, <1>2, <1>3, <1>4, <1>5, <1>6, <1>7, <1>8, <1>9, <1>10, <1>11, <1>12
     DEF Step

LEMMA SweeperType ==
    ASSUME TypeOK, Sweeper
    PROVE  TypeOK'
<1>1. CASE SweepSelect
  BY <1>1 DEF SweepSelect, TypeOK, Overdue, request, session
<1>2. CASE SweepDelete
  BY <1>2 DEF SweepDelete, TypeOK, request, session
<1>3. ASSUME NEW d \in Device, SweepTearDown(d)
      PROVE  TypeOK'
  <2>1. live' \in [Device -> SUBSET User] /\ stray' \subseteq Device
    BY <1>3 DEF SweepTearDown, TearDown, TypeOK
  <2>2. Asleep \in [at : {"sleep", "delete", "teardown"},
                    rows : [Device -> Row \cup {NoRow}], left : SUBSET Device]
    BY DEF Asleep
  <2> QED
    BY <1>3, <2>1, <2>2 DEF SweepTearDown, TypeOK, request
<1> QED
  BY <1>1, <1>2, <1>3 DEF Sweeper

\* Every variable keeps its type.
THEOREM TypeCorrect == Spec => []TypeOK
<1>1. Init => TypeOK
  BY ClockAssumption DEF Init, TypeOK, Place, Asleep
<1>2. TypeOK /\ [Next]_vars => TypeOK'
  <2> SUFFICES ASSUME TypeOK, [Next]_vars
               PROVE  TypeOK'
    OBVIOUS
  <2>1. CASE Tick
    BY <2>1 DEF Tick, TypeOK, request, session
  <2>2. CASE \E u \in User : DeleteUser(u)
    BY <2>2 DEF DeleteUser, TypeOK, request
  <2>3. CASE Restart
    BY <2>3 DEF Restart, TypeOK, Place, Asleep
  <2>4. CASE UNCHANGED vars
    BY <2>4 DEF vars, TypeOK
  <2> QED
    BY <2>1, <2>2, <2>3, <2>4, NextCases, ArrivalType, StepType, SweeperType
<1> QED
  BY <1>1, <1>2, PTL DEF Spec

-----------------------------------------------------------------------------
(* What a step may do to the table.  A row appears only by InsertSucceeds,   *)
(* changes only by Extend, and the other steps keep rows or remove them.     *)

Keeps(d) == table'[d] = table[d]
Removes(d) == table'[d] = NoRow
Inserts(t, d) == /\ req[t].dev = d
                 /\ table[d] = NoRow
                 /\ table'[d] = [user |-> req[t].user, exp |-> now + req[t].minutes]
Renews(t, d) == /\ table[d] # NoRow
                /\ table'[d] = [user |-> table[d].user, exp |-> now + req[t].minutes]

LEMMA TableSteps ==
    ASSUME TypeOK, [Next]_vars, NEW d \in Device
    PROVE  \/ Keeps(d)
           \/ Removes(d)
           \/ \E t \in Thread : /\ pc[t] # "idle"
                                /\ now' = now
                                /\ Inserts(t, d) \/ Renews(t, d)
<1> USE DEF Keeps, Removes
<1>1. CASE Tick \/ UNCHANGED vars
  BY <1>1 DEF Tick, vars
<1>2. ASSUME NEW t \in Thread, Arrival(t)
      PROVE  Keeps(d)
  BY <1>2 DEF Arrival, ClaimArrives, ReleaseArrives, OfferArrives, Arrive
<1>3. ASSUME NEW t \in Thread, Step(t)
      PROVE  \/ Keeps(d)
             \/ Removes(d)
             \/ pc[t] # "idle" /\ now' = now /\ (Inserts(t, d) \/ Renews(t, d))
  <2>1. CASE Reap(t) \/ Delete(t)
    BY <2>1 DEF Reap, Delete, Remove, TypeOK
  <2>2. CASE InsertSucceeds(t)
    BY <2>2 DEF InsertSucceeds, Inserts, TypeOK
  <2>3. CASE Extend(t)
    BY <2>3 DEF Extend, Renews, TypeOK
  <2>4. CASE UNCHANGED table
    BY <2>4
  <2>5. \/ Reap(t) \/ Delete(t) \/ InsertSucceeds(t) \/ Extend(t)
        \/ UNCHANGED table
    BY <1>3 DEF Step, Held, GetCurrent, GetExpired, TearDownReaped,
                TearDownReleased, InsertRefused, StartSession, StartFails
  <2> QED
    BY <2>1, <2>2, <2>3, <2>4, <2>5
<1>4. CASE Sweeper
  BY <1>4 DEF Sweeper, SweepSelect, SweepDelete, SweepTearDown, TypeOK
<1>5. CASE \E u \in User : DeleteUser(u)
  BY <1>5 DEF DeleteUser
<1>6. CASE Restart
  BY <1>6 DEF Restart
<1> QED
  BY <1>1, <1>2, <1>3, <1>4, <1>5, <1>6, NextCases

\* Whatever durations clients ask for and however often a lease is renewed, it
\* ends within MaxMinutes of the present.
THEOREM CapHolds == Spec => []LeaseWithinCap
<1>1. Init => LeaseWithinCap
  BY DEF Init, LeaseWithinCap
<1>2. TypeOK /\ LeaseWithinCap /\ [Next]_vars => LeaseWithinCap'
  <2> SUFFICES ASSUME TypeOK, LeaseWithinCap, [Next]_vars,
                      NEW d \in Device, table'[d] # NoRow
               PROVE  table'[d].exp <= now' + MaxMinutes
    BY DEF LeaseWithinCap
  <2>1. now \in Nat /\ now' \in Nat /\ now <= now'
    <3>1. \A t \in Thread : Arrival(t) => now' = now
      BY DEF Arrival, ClaimArrives, ReleaseArrives, OfferArrives, Arrive
    <3>2. \A t \in Thread : Step(t) => now' = now
      BY DEF Step, Held, GetCurrent, GetExpired, Reap, Delete, Remove,
             TearDownReaped, TearDownReleased, InsertSucceeds, InsertRefused,
             Extend, StartSession, StartFails
    <3>3. Sweeper => now' = now
      BY DEF Sweeper, SweepSelect, SweepDelete, SweepTearDown
    <3>4. Tick => now' = now + 1
      BY DEF Tick
    <3> QED
      BY <3>1, <3>2, <3>3, <3>4, NextCases
         DEF DeleteUser, Restart, vars, TypeOK
  <2>2. CASE Keeps(d)
    <3>1. table[d] # NoRow /\ table[d] \in Row
      BY <2>2 DEF Keeps, TypeOK
    <3> QED
      BY <2>1, <2>2, <3>1, ClockAssumption DEF Keeps, LeaseWithinCap, Row
  <2>3. ASSUME NEW t \in Thread, pc[t] # "idle", now' = now,
               Inserts(t, d) \/ Renews(t, d)
        PROVE  table'[d].exp <= now' + MaxMinutes
    <3>1. req[t].minutes \in 1..MaxMinutes
      BY <2>3 DEF TypeOK, Request
    <3>2. table'[d].exp = now + req[t].minutes
      BY <2>3 DEF Inserts, Renews
    <3> QED
      BY <2>1, <2>3, <3>1, <3>2, ClockAssumption
  <2> QED
    BY <2>2, <2>3, TableSteps DEF Removes
<1> QED
  BY <1>1, <1>2, TypeCorrect, PTL DEF Spec

-----------------------------------------------------------------------------
(* Exclusive ownership.                                                      *)

\* The table of reservations implements the abstract lease: a device is
\* granted while free, and never passes from one user to another directly.
THEOREM LeaseRefinement == Spec => ExclusiveLease
<1>1. Init => Lease!Init
  BY DEF Init, Lease!Init, NoRow, Holder
<1>2. TypeOK /\ [Next]_vars => [Lease!Next]_Holder
  <2> SUFFICES ASSUME TypeOK, [Next]_vars
               PROVE  Lease!Next \/ UNCHANGED Holder
    OBVIOUS
  <2> DEFINE Ended == {d \in Device : table[d] # NoRow /\ table'[d] = NoRow}
  <2>0. /\ NoRow.user = Nobody
        /\ \A row \in Row : row.user \in User /\ row # NoRow
        /\ \A d \in Device : table[d] \in Row \cup {NoRow}
    BY AccountAssumption DEF NoRow, Row, TypeOK
  <2>1. ASSUME \A d \in Device : Keeps(d) \/ Removes(d)
        PROVE  Lease!End(Ended)
    <3>1. \A d \in Ended : Holder[d] # Nobody
      BY <2>0, AccountAssumption DEF Holder
    <3>2. \A d \in Device : table'[d].user =
                               IF d \in Ended THEN Nobody ELSE Holder[d]
      BY <2>0, <2>1 DEF Holder, Keeps, Removes
    <3>3. Holder' = [d \in Device |-> IF d \in Ended THEN Nobody ELSE Holder[d]]
      BY <3>2 DEF Holder
    <3> QED
      BY <3>1, <3>3 DEF Lease!End
  <2>2. ASSUME NEW t \in Thread, InsertSucceeds(t)
        PROVE  Lease!Grant(req[t].dev, req[t].user)
    <3>1. req[t].dev \in Device /\ req[t].user \in User
      BY <2>2 DEF InsertSucceeds, TypeOK, Request
    <3>2. Holder[req[t].dev] = Nobody
      BY <2>0, <2>2, <3>1 DEF InsertSucceeds, Holder
    <3>3. Holder' = [Holder EXCEPT ![req[t].dev] = req[t].user]
      BY <2>2, <3>1 DEF InsertSucceeds, Holder, TypeOK
    <3> QED
      BY <3>2, <3>3 DEF Lease!Grant
  <2>3. ASSUME NEW t \in Thread, Extend(t)
        PROVE  UNCHANGED Holder
    BY <2>3 DEF Extend, Holder
  <2>4. (\A t \in Thread : ~InsertSucceeds(t) /\ ~Extend(t))
           => \A d \in Device : Keeps(d) \/ Removes(d)
    <3>1. \A t \in Thread : Arrival(t) => UNCHANGED table
      BY DEF Arrival, ClaimArrives, ReleaseArrives, OfferArrives, Arrive
    <3>2. \A t \in Thread : Step(t) /\ ~InsertSucceeds(t) /\ ~Extend(t)
             => \A d \in Device : Keeps(d) \/ Removes(d)
      BY DEF Step, Held, GetCurrent, GetExpired, Reap, Delete, Remove,
             TearDownReaped, TearDownReleased, InsertRefused, StartSession,
             StartFails, Keeps, Removes, TypeOK
    <3>3. Sweeper => \A d \in Device : Keeps(d) \/ Removes(d)
      BY DEF Sweeper, SweepSelect, SweepDelete, SweepTearDown, Keeps, Removes
    <3> QED
      BY <3>1, <3>2, <3>3, NextCases
         DEF Tick, DeleteUser, Restart, vars, Keeps, Removes
  <2>5. Ended \in SUBSET Device
    OBVIOUS
  <2>6. CASE \E t \in Thread : InsertSucceeds(t)
    <3>1. PICK t \in Thread : InsertSucceeds(t)
      BY <2>6
    <3>2. req[t].dev \in Device /\ req[t].user \in User
      BY <3>1 DEF InsertSucceeds, TypeOK, Request
    <3> QED
      BY <2>2, <3>1, <3>2 DEF Lease!Next
  <2>7. CASE \A t \in Thread : ~InsertSucceeds(t) /\ ~Extend(t)
    BY <2>1, <2>4, <2>5, <2>7 DEF Lease!Next
  <2> QED
    BY <2>3, <2>6, <2>7
<1> QED
  BY <1>1, <1>2, TypeCorrect, PTL DEF Spec, ExclusiveLease, Lease!Spec

-----------------------------------------------------------------------------
(* Sessions and teardowns.                                                   *)

\* A row that disappears from under a running session leaves a teardown due.
LEMMA OrphanStep ==
    ASSUME TypeOK, OrphanHasReaper, NEW t \in Thread, Step(t)
    PROVE  OrphanHasReaper'
<1> SUFFICES ASSUME NEW d \in Device,
                    table'[d] = NoRow, live'[d] # {}, d \notin stray'
             PROVE  TearDownDue(d)'
  BY DEF OrphanHasReaper
<1>0. /\ \A s \in Thread : s # t => pc'[s] = pc[s] /\ req'[s] = req[s]
      /\ sweep' = sweep
  BY DEF Step, Held, GetCurrent, GetExpired, Reap, Delete, Remove, Return,
         TearDownReaped, TearDownReleased, InsertSucceeds, InsertRefused,
         Extend, StartSession, StartFails, Finish, Goto, TypeOK
<1>1. ASSUME TearDownDue(d), ~(pc[t] \in {"reaped", "deleted"} /\ req[t].dev = d)
      PROVE  TearDownDue(d)'
  BY <1>0, <1>1 DEF TearDownDue
<1>2. CASE Reap(t) \/ Delete(t)
  <2>1. pc'[t] \in {"reaped", "deleted"} /\ req'[t] = req[t]
    BY <1>2 DEF Reap, Delete, Remove, Goto, TypeOK
  <2>2. CASE req[t].dev = d
    BY <2>1, <2>2 DEF TearDownDue
  <2>3. CASE req[t].dev # d
    <3>1. table[d] = NoRow /\ live[d] # {} /\ d \notin stray
      BY <1>2, <2>3 DEF Reap, Delete, Remove, TypeOK, session
    <3> QED
      BY <1>1, <2>3, <3>1 DEF OrphanHasReaper
  <2> QED
    BY <2>2, <2>3
<1>3. CASE TearDownReaped(t) \/ TearDownReleased(t)
  <2>1. req[t].dev # d
    BY <1>3 DEF TearDownReaped, TearDownReleased, TearDown, TypeOK
  <2>2. table[d] = NoRow /\ live[d] # {} /\ d \notin stray
    BY <1>3, <2>1 DEF TearDownReaped, TearDownReleased, TearDown, TypeOK
  <2> QED
    BY <1>1, <2>1, <2>2 DEF OrphanHasReaper
<1>4. CASE StartSession(t)
  <2>1. pc[t] = "start" /\ req[t].dev \in Device
    BY <1>4 DEF StartSession, TypeOK, Request
  <2>2. table[d] = NoRow /\ live[d] # {} /\ d \notin stray
    BY <1>4, <2>1 DEF StartSession, TypeOK
  <2> QED
    BY <1>1, <2>1, <2>2 DEF OrphanHasReaper
<1>5. CASE InsertSucceeds(t) \/ Extend(t)
  <2>1. table[d] = NoRow /\ live[d] # {} /\ d \notin stray
    BY <1>5, AccountAssumption DEF InsertSucceeds, Extend, TypeOK, session, Row,
                                   NoRow, Request
  <2>2. pc[t] \in {"insert", "extend"}
    BY <1>5 DEF InsertSucceeds, Extend
  <2> QED
    BY <1>1, <2>1, <2>2 DEF OrphanHasReaper
<1>6. CASE \/ Held(t) \/ GetCurrent(t) \/ GetExpired(t)
           \/ InsertRefused(t) \/ StartFails(t)
  <2>1. table[d] = NoRow /\ live[d] # {} /\ d \notin stray
    BY <1>6 DEF Held, GetCurrent, GetExpired, InsertRefused, StartFails, session
  <2>2. pc[t] \in {"held", "get", "insert", "start"}
    BY <1>6 DEF Held, GetCurrent, GetExpired, InsertRefused, StartFails
  <2> QED
    BY <1>1, <2>1, <2>2 DEF OrphanHasReaper
<1> QED
  BY <1>2, <1>3, <1>4, <1>5, <1>6 DEF Step

\* No release, lazy reap or sweep forgets the session it ends.
THEOREM NoForgottenSession == Spec => []OrphanHasReaper
<1>1. Init => OrphanHasReaper
  BY DEF Init, OrphanHasReaper
<1>2. TypeOK /\ OrphanHasReaper /\ [Next]_vars => OrphanHasReaper'
  <2> SUFFICES ASSUME TypeOK, OrphanHasReaper, [Next]_vars
               PROVE  OrphanHasReaper'
    OBVIOUS
  <2>1. CASE Tick
    BY <2>1 DEF Tick, OrphanHasReaper, TearDownDue, request, session
  <2>2. ASSUME NEW t \in Thread, Arrival(t)
        PROVE  OrphanHasReaper'
    <3>1. /\ pc[t] = "idle"
          /\ \A s \in Thread : s # t => pc'[s] = pc[s] /\ req'[s] = req[s]
          /\ UNCHANGED <<table, sweep, session>>
      BY <2>2 DEF Arrival, ClaimArrives, ReleaseArrives, OfferArrives, Arrive,
                  Goto, TypeOK
    <3>2. \A e \in Device : TearDownDue(e) => TearDownDue(e)'
      BY <3>1 DEF TearDownDue
    <3> QED
      BY <3>1, <3>2 DEF OrphanHasReaper, session
  <2>3. CASE SweepSelect
    BY <2>3 DEF SweepSelect, OrphanHasReaper, TearDownDue, request, session
  <2>4. CASE SweepDelete
    BY <2>4 DEF SweepDelete, OrphanHasReaper, TearDownDue, request, session, TypeOK
  <2>5. ASSUME NEW d \in Device, SweepTearDown(d)
        PROVE  OrphanHasReaper'
    <3> SUFFICES ASSUME NEW e \in Device,
                        table'[e] = NoRow, live'[e] # {}, e \notin stray'
                 PROVE  TearDownDue(e)'
      BY DEF OrphanHasReaper
    <3>1. e # d /\ table[e] = NoRow /\ live[e] # {} /\ e \notin stray
      BY <2>5 DEF SweepTearDown, TearDown, TypeOK
    <3>2. TearDownDue(e)
      BY <3>1 DEF OrphanHasReaper
    <3>3. CASE \E t \in Thread : pc[t] \in {"reaped", "deleted"} /\ req[t].dev = e
      BY <2>5, <3>3 DEF SweepTearDown, TearDownDue, request
    <3>4. CASE e \in sweep.left
      <4>1. sweep.left # {d}
        BY <3>1, <3>4
      <4>2. sweep'.at = "teardown" /\ e \in sweep'.left
        BY <2>5, <3>1, <3>4, <4>1 DEF SweepTearDown, TypeOK
      <4> QED
        BY <4>2 DEF TearDownDue
    <3> QED
      BY <3>2, <3>3, <3>4 DEF TearDownDue
  <2>6. CASE \E u \in User : DeleteUser(u)
    BY <2>6 DEF DeleteUser, OrphanHasReaper, TearDownDue, request
  <2>7. CASE Restart
    BY <2>7 DEF Restart, OrphanHasReaper
  <2>8. CASE UNCHANGED vars
    BY <2>8 DEF vars, OrphanHasReaper, TearDownDue
  <2> QED
    BY <2>1, <2>2, <2>3, <2>4, <2>5, <2>6, <2>7, <2>8, NextCases, OrphanStep
       DEF Sweeper
<1> QED
  BY <1>1, <1>2, TypeCorrect, PTL DEF Spec

-----------------------------------------------------------------------------
(* Decisions to end a reservation.                                           *)

\* The inductive invariant: what a thread is about to delete was over, or its
\* to delete, when it decided so.
DecisionOK ==
    /\ \A t \in Thread :
          /\ pc[t] = "reap" => Expired(seen[t])
          /\ pc[t] = "delete" => MayControl(req[t].user, seen[t])
    /\ sweep.at = "delete" => \A d \in sweep.left : Expired(sweep.rows[d])

\* What was over stays over as the clock advances.
LEMMA ExpiredIsStable ==
    ASSUME now \in Nat, NEW row, row.exp \in Nat, Expired(row), now' = now + 1
    PROVE  Expired(row)'
BY ClockAssumption DEF Expired

LEMMA DecisionStep ==
    ASSUME TypeOK, DecisionOK, NEW t \in Thread, Step(t)
    PROVE  DecisionOK'
<1>0. /\ \A s \in Thread : s # t =>
            pc'[s] = pc[s] /\ req'[s] = req[s] /\ seen'[s] = seen[s]
      /\ sweep' = sweep /\ now' = now
  BY DEF Step, Held, GetCurrent, GetExpired, Reap, Delete, Remove, Return,
         TearDownReaped, TearDownReleased, InsertSucceeds, InsertRefused,
         Extend, StartSession, StartFails, Finish, Goto, TypeOK
<1>1. SUFFICES /\ pc'[t] = "reap" => Expired(seen'[t])
               /\ pc'[t] = "delete" => MayControl(req'[t].user, seen'[t])
  BY <1>0 DEF DecisionOK, Expired
<1>2. ASSUME NEW row, Return(t, row)
      PROVE  /\ pc'[t] # "reap"
             /\ pc'[t] = "delete" => MayControl(req'[t].user, seen'[t])
  <2>1. CASE NextPlace(req[t], row) = "delete"
    <3>1. MayControl(req[t].user, row)
      BY <2>1 DEF NextPlace
    <3> QED
      BY <1>2, <2>1, <3>1 DEF Return, Goto, TypeOK
  <2>2. CASE NextPlace(req[t], row) # "delete"
    <3>1. NextPlace(req[t], row) # "reap"
      BY DEF NextPlace
    <3> QED
      BY <1>2, <2>2, <3>1 DEF Return, Finish, Goto, TypeOK
  <2> QED
    BY <2>1, <2>2
<1>3. CASE GetCurrent(t) \/ TearDownReaped(t)
  BY <1>2, <1>3 DEF GetCurrent, TearDownReaped
<1>4. CASE GetExpired(t)
  BY <1>4 DEF GetExpired, Goto, TypeOK
<1>5. pc'[t] \notin {"reap", "delete"} \/ GetCurrent(t) \/ TearDownReaped(t)
      \/ GetExpired(t)
  BY DEF Step, Held, Reap, Delete, Remove, TearDownReleased, InsertSucceeds,
         InsertRefused, Extend, StartSession, StartFails, Finish, Goto, TypeOK
<1> QED
  BY <1>3, <1>4, <1>5

LEMMA DecisionInvariant == Spec => []DecisionOK
<1>1. Init => DecisionOK
  BY DEF Init, DecisionOK, Asleep
<1>2. TypeOK /\ DecisionOK /\ [Next]_vars => DecisionOK'
  <2> SUFFICES ASSUME TypeOK, DecisionOK, [Next]_vars
               PROVE  DecisionOK'
    OBVIOUS
  <2>1. CASE Tick
    <3>1. \A row \in Row \cup {NoRow} : Expired(row) => Expired(row)'
      BY <2>1, ExpiredIsStable DEF Tick, TypeOK, Row, NoRow
    <3> QED
      BY <2>1, <3>1 DEF Tick, DecisionOK, TypeOK, request, Expired
  <2>2. ASSUME NEW t \in Thread, Arrival(t)
        PROVE  DecisionOK'
    <3>1. /\ pc'[t] \in {"get", "held"}
          /\ \A s \in Thread : s # t => pc'[s] = pc[s] /\ req'[s] = req[s]
          /\ UNCHANGED <<now, seen, sweep>>
      BY <2>2 DEF Arrival, ClaimArrives, ReleaseArrives, OfferArrives, Arrive,
                  Goto, TypeOK
    <3> QED
      BY <3>1 DEF DecisionOK, Expired
  <2>3. CASE SweepSelect
    BY <2>3 DEF SweepSelect, Overdue, DecisionOK, Expired, request
  <2>4. CASE SweepDelete
    BY <2>4 DEF SweepDelete, DecisionOK, Expired, request, TypeOK
  <2>5. CASE \E d \in Device : SweepTearDown(d)
    BY <2>5 DEF SweepTearDown, DecisionOK, Expired, request, TypeOK, Asleep
  <2>6. CASE \E u \in User : DeleteUser(u)
    BY <2>6 DEF DeleteUser, DecisionOK, Expired, request
  <2>7. CASE Restart
    BY <2>7 DEF Restart, DecisionOK, Asleep
  <2>8. CASE UNCHANGED vars
    BY <2>8 DEF vars, DecisionOK, Expired
  <2> QED
    BY <2>1, <2>2, <2>3, <2>4, <2>5, <2>6, <2>7, <2>8, NextCases, DecisionStep
       DEF Sweeper
<1> QED
  BY <1>1, <1>2, TypeCorrect, PTL DEF Spec

\* A row that is still the one a thread decided on is removed only when it is
\* over, or on behalf of its owner or an administrator.
THEOREM DecisionsAuthorised == Spec => EndAuthorised
<1>1. TypeOK /\ DecisionOK => [Authorised]_vars
  BY DEF DecisionOK, Authorised, Reap, Delete, Remove, SweepDelete
<1> QED
  BY <1>1, TypeCorrect, DecisionInvariant, PTL DEF EndAuthorised
=============================================================================
