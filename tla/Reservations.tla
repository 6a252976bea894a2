---------------------------- MODULE Reservations ----------------------------
(* Device reservations: services/reservations.py over the SQLite table       *)
(* device_reservations, driven by the HTTP routes of api/reservations.py,    *)
(* the offer gate of api/webrtc.py, the expiry sweeper and the account       *)
(* deletion of api/authentication.py.                                        *)
(*                                                                           *)
(* Every function of the service opens its own connection and commits each   *)
(* statement by itself, so ONE STATEMENT IS ONE STEP and request threads and *)
(* the sweeper interleave between statements.  A request thread walks        *)
(*                                                                           *)
(*   claim:   [held ->] get -> insert | extend -> get (the answer)           *)
(*   release: get -> delete -> teardown                                      *)
(*   gate:    get -> start            (assert_owner, then start_session)     *)
(*                                                                           *)
(* and a get that meets an expired row is get -> reap -> teardown first.     *)
(* Time is the number now, in minutes; a control session is the fact that a  *)
(* user started one since the device was last torn down.                     *)
EXTENDS Integers

CONSTANTS
    Device,      \* devices adb reports
    User,        \* accounts
    Admin,       \* the accounts with role admin or super_admin
    Removable,   \* the accounts an administrator may delete
    Nobody,      \* the user of no row
    Thread,      \* request threads
    Asked,       \* durations a client may ask for
    MaxMinutes,  \* RESERVATION_MAX_MINUTES
    Grace,       \* RESERVATION_GRACE_SECONDS, in the clock's unit
    Horizon,     \* bound on the clock
    Multi        \* the values of claim's allow_multi

ASSUME AccountAssumption ==
    /\ Admin \subseteq User
    /\ Removable \subseteq User
    /\ Nobody \notin User

ASSUME ClockAssumption ==
    /\ MaxMinutes \in Nat \ {0}
    /\ Grace \in Nat
    /\ Horizon \in Nat
    /\ Asked \subseteq Int

ASSUME MultiAssumption == Multi \subseteq BOOLEAN

VARIABLES
    now,     \* datetime.now()
    users,   \* the rows of users
    table,   \* the rows of device_reservations, by primary key
    pc,      \* where each request thread is
    req,     \* its arguments
    seen,    \* the row its DELETE was decided on
    sweep,   \* the sweeper: where it is, the rows it selected, what is left
    live,    \* who started a control session since the last teardown
    stray    \* history: devices whose session no teardown was owed to

vars == <<now, users, table, pc, req, seen, sweep, live, stray>>
request == <<pc, req, seen>>
session == <<live, stray>>

-----------------------------------------------------------------------------
(* Rows, requests and the clock.                                             *)

Row == [user : User, exp : Nat]
NoRow == [user |-> Nobody, exp |-> 0]

Request == [op : {"claim", "answer", "release", "gate"},
            user : User, dev : Device, minutes : 1..MaxMinutes]
NoRequest == [op |-> "none"]

\* What is left of a claim once it wrote its row: the get it answers with.
Answer(r) == [op |-> "answer", user |-> r.user, dev |-> r.dev, minutes |-> 1]

Place == {"idle", "held", "get", "reap", "reaped", "insert", "extend",
          "delete", "deleted", "start"}

Asleep == [at |-> "sleep", rows |-> [d \in Device |-> NoRow], left |-> {}]

\* Mutant: the cap is forgotten.
Clamp_no_cap(m) == IF m < 1 THEN 1 ELSE m

\* Mutant: the lower bound is forgotten.
Clamp_no_floor(m) == IF m > MaxMinutes THEN MaxMinutes ELSE m

Clamp(m) == IF m < 1 THEN 1 ELSE IF m > MaxMinutes THEN MaxMinutes ELSE m

\* _is_expired, and the cutoff of sweep: the grace buffer has elapsed too.
Expired(row) == row.exp < now - Grace

MayControl(u, row) == row # NoRow /\ (row.user = u \/ u \in Admin)

-----------------------------------------------------------------------------
Init ==
    /\ now = 0
    /\ users = User
    /\ table = [d \in Device |-> NoRow]
    /\ pc = [t \in Thread |-> "idle"]
    /\ req = [t \in Thread |-> NoRequest]
    /\ seen = [t \in Thread |-> NoRow]
    /\ sweep = Asleep
    /\ live = [d \in Device |-> {}]
    /\ stray = {}

Tick ==
    /\ now < Horizon
    /\ now' = now + 1
    /\ UNCHANGED <<users, table, request, sweep, session>>

-----------------------------------------------------------------------------
(* Requests arriving, from users that still have an account.                 *)

Goto(t, place) == pc' = [pc EXCEPT ![t] = place]

Finish(t) ==
    /\ Goto(t, "idle")
    /\ req' = [req EXCEPT ![t] = NoRequest]
    /\ seen' = [seen EXCEPT ![t] = NoRow]

Arrive(t, op, u, d, m, place) ==
    /\ pc[t] = "idle"
    /\ u \in users
    /\ Goto(t, place)
    /\ req' = [req EXCEPT ![t] =
                  [op |-> op, user |-> u, dev |-> d, minutes |-> m]]
    /\ UNCHANGED <<now, users, table, seen, sweep, session>>

ClaimArrives(t, u, d, asked, multi) ==
    Arrive(t, "claim", u, d, Clamp(asked),
           IF multi \/ u \in Admin THEN "get" ELSE "held")

ReleaseArrives(t, u, d) == Arrive(t, "release", u, d, 1, "get")

OfferArrives(t, u, d) == Arrive(t, "gate", u, d, 1, "get")

-----------------------------------------------------------------------------
(* The steps of a request thread, one per statement.                         *)

\* claim: _user_active_device, the one-device-per-user check.  The SELECT has
\* no ORDER BY: the first unexpired row it returns is any of them.
Held(t) ==
    LET mine == {d \in Device :
                    table[d].user = req[t].user /\ ~Expired(table[d])}
    IN  /\ pc[t] = "held"
        /\ \/ /\ mine = {} \/ req[t].dev \in mine
              /\ Goto(t, "get")
              /\ UNCHANGED <<req, seen>>
           \/ /\ mine \ {req[t].dev} # {}
              /\ Finish(t)
        /\ UNCHANGED <<now, users, table, sweep, session>>

\* Mutant: anybody may release.
NextPlace_no_owner_check(r, row) ==
    CASE r.op = "claim" /\ row = NoRow           -> "insert"
      [] r.op = "claim" /\ row.user = r.user     -> "extend"
      [] r.op = "release" /\ row # NoRow         -> "delete"
      [] r.op = "gate" /\ MayControl(r.user, row) -> "start"
      [] OTHER                                   -> "idle"

\* What each caller of get does with the row it returned.
NextPlace(r, row) ==
    CASE r.op = "claim" /\ row = NoRow           -> "insert"
      [] r.op = "claim" /\ row.user = r.user     -> "extend"
      [] r.op = "release" /\ MayControl(r.user, row) -> "delete"
      [] r.op = "gate" /\ MayControl(r.user, row)    -> "start"
      [] OTHER                                   -> "idle"

Return(t, row) ==
    IF NextPlace(req[t], row) = "idle"
    THEN Finish(t)
    ELSE /\ Goto(t, NextPlace(req[t], row))
         /\ seen' = [seen EXCEPT ![t] = IF NextPlace(req[t], row) = "delete"
                                        THEN row ELSE NoRow]
         /\ UNCHANGED req

GetCurrent(t) ==
    /\ pc[t] = "get"
    /\ table[req[t].dev] = NoRow \/ ~Expired(table[req[t].dev])
    /\ Return(t, table[req[t].dev])
    /\ UNCHANGED <<now, users, table, sweep, session>>

GetExpired(t) ==
    /\ pc[t] = "get"
    /\ table[req[t].dev] # NoRow /\ Expired(table[req[t].dev])
    /\ Goto(t, "reap")
    /\ seen' = [seen EXCEPT ![t] = table[req[t].dev]]
    /\ UNCHANGED <<now, users, table, req, sweep, session>>

\* DELETE ... WHERE device_id = ?: whatever row is there by now.
Remove(t, from, to) ==
    /\ pc[t] = from
    /\ table' = [table EXCEPT ![req[t].dev] = NoRow]
    /\ Goto(t, to)
    /\ seen' = [seen EXCEPT ![t] = NoRow]
    /\ UNCHANGED <<now, users, req, sweep, session>>

\* Mutant: get reaps the row and returns without a teardown.
Reap_no_teardown(t) ==
    /\ pc[t] = "reap"
    /\ table' = [table EXCEPT ![req[t].dev] = NoRow]
    /\ Return(t, NoRow)
    /\ UNCHANGED <<now, users, sweep, session>>

Reap(t) == Remove(t, "reap", "reaped")

Delete(t) == Remove(t, "delete", "deleted")

\* _teardown: stop the scrcpy client, close the peers, tell the browsers.
TearDown(d) ==
    /\ live' = [live EXCEPT ![d] = {}]
    /\ stray' = stray \ {d}

TearDownReaped(t) ==
    /\ pc[t] = "reaped"
    /\ TearDown(req[t].dev)
    /\ Return(t, NoRow)
    /\ UNCHANGED <<now, users, table, sweep>>

TearDownReleased(t) ==
    /\ pc[t] = "deleted"
    /\ TearDown(req[t].dev)
    /\ Finish(t)
    /\ UNCHANGED <<now, users, table, sweep>>

\* Mutant: INSERT OR REPLACE.
InsertSucceeds_replace(t) ==
    /\ pc[t] = "insert"
    /\ req[t].user \in users
    /\ table' = [table EXCEPT ![req[t].dev] =
                    [user |-> req[t].user, exp |-> now + req[t].minutes]]
    /\ Goto(t, "get")
    /\ req' = [req EXCEPT ![t] = Answer(@)]
    /\ UNCHANGED <<now, users, seen, sweep, session>>

\* INSERT; the primary key, or the foreign key of a deleted account, refuses.
InsertSucceeds(t) ==
    /\ pc[t] = "insert"
    /\ table[req[t].dev] = NoRow
    /\ req[t].user \in users
    /\ table' = [table EXCEPT ![req[t].dev] =
                    [user |-> req[t].user, exp |-> now + req[t].minutes]]
    /\ Goto(t, "get")
    /\ req' = [req EXCEPT ![t] = Answer(@)]
    /\ UNCHANGED <<now, users, seen, sweep, session>>

InsertRefused(t) ==
    /\ pc[t] = "insert"
    /\ table[req[t].dev] # NoRow \/ req[t].user \notin users
    /\ Finish(t)
    /\ UNCHANGED <<now, users, table, sweep, session>>

\* UPDATE ... WHERE device_id = ?: no row if it was released, and the row of
\* whoever claimed the device since the SELECT.
Extend(t) ==
    /\ pc[t] = "extend"
    /\ table' = [d \in Device |->
                    IF d = req[t].dev /\ table[d] # NoRow
                    THEN [user |-> table[d].user, exp |-> now + req[t].minutes]
                    ELSE table[d]]
    /\ Goto(t, "get")
    /\ req' = [req EXCEPT ![t] = Answer(@)]
    /\ UNCHANGED <<now, users, seen, sweep, session>>

\* start_session, after the gate let it through.
StartSession(t) ==
    /\ pc[t] = "start"
    /\ live' = [live EXCEPT ![req[t].dev] = @ \cup {req[t].user}]
    /\ stray' = IF table[req[t].dev] = NoRow THEN stray \cup {req[t].dev}
                                             ELSE stray
    /\ Finish(t)
    /\ UNCHANGED <<now, users, table, sweep>>

StartFails(t) ==
    /\ pc[t] = "start"
    /\ Finish(t)
    /\ UNCHANGED <<now, users, table, sweep, session>>

-----------------------------------------------------------------------------
(* The sweeper thread.                                                       *)

Overdue == {d \in Device : table[d] # NoRow /\ Expired(table[d])}

SweepSelect ==
    /\ sweep.at = "sleep"
    /\ Overdue # {}
    /\ sweep' = [at |-> "delete",
                 rows |-> [d \in Device |-> IF d \in Overdue THEN table[d]
                                                             ELSE NoRow],
                 left |-> Overdue]
    /\ UNCHANGED <<now, users, table, request, session>>

\* Mutant: the connection is closed without a commit.
SweepDelete_no_commit ==
    /\ sweep.at = "delete"
    /\ sweep' = [sweep EXCEPT !.at = "teardown",
                              !.rows = [d \in Device |-> NoRow]]
    /\ UNCHANGED <<now, users, table, request, session>>

\* executemany of DELETE ... WHERE device_id = ?, one commit.
SweepDelete ==
    /\ sweep.at = "delete"
    /\ table' = [d \in Device |-> IF d \in sweep.left THEN NoRow ELSE table[d]]
    /\ sweep' = [sweep EXCEPT !.at = "teardown",
                              !.rows = [d \in Device |-> NoRow]]
    /\ UNCHANGED <<now, users, request, session>>

SweepTearDown(d) ==
    /\ sweep.at = "teardown"
    /\ d \in sweep.left
    /\ TearDown(d)
    /\ sweep' = IF sweep.left = {d} THEN Asleep
                                    ELSE [sweep EXCEPT !.left = @ \ {d}]
    /\ UNCHANGED <<now, users, table, request>>

-----------------------------------------------------------------------------
(* Account deletion, and a restart of the process.                           *)

\* DELETE FROM users: the foreign key cascades to the user's reservations,
\* and nothing is torn down.
DeleteUser(u) ==
    LET gone == {d \in Device : table[d].user = u}
    IN  /\ u \in users \cap Removable
        /\ users' = users \ {u}
        /\ table' = [d \in Device |-> IF d \in gone THEN NoRow ELSE table[d]]
        /\ stray' = stray \cup {d \in gone : live[d] # {}}
        /\ UNCHANGED <<now, request, sweep, live>>

\* The threads and the sessions die with the process; init_db wipes the table.
Restart ==
    /\ table' = [d \in Device |-> NoRow]
    /\ pc' = [t \in Thread |-> "idle"]
    /\ req' = [t \in Thread |-> NoRequest]
    /\ seen' = [t \in Thread |-> NoRow]
    /\ sweep' = Asleep
    /\ live' = [d \in Device |-> {}]
    /\ stray' = {}
    /\ UNCHANGED <<now, users>>

-----------------------------------------------------------------------------
Step(t) ==
    \/ Held(t)
    \/ GetCurrent(t)
    \/ GetExpired(t)
    \/ Reap(t)
    \/ Delete(t)
    \/ TearDownReaped(t)
    \/ TearDownReleased(t)
    \/ InsertSucceeds(t)
    \/ InsertRefused(t)
    \/ Extend(t)
    \/ StartSession(t)
    \/ StartFails(t)

Sweeper ==
    \/ SweepSelect
    \/ SweepDelete
    \/ \E d \in Device : SweepTearDown(d)

Arrival(t) ==
    \E u \in User, d \in Device :
        \/ \E asked \in Asked, multi \in Multi : ClaimArrives(t, u, d, asked, multi)
        \/ ReleaseArrives(t, u, d)
        \/ OfferArrives(t, u, d)

Next ==
    \/ Tick
    \/ \E t \in Thread : Arrival(t) \/ Step(t)
    \/ Sweeper
    \/ \E u \in User : DeleteUser(u)
    \/ Restart

Spec == Init /\ [][Next]_vars

\* The operating system runs every thread that can run, and the sweeper's
\* loop survives every exception; users, time and restarts owe nothing.
Fairness == WF_vars(Sweeper) /\ \A t \in Thread : WF_vars(Step(t))

FairSpec == Spec /\ Fairness

-----------------------------------------------------------------------------
(* Properties.                                                               *)

TypeOK ==
    /\ now \in Nat
    /\ users \subseteq User
    /\ table \in [Device -> Row \cup {NoRow}]
    /\ pc \in [Thread -> Place]
    /\ req \in [Thread -> Request \cup {NoRequest}]
    /\ seen \in [Thread -> Row \cup {NoRow}]
    /\ sweep \in [at : {"sleep", "delete", "teardown"},
                  rows : [Device -> Row \cup {NoRow}],
                  left : SUBSET Device]
    /\ live \in [Device -> SUBSET User]
    /\ stray \subseteq Device
    /\ \A t \in Thread : pc[t] # "idle" => req[t] \in Request

\* "Hard cap so nobody squats forever": whatever durations are asked for and
\* however often a lease is extended, it ends within MaxMinutes from now.
LeaseWithinCap ==
    \A d \in Device : table[d] # NoRow => table[d].exp <= now + MaxMinutes

\* A teardown of d that some thread or the sweeper still has to run.
TearDownDue(d) ==
    \/ \E t \in Thread : pc[t] \in {"reaped", "deleted"} /\ req[t].dev = d
    \/ sweep.at = "teardown" /\ d \in sweep.left

\* No release, lazy reap or sweep forgets the session: a session left on an
\* unreserved device is about to be torn down, unless it was registered after
\* the reservation had gone or the owner's account was deleted (the two ways
\* stray records).
OrphanHasReaper ==
    \A d \in Device :
        table[d] = NoRow /\ live[d] # {} /\ d \notin stray => TearDownDue(d)

\* Every decision to remove a row is right for the row it was taken on: if
\* the row a thread deletes is still the one it read, then that row is over,
\* or the thread serves its owner or an administrator.
Authorised ==
    /\ \A t \in Thread :
          LET row == table[req[t].dev] IN
          (Reap(t) \/ Delete(t)) /\ seen[t] = row
              => Expired(row) \/ MayControl(req[t].user, row)
    /\ SweepDelete =>
          \A d \in sweep.left : sweep.rows[d] = table[d] => Expired(table[d])

EndAuthorised == [][Authorised]_vars

\* Exclusive ownership: the table implements the abstract lease, whose
\* devices never pass from one user to another without being free in between.
Holder == [d \in Device |-> table[d].user]
Lease == INSTANCE DeviceLease WITH holder <- Holder
ExclusiveLease == Lease!Spec

\* The sweeper's promise: a reservation that is over is not kept.
ExpiredIsReaped ==
    \A d \in Device :
        (table[d] # NoRow /\ Expired(table[d]))
            ~> (table[d] = NoRow \/ ~Expired(table[d]))

\* Every ended reservation is followed by its teardown: a session on a free
\* device goes, unless the device is reserved again first or it is a stray.
OrphanIsTornDown ==
    \A d \in Device :
        (table[d] = NoRow /\ live[d] # {})
            ~> (live[d] = {} \/ table[d] # NoRow \/ d \in stray)

-----------------------------------------------------------------------------
(* What comments of the source say, and the code does not do.                *)

\* services/reservations.py:121: "a regular user may hold only ONE device at a
\* time".  The check and the INSERT are separate statements.
OneDevicePerUser ==
    \A u \in User \ Admin : \A d, e \in Device :
        (table[d].user = u /\ table[e].user = u
            /\ ~Expired(table[d]) /\ ~Expired(table[e])) => d = e

\* services/reservations.py:3-4: "While a reservation is active, only its owner
\* may *control* the device" (an administrator may too; a session whose
\* teardown is due is not counted).  The gate and the session it lets through
\* are separate steps.
OnlyOwnerControls ==
    \A d \in Device :
        table[d] # NoRow /\ ~TearDownDue(d)
            => live[d] \subseteq {table[d].user} \cup Admin

\* services/reservations.py:8-11: a reservation ends because its owner cancels
\* it, an administrator releases it, or it expires.
EndsOnlyAsDocumented ==
    [][/\ \A t \in Thread :
            Reap(t) \/ Delete(t) =>
                LET row == table[req[t].dev] IN
                row = NoRow \/ Expired(row) \/ MayControl(req[t].user, row)
       /\ SweepDelete =>
            \A d \in sweep.left : table[d] = NoRow \/ Expired(table[d])]_vars
=============================================================================
