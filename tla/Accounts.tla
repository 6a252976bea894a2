------------------------------ MODULE Accounts ------------------------------
(* Accounts, login sessions and the login limiter: api/authentication.py,    *)
(* services/authentication.py, services/rate_limit.py and the boot of        *)
(* services/database.py.                                                     *)
(*                                                                           *)
(* A request runs in a thread of its own and opens its own connection.  It   *)
(* reads who the actor is, then the row of its target, then writes, then     *)
(* revokes sessions, each step a statement that commits by itself.           *)
(* The validators are left out, and an update changes one field of a row; of *)
(* a name and an e-mail it matters only that either is a way to log in.      *)
EXTENDS Integers, FiniteSets

CONSTANTS
    User,         \* accounts
    Via,          \* ways to try an account: an address, with its name or its e-mail
    Root,         \* the seeded super_admin
    Seeded,       \* the seeded admin
    NoUser,       \* the actor of an idle thread
    NoVia,        \* the way of a request that tries no account
    Thread,       \* threads that serve requests
    MaxAttempts,  \* failures that trip the lock of a key
    MaxEvents     \* bound on the requests

ASSUME AccountsAssumption ==
    /\ {Root, Seeded} \subseteq User /\ Root # Seeded /\ NoUser \notin User
    /\ NoVia \notin Via
    /\ IsFiniteSet(Thread) /\ MaxAttempts \in Nat \ {0} /\ MaxEvents \in Nat

VARIABLES
    users,      \* the table users
    sessions,   \* the table user_sessions
    hits,       \* RateLimiter._hits: failures of a key within the window
    blocked,    \* RateLimiter._blocked_until is in the future
    thread,     \* what each thread serves, and where it is
    events,     \* requests so far
    past,       \* failures of a key since it is blocked (history)
    stale       \* a write relied on a role that had changed since (history)

vars == <<users, sessions, hits, blocked, thread, events, past, stale>>
limiter == <<hits, blocked, past>>

-----------------------------------------------------------------------------
(* Rows and requests.                                                        *)

Role == {"user", "admin", "super_admin"}

\* none: not made yet; gone: deleted.  pw numbers the passwords of an account.
Row == [role : Role \cup {"none", "gone"}, active : BOOLEAN, pw : Nat]
NewRow(role) == [role |-> role, active |-> TRUE, pw |-> 0]

\* late: at the insert, the row was no longer what the login had verified.
Token == [id : 1 .. MaxEvents, u : User, pw : Nat, late : BOOLEAN]

Op == {"login", "delete", "disable", "enable", "role", "reset", "deactivate", "activate",
       "password"}
Place == {"idle", "verify", "record", "unlock", "insert", "read", "write", "revoke"}

\* role: the actor's, read from its session; had: the target's, read before the write.
Request == [op : Op, at : Place, actor : User \cup {NoUser}, role : Role, target : User,
            via : Via \cup {NoVia}, new : Role, had : Role, pw : Nat]

Idle == [op |-> "login", at |-> "idle", actor |-> NoUser, role |-> "user", target |-> Root,
         via |-> NoVia, new |-> "user", had |-> "user", pw |-> 0]

\* rl_key of a login: the address of the client and the name it gave.
Key == User \X Via
KeyOf(q) == <<q.target, q.via>>

At(h, p) == thread[h].at = p
To(h, p) == thread' = [thread EXCEPT ![h].at = p]
Done(h) == thread' = [thread EXCEPT ![h] = Idle]
Exists(u) == users[u].role \in Role

Arrives(h) == At(h, "idle") /\ events < MaxEvents /\ events' = events + 1

\* _seed_accounts: a seed that is missing is made.
Seeds(us) ==
    [u \in User |->
       IF u \in {Root, Seeded} /\ us[u].role \notin Role
       THEN NewRow(IF u = Root THEN "super_admin" ELSE "admin") ELSE us[u]]

\* validate_token: a session of an account that is active.
Known(u) == Exists(u) /\ users[u].active /\ \E s \in sessions : s.u = u

Init ==
    /\ users = Seeds([u \in User |-> [NewRow("user") EXCEPT !.role = "none"]])
    /\ sessions = {}
    /\ hits = [k \in Key |-> 0] /\ blocked = [k \in Key |-> FALSE]
    /\ thread = [h \in Thread |-> Idle]
    /\ events = 0 /\ stale = FALSE
    /\ past = [k \in Key |-> 0]

\* init_db: a restart forgets the sessions and everything held in memory.
Boot ==
    /\ users' = Seeds(users)
    /\ sessions' = {}
    /\ hits' = [k \in Key |-> 0] /\ blocked' = [k \in Key |-> FALSE]
    /\ past' = [k \in Key |-> 0]
    /\ thread' = [h \in Thread |-> Idle]
    /\ events < MaxEvents /\ events' = events + 1
    /\ UNCHANGED stale

-----------------------------------------------------------------------------
(* Register and login.                                                       *)

Register(h, u) ==
    /\ Arrives(h)
    /\ users[u].role = "none"
    /\ users' = [users EXCEPT ![u] = NewRow("user")]
    /\ UNCHANGED <<sessions, limiter, thread, stale>>

\* Mutant: the lock is not asked about.
MayTry_always(k) == TRUE
MayTry(k) == ~blocked[k]

\* retry_after, before the row is read.
Login(h, k) ==
    /\ Arrives(h)
    /\ MayTry(k)
    /\ thread' = [thread EXCEPT ![h] =
                    [Idle EXCEPT !.at = "verify", !.target = k[1], !.via = k[2]]]
    /\ UNCHANGED <<users, sessions, limiter, stale>>

\* The row is read; the password is right, or it is not.
Verify(h) ==
    LET u == thread[h].target
    IN  /\ At(h, "verify")
        /\ \/ /\ Exists(u) /\ users[u].active
              /\ thread' = [thread EXCEPT ![h].at = "unlock", ![h].pw = users[u].pw]
           \/ To(h, "record")
        /\ UNCHANGED <<users, sessions, limiter, events, stale>>

\* RateLimiter.record: the hit that makes the limit trips the lock.
Record(h) ==
    LET k == KeyOf(thread[h])  trips == hits[k] + 1 >= MaxAttempts
    IN  /\ At(h, "record")
        /\ hits' = [hits EXCEPT ![k] = IF trips THEN 0 ELSE @ + 1]
        /\ blocked' = [blocked EXCEPT ![k] = @ \/ trips]
        /\ past' = [past EXCEPT ![k] = IF blocked[k] THEN @ + 1 ELSE @]
        /\ Done(h)
        /\ UNCHANGED <<users, sessions, events, stale>>

\* RateLimiter.reset, by a login that succeeds.
Unlock(h) ==
    LET k == KeyOf(thread[h])
    IN  /\ At(h, "unlock")
        /\ hits' = [hits EXCEPT ![k] = 0]
        /\ blocked' = [blocked EXCEPT ![k] = FALSE]
        /\ past' = [past EXCEPT ![k] = 0]
        /\ To(h, "insert")
        /\ UNCHANGED <<users, sessions, events, stale>>

\* A token no other session has.
FreshToken == CHOOSE i \in 1 .. MaxEvents : \A s \in sessions : s.id # i

\* create_session; the foreign key refuses one for an account that is gone.
Insert(h) ==
    LET t == thread[h]  u == t.target
    IN  /\ At(h, "insert")
        /\ sessions' =
             IF Exists(u)
             THEN sessions \cup {[id |-> FreshToken, u |-> u, pw |-> t.pw,
                                  late |-> users[u].pw # t.pw \/ ~users[u].active]}
             ELSE sessions
        /\ Done(h)
        /\ UNCHANGED <<users, limiter, events, stale>>

\* logout, or the session expires and validate_token prunes it.
Leave(s) ==
    /\ sessions' = sessions \ {s}
    /\ UNCHANGED <<users, limiter, thread, events, stale>>

\* The window moves past the oldest hit; the lock ends.
HitExpires(k) ==
    /\ hits[k] > 0
    /\ hits' = [hits EXCEPT ![k] = @ - 1]
    /\ UNCHANGED <<users, sessions, blocked, thread, events, past, stale>>

LockExpires(k) ==
    /\ blocked[k]
    /\ blocked' = [blocked EXCEPT ![k] = FALSE]
    /\ past' = [past EXCEPT ![k] = 0]
    /\ UNCHANGED <<users, sessions, hits, thread, events, stale>>

-----------------------------------------------------------------------------
(* Management: delete_user, set_user_active, update_user, change_password.   *)

\* _role_required: the actor is read from its session.
Manage(h, op, a, t, r) ==
    /\ Arrives(h)
    /\ Known(a)
    /\ IF op = "password" THEN a = t ELSE users[a].role # "user"
    /\ thread' = [thread EXCEPT ![h] =
                    [Idle EXCEPT !.op = op, !.at = "read", !.actor = a,
                                 !.role = users[a].role, !.target = t, !.new = r]]
    /\ UNCHANGED <<users, sessions, limiter, stale>>

\* create_user inserts a row that nobody else can know yet.
Create(h, a, u, r) ==
    /\ Arrives(h)
    /\ Known(a) /\ users[a].role # "user"
    /\ users[u].role = "none"
    /\ r = "user" \/ users[a].role = "super_admin"
    /\ users' = [users EXCEPT ![u] = NewRow(r)]
    /\ UNCHANGED <<sessions, limiter, thread, stale>>

\* _allowed_target_roles.
Allowed(role) == IF role = "super_admin" THEN Role ELSE {"user"}

\* Mutant: an actor may change its own role.
MaySet_own(q) == q.new \in Allowed(q.role)
MaySet(q) == q.new \in Allowed(q.role) /\ (q.target = q.actor => q.new = q.role)

\* What each route asks of the role it has read; deactivate and activate are the
\* is_active of update_user.
Permitted(q, had) ==
    CASE q.op \in {"delete", "disable", "enable"} ->
            q.target # q.actor /\ had # "super_admin" /\ (q.role = "admin" => had = "user")
      [] q.op = "role" -> MaySet(q) /\ (q.role = "admin" => had = "user")
      [] q.op = "deactivate" -> q.target # q.actor /\ (q.role = "admin" => had = "user")
      [] q.op \in {"reset", "activate"} -> q.role = "admin" => had = "user"
      [] OTHER -> TRUE

Read(h) ==
    LET q == thread[h]  had == users[q.target].role
    IN  /\ At(h, "read")
        /\ IF Exists(q.target) /\ Permitted(q, had)
           THEN thread' = [thread EXCEPT ![h].at = "write", ![h].had = had]
           ELSE Done(h)
        /\ UNCHANGED <<users, sessions, limiter, events, stale>>

\* Mutant: the reset password of an account keeps its sessions.
Revokes_not(op) == op \in {"disable", "deactivate"}
Revokes(op) == op \in {"disable", "deactivate", "reset", "password"}

Written(q, row) ==
    CASE q.op = "delete" -> [row EXCEPT !.role = "gone"]
      [] q.op = "role" -> [row EXCEPT !.role = q.new]
      [] q.op \in {"enable", "activate"} -> [row EXCEPT !.active = TRUE]
      [] q.op \in {"disable", "deactivate"} -> [row EXCEPT !.active = FALSE]
      [] OTHER -> [row EXCEPT !.pw = @ + 1]

\* Mutant: the sessions of a deleted account stay.
Cascade_not(us) == sessions
Cascade(us) == {s \in sessions : us[s.u].role \in Role}

\* The UPDATE or DELETE; it touches no row if the account is gone by now.
Write(h) ==
    LET q == thread[h]  t == q.target
        holds == /\ Exists(q.actor) /\ users[q.actor].active
                 /\ users[q.actor].role = q.role
                 /\ users[t].role = q.had
    IN  /\ At(h, "write")
        /\ users' = IF Exists(t) THEN [users EXCEPT ![t] = Written(q, @)] ELSE users
        /\ sessions' = Cascade(users')
        /\ stale' = (stale \/ ~holds)
        /\ IF Revokes(q.op) THEN To(h, "revoke") ELSE Done(h)
        /\ UNCHANGED <<limiter, events>>

\* revoke_user_sessions.
Revoke(h) ==
    /\ At(h, "revoke")
    /\ sessions' = {s \in sessions : s.u # thread[h].target}
    /\ Done(h)
    /\ UNCHANGED <<users, limiter, events, stale>>

-----------------------------------------------------------------------------

Asked(h) ==
    \/ \E u \in User : Register(h, u)
    \/ \E k \in Key : Login(h, k)
    \/ \E a, t \in User :
         \/ \E op \in Op \ {"login", "role"} : Manage(h, op, a, t, "user")
         \/ \E r \in Role : Manage(h, "role", a, t, r) \/ Create(h, a, t, r)

Step(h) ==
    Verify(h) \/ Record(h) \/ Unlock(h) \/ Insert(h) \/ Read(h) \/ Write(h) \/ Revoke(h)

Next ==
    \/ Boot
    \/ \E h \in Thread : Asked(h) \/ Step(h)
    \/ \E s \in sessions : Leave(s)
    \/ \E k \in Key : HitExpires(k) \/ LockExpires(k)

Spec == Init /\ [][Next]_vars

-----------------------------------------------------------------------------
(* Properties.                                                               *)

\* Types; a session's account exists.
TypeOK ==
    /\ users \in [User -> Row]
    /\ sessions \subseteq Token /\ \A s \in sessions : Exists(s.u)
    /\ hits \in [Key -> 0 .. MaxAttempts - 1]
    /\ blocked \in [Key -> BOOLEAN]
    /\ thread \in [Thread -> Request]
    /\ events \in 0 .. MaxEvents /\ stale \in BOOLEAN
    /\ past \in [Key -> Nat]

Revoking(u) == \E h \in Thread : At(h, "revoke") /\ thread[h].target = u

\* Once a change of password or a deactivation has returned, every session it was
\* to end is ended.  A session is left over only if its login had verified the row
\* before the change and inserted after it.
OldSessionsEnd ==
    \A s \in sessions : ~s.late /\ ~Revoking(s.u) =>
        s.pw = users[s.u].pw /\ users[s.u].active

\* "break-glass account" (services/authentication.py:10): however the accounts
\* manage each other, an active super_admin is left, unless a request wrote on the
\* strength of a role that had changed after it read it.
BreakGlass ==
    ~stale => \E u \in User : users[u].role = "super_admin" /\ users[u].active

Trying(k) == {h \in Thread : thread[h].at \in {"verify", "record"} /\ KeyOf(thread[h]) = k}

\* While a key is locked, only the logins that were past the question when the
\* lock was set can still fail: at most one per other thread.  Another address, or
\* the e-mail in place of the name, is another key.
LockBites ==
    \A k \in Key : blocked[k] => past[k] + Cardinality(Trying(k)) < Cardinality(Thread)

============================================================================
