--------------------------- MODULE AccountsProofs ---------------------------
(* Theorems of Accounts, for every value of its constants: any set of        *)
(* accounts, any finite number of threads, any limit of attempts.            *)
(*                                                                           *)
(* The requests interleave statement by statement, so each theorem rests on  *)
(* what a thread may still rely on from the statement before: what it was    *)
(* permitted on the strength of (Requests), which failures it may still      *)
(* report (LockBites), which token is left for it (Counted).                 *)
EXTENDS Accounts, FiniteSetTheorems, TLAPS

Serving == {h \in Thread : ~At(h, "idle")}

\* A login tries a key; a management request that is at its write was permitted what
\* it is about to do for the roles it has read.
RequestOK(q) ==
    /\ q.at \in {"verify", "record", "unlock"} => q.via \in Via
    /\ q.at \in {"read", "write"} =>
          q.actor \in User /\ q.op # "login" /\ (q.op # "password" => q.role # "user")
    /\ q.at = "write" => Permitted(q, q.had)

Requests == \A h \in Thread : RequestOK(thread[h])

\* Each session stems from a request of its own, so a token is left for whoever
\* is about to insert one.
Counted ==
    /\ IsFiniteSet(sessions)
    /\ Cardinality(sessions) + Cardinality(Serving) <= events

\* The failures past a lock are forgotten with the lock.
PastIsLocked == \A k \in Key : ~blocked[k] => past[k] = 0

Invariant ==
    /\ TypeOK
    /\ Requests
    /\ Counted
    /\ PastIsLocked
    /\ OldSessionsEnd
    /\ BreakGlass
    /\ LockBites

-----------------------------------------------------------------------------
(* How a step changes the thread it is a step of.                            *)

Becomes(h, q) ==
    /\ thread' \in [Thread -> Request]
    /\ thread'[h] = q
    /\ \A g \in Thread : g # h => thread'[g] = thread[g]

LEMMA IdleIs == Idle \in Request /\ Idle.at = "idle" /\ RequestOK(Idle)
BY AccountsAssumption DEF Idle, Request, Op, Place, Role, RequestOK

LEMMA DoneChanges ==
    ASSUME TypeOK, NEW h \in Thread, Done(h)
    PROVE  Becomes(h, Idle)
BY IdleIs DEF TypeOK, Done, Becomes

LEMMA ToChanges ==
    ASSUME TypeOK, NEW h \in Thread, NEW place \in Place, To(h, place)
    PROVE  \E q \in Request :
              /\ Becomes(h, q) /\ q.at = place
              /\ q.op = thread[h].op /\ q.target = thread[h].target
              /\ q.pw = thread[h].pw /\ q.via = thread[h].via
              /\ KeyOf(q) = KeyOf(thread[h])
<1> DEFINE q == [thread[h] EXCEPT !.at = place]
<1>1. /\ q \in Request /\ q.at = place /\ q.op = thread[h].op
      /\ q.target = thread[h].target /\ q.pw = thread[h].pw /\ q.via = thread[h].via
      /\ KeyOf(q) = KeyOf(thread[h])
  BY DEF TypeOK, Request, KeyOf
<1>2. thread' = [thread EXCEPT ![h] = q]
  BY DEF To
<1> HIDE DEF q
<1>3. Becomes(h, q)
  BY <1>1, <1>2 DEF Becomes, TypeOK
<1> QED
  BY <1>1, <1>3

\* A request that has read the row it asks about.
Verified(q, pw) == [q EXCEPT !.at = "unlock", !.pw = pw]
Judged(q, had) == [q EXCEPT !.at = "write", !.had = had]

LEMMA VerifiedIs ==
    ASSUME NEW q \in Request, NEW pw \in Nat
    PROVE  /\ Verified(q, pw) \in Request /\ Verified(q, pw).at = "unlock"
           /\ Verified(q, pw).via = q.via
BY DEF Verified, Request, Place

LEMMA JudgedIs ==
    ASSUME NEW q \in Request, NEW had \in Role
    PROVE  LET j == Judged(q, had)
           IN  /\ j \in Request /\ j.at = "write" /\ j.had = had
               /\ j.op = q.op /\ j.actor = q.actor /\ j.role = q.role /\ j.target = q.target
               /\ j.new = q.new
BY DEF Judged, Request, Place

-----------------------------------------------------------------------------
(* The parts of the invariant that a step of one thread leaves alone.        *)

LEMMA ServingIs ==
    ASSUME Invariant
    PROVE  /\ IsFiniteSet(Serving) /\ Cardinality(Serving) \in Nat
           /\ IsFiniteSet(sessions) /\ Cardinality(sessions) \in Nat
           /\ Cardinality(sessions) + Cardinality(Serving) <= events
           /\ events \in Nat /\ MaxEvents \in Nat /\ events <= MaxEvents
<1>1. IsFiniteSet(Serving)
  BY AccountsAssumption, FS_Subset DEF Serving
<1> QED
  BY <1>1, FS_CardinalityType, AccountsAssumption DEF Invariant, Counted, TypeOK

\* A request arrives, or a thread goes on with the one it has.
LEMMA CountKept ==
    ASSUME Invariant, NEW h \in Thread, NEW q, Becomes(h, q),
           NEW S, sessions' = S, S \subseteq sessions,
           \/ events' = events + 1
           \/ events' = events /\ ~At(h, "idle")
    PROVE  Counted'
<1>1. IsFiniteSet(S) /\ Cardinality(S) \in Nat /\ Cardinality(S) <= Cardinality(sessions)
  BY ServingIs, FS_Subset, FS_CardinalityType
<1>2. \A T : Serving' = T => T \subseteq Serving \cup {h}
  BY DEF Serving, At, Becomes
<1>3. PICK T : T = Serving'
  OBVIOUS
<1>4. /\ IsFiniteSet(Serving \cup {h})
      /\ Cardinality(Serving \cup {h}) <= Cardinality(Serving) + 1
      /\ h \in Serving => Cardinality(Serving \cup {h}) = Cardinality(Serving)
      /\ Cardinality(Serving \cup {h}) \in Nat
  <2>1. /\ IsFiniteSet(Serving \cup {h})
        /\ Cardinality(Serving \cup {h}) =
              IF h \in Serving THEN Cardinality(Serving) ELSE Cardinality(Serving) + 1
    BY ServingIs, FS_AddElement
  <2> QED
    BY <2>1, ServingIs
<1>5. /\ IsFiniteSet(T) /\ Cardinality(T) \in Nat
      /\ Cardinality(T) <= Cardinality(Serving \cup {h})
  BY <1>2, <1>3, <1>4, FS_Subset, FS_CardinalityType
<1>6. events' = events => h \in Serving
  BY ServingIs DEF Serving
<1>7. Cardinality(S) + Cardinality(T) <= events'
  BY <1>1, <1>4, <1>5, <1>6, ServingIs
<1> QED
  BY <1>1, <1>3, <1>7 DEF Counted

LEMMA KeyIs ==
    ASSUME NEW q \in Request, q.via \in Via
    PROVE  KeyOf(q) \in Key
BY DEF KeyOf, Key, Request

\* With the limiter left alone, a thread may only begin to try a key that is not
\* locked.
LEMMA LockKept ==
    ASSUME Invariant, NEW h \in Thread, NEW q, Becomes(h, q),
           blocked' \in [Key -> BOOLEAN],
           \A k \in Key : blocked'[k] => blocked[k] /\ past'[k] = past[k],
           q.at \in {"verify", "record"} =>
              \/ ~blocked[KeyOf(q)]
              \/ thread[h].at \in {"verify", "record"} /\ KeyOf(thread[h]) = KeyOf(q)
    PROVE  LockBites'
<1> SUFFICES ASSUME NEW k \in Key, blocked'[k]
             PROVE  (past[k] + Cardinality(Trying(k)) < Cardinality(Thread))'
  BY DEF LockBites
<1>1. blocked[k] /\ past'[k] = past[k] /\ past[k] \in Nat
  BY DEF Invariant, TypeOK
<1>2. past[k] + Cardinality(Trying(k)) < Cardinality(Thread)
  BY <1>1 DEF Invariant, LockBites
<1>3. PICK T : T = Trying(k)'
  OBVIOUS
<1>4. T \subseteq Trying(k)
  BY <1>1, <1>3 DEF Trying, Becomes
<1>5. /\ IsFiniteSet(Trying(k)) /\ Cardinality(Trying(k)) \in Nat
      /\ Cardinality(Thread) \in Nat
  BY AccountsAssumption, FS_Subset, FS_CardinalityType DEF Trying
<1>6. Cardinality(T) \in Nat /\ Cardinality(T) <= Cardinality(Trying(k))
  BY <1>4, <1>5, FS_Subset, FS_CardinalityType
<1> QED
  BY <1>1, <1>2, <1>3, <1>5, <1>6

\* A step that changes neither the accounts nor the sessions of anybody but those
\* it revokes.
LEMMA ThreadInv ==
    ASSUME Invariant, NEW h \in Thread, NEW q \in Request, Becomes(h, q), RequestOK(q),
           UNCHANGED <<users, stale>>, sessions' \subseteq sessions,
           \/ events' = events + 1 /\ events < MaxEvents
           \/ events' = events /\ ~At(h, "idle"),
           At(h, "revoke") => \A s \in sessions' : s.u # thread[h].target,
           hits' \in [Key -> 0 .. MaxAttempts - 1], blocked' \in [Key -> BOOLEAN],
           past' \in [Key -> Nat],
           PastIsLocked', LockBites'
    PROVE  Invariant'
<1>1. events' \in 0 .. MaxEvents
  BY ServingIs, AccountsAssumption
<1>2. TypeOK'
  BY <1>1 DEF Invariant, TypeOK, Becomes, Exists
<1>3. Requests'
  BY DEF Invariant, Requests, Becomes, RequestOK, Permitted, MaySet
<1>4. Counted'
  BY CountKept
<1>5. OldSessionsEnd'
  <2> SUFFICES ASSUME NEW s \in sessions', ~s.late, ~Revoking(s.u)'
               PROVE  s.pw = users[s.u].pw /\ users[s.u].active
    BY DEF OldSessionsEnd
  <2>1. s \in sessions
    OBVIOUS
  <2>2. ~Revoking(s.u)
    BY DEF Revoking, At, Becomes
  <2> QED
    BY <2>1, <2>2 DEF Invariant, OldSessionsEnd
<1>6. BreakGlass'
  BY DEF Invariant, BreakGlass
<1> QED
  BY <1>2, <1>3, <1>4, <1>5, <1>6 DEF Invariant

-----------------------------------------------------------------------------
(* Logins.                                                                   *)

Asking(k) == [Idle EXCEPT !.at = "verify", !.target = k[1], !.via = k[2]]

LEMMA AskingIs ==
    ASSUME NEW k \in Key
    PROVE  /\ Asking(k) \in Request /\ Asking(k).at = "verify" /\ KeyOf(Asking(k)) = k
           /\ Asking(k).op = "login" /\ Asking(k).via \in Via
<1>1. Idle \in Request /\ "verify" \in Place /\ Idle.op = "login"
  BY IdleIs DEF Place, Idle
<1>2. k[1] \in User /\ k[2] \in Via /\ k = <<k[1], k[2]>>
  BY DEF Key
<1> QED
  BY <1>1, <1>2 DEF Asking, Request, KeyOf

LEMMA LoginInv ==
    ASSUME Invariant, NEW h \in Thread, NEW k \in Key, Login(h, k)
    PROVE  Invariant'
<1>1. Asking(k) \in Request /\ Asking(k).at = "verify" /\ KeyOf(Asking(k)) = k
      /\ Asking(k).via \in Via
  BY AskingIs
<1>2. Becomes(h, Asking(k))
  BY <1>1 DEF Login, Asking, Becomes, Invariant, TypeOK
<1>3. ~blocked[k] /\ At(h, "idle") /\ events < MaxEvents /\ events' = events + 1
      /\ UNCHANGED <<users, sessions, hits, blocked, past, stale>>
  BY DEF Login, Arrives, MayTry, limiter
<1>4. RequestOK(Asking(k))
  BY <1>1 DEF RequestOK
<1>5. /\ hits \in [Key -> 0 .. MaxAttempts - 1] /\ blocked \in [Key -> BOOLEAN]
      /\ past \in [Key -> Nat] /\ PastIsLocked
  BY DEF Invariant, TypeOK
<1>6. PastIsLocked' /\ ~At(h, "revoke")
  BY <1>3, <1>5 DEF PastIsLocked, At
<1> HIDE DEF Asking
<1>7. LockBites'
  BY <1>1, <1>2, <1>3, <1>5, LockKept
<1> QED
  BY <1>1, <1>2, <1>3, <1>4, <1>5, <1>6, <1>7, ThreadInv

LEMMA VerifyInv ==
    ASSUME Invariant, NEW h \in Thread, Verify(h)
    PROVE  Invariant'
<1>1. /\ At(h, "verify") /\ UNCHANGED <<users, sessions, hits, blocked, past, events, stale>>
  BY DEF Verify, limiter
<1>2. \E q \in Request : Becomes(h, q) /\ RequestOK(q)
         /\ q.at \in {"unlock", "record"} /\ (q.at = "record" => KeyOf(q) = KeyOf(thread[h]))
  <2>1. CASE To(h, "record")
    <3>1. "record" \in Place
      BY DEF Place
    <3> QED
      BY <1>1, <2>1, <3>1, ToChanges DEF RequestOK, Requests, At, Invariant
  <2>2. ASSUME thread' = [thread EXCEPT ![h].at = "unlock",
                                        ![h].pw = users[thread[h].target].pw]
        PROVE  \E q \in Request : Becomes(h, q) /\ RequestOK(q) /\ q.at = "unlock"
    <3>1. thread[h] \in Request /\ thread[h].target \in User /\ thread[h].via \in Via
      BY <1>1 DEF Invariant, TypeOK, Request, Requests, RequestOK, At
    <3>2. users[thread[h].target].pw \in Nat
      BY <3>1 DEF Invariant, TypeOK, Row
    <3> DEFINE q == Verified(thread[h], users[thread[h].target].pw)
    <3>3. q \in Request /\ q.at = "unlock" /\ q.via \in Via
      BY <3>1, <3>2, VerifiedIs
    <3>4. thread' = [thread EXCEPT ![h] = q]
      BY <2>2 DEF Verified
    <3> HIDE DEF q
    <3>5. Becomes(h, q)
      BY <3>3, <3>4 DEF Becomes, Invariant, TypeOK
    <3> QED
      BY <3>3, <3>5 DEF RequestOK
  <2> QED
    BY <2>1, <2>2 DEF Verify
<1>3. PICK q \in Request : Becomes(h, q) /\ RequestOK(q)
         /\ q.at \in {"unlock", "record"} /\ (q.at = "record" => KeyOf(q) = KeyOf(thread[h]))
  BY <1>2
<1>5. /\ hits \in [Key -> 0 .. MaxAttempts - 1] /\ blocked \in [Key -> BOOLEAN]
      /\ past \in [Key -> Nat] /\ PastIsLocked
  BY DEF Invariant, TypeOK
<1>6. PastIsLocked' /\ ~At(h, "revoke") /\ ~At(h, "idle")
  BY <1>1, <1>5 DEF PastIsLocked, At
<1>7. LockBites'
  BY <1>1, <1>3, <1>5, LockKept DEF At
<1> QED
  BY <1>1, <1>3, <1>5, <1>6, <1>7, ThreadInv

LEMMA UnlockInv ==
    ASSUME Invariant, NEW h \in Thread, Unlock(h)
    PROVE  Invariant'
<1> DEFINE k == KeyOf(thread[h])
<1>1. /\ At(h, "unlock") /\ To(h, "insert") /\ UNCHANGED <<users, sessions, events, stale>>
      /\ hits' = [hits EXCEPT ![k] = 0]
      /\ blocked' = [blocked EXCEPT ![k] = FALSE]
      /\ past' = [past EXCEPT ![k] = 0]
  BY DEF Unlock
<1>2. "insert" \in Place
  BY DEF Place
<1>3. PICK q \in Request : Becomes(h, q) /\ q.at = "insert"
  BY <1>1, <1>2, ToChanges DEF Invariant
<1>4. RequestOK(q)
  BY <1>3 DEF RequestOK
<1>5. 0 \in 0 .. MaxAttempts - 1 /\ k \in Key
  BY <1>1, KeyIs, AccountsAssumption DEF Invariant, TypeOK, Requests, RequestOK, At
<1>6. /\ hits' \in [Key -> 0 .. MaxAttempts - 1] /\ blocked' \in [Key -> BOOLEAN]
      /\ past' \in [Key -> Nat]
  BY <1>1, <1>5 DEF Invariant, TypeOK
<1> HIDE DEF k
<1>7. PastIsLocked'
  BY <1>1, <1>5 DEF Invariant, TypeOK, PastIsLocked
<1>8. \A v \in Key : blocked'[v] => blocked[v] /\ past'[v] = past[v]
  BY <1>1, <1>5 DEF Invariant, TypeOK
<1>9. LockBites'
  BY <1>3, <1>6, <1>8, LockKept
<1>10. ~At(h, "revoke") /\ ~At(h, "idle")
  BY <1>1 DEF At
<1> QED
  BY <1>1, <1>3, <1>4, <1>6, <1>7, <1>9, <1>10, ThreadInv

\* The failure that trips the lock is no longer trying; after that each one that
\* fails is one fewer that can.
LEMMA RecordInv ==
    ASSUME Invariant, NEW h \in Thread, Record(h)
    PROVE  Invariant'
<1> DEFINE k == KeyOf(thread[h])
<1> DEFINE trips == hits[k] + 1 >= MaxAttempts
<1>1. /\ At(h, "record") /\ Done(h) /\ UNCHANGED <<users, sessions, events, stale>>
      /\ hits' = [hits EXCEPT ![k] = IF trips THEN 0 ELSE @ + 1]
      /\ blocked' = [blocked EXCEPT ![k] = @ \/ trips]
      /\ past' = [past EXCEPT ![k] = IF blocked[k] THEN @ + 1 ELSE @]
  BY DEF Record
<1>2. Becomes(h, Idle)
  BY <1>1, DoneChanges DEF Invariant
<1>3. k \in Key /\ hits[k] \in 0 .. MaxAttempts - 1 /\ past[k] \in Nat
      /\ blocked[k] \in BOOLEAN
  BY <1>1, KeyIs DEF Invariant, TypeOK, Requests, RequestOK, At
<1>4. (IF trips THEN 0 ELSE hits[k] + 1) \in 0 .. MaxAttempts - 1
  BY <1>3, AccountsAssumption
<1>5. hits' \in [Key -> 0 .. MaxAttempts - 1]
  BY <1>1, <1>4 DEF Invariant, TypeOK
<1> DEFINE b == blocked[k] \/ trips
<1>6. b \in BOOLEAN
  OBVIOUS
<1>7. /\ blocked' \in [Key -> BOOLEAN]
      /\ \A v \in Key : blocked'[v] = IF v = k THEN b ELSE blocked[v]
  <2>1. blocked' = [blocked EXCEPT ![k] = b]
    BY <1>1
  <2> HIDE DEF b, k
  <2> QED
    BY <2>1, <1>3, <1>6 DEF Invariant, TypeOK
<1>8. /\ past' \in [Key -> Nat]
      /\ past'[k] = IF blocked[k] THEN past[k] + 1 ELSE past[k]
      /\ \A v \in Key : v # k => past'[v] = past[v]
  BY <1>1, <1>3 DEF Invariant, TypeOK
<1>9. PastIsLocked'
  <2> SUFFICES ASSUME NEW v \in Key, ~blocked'[v]
               PROVE  past'[v] = 0
    BY DEF PastIsLocked
  <2> QED
    BY <1>3, <1>7, <1>8 DEF Invariant, PastIsLocked
<1>10. LockBites'
  <2> SUFFICES ASSUME NEW v \in Key, blocked'[v]
               PROVE  (past[v] + Cardinality(Trying(v)) < Cardinality(Thread))'
    BY DEF LockBites
  <2>1. PICK T : T = Trying(v)'
    OBVIOUS
  <2>2. /\ IsFiniteSet(Trying(v)) /\ Cardinality(Trying(v)) \in Nat
        /\ Cardinality(Thread) \in Nat
    BY AccountsAssumption, FS_Subset, FS_CardinalityType DEF Trying
  <2>3. T = Trying(v) \ {h}
    BY <1>2, <2>1, IdleIs DEF Trying, Becomes
  <2>4. /\ v = k => h \in Trying(v)
        /\ v # k => h \notin Trying(v)
    BY <1>1 DEF Trying, At
  <2>5. Cardinality(T) = IF h \in Trying(v) THEN Cardinality(Trying(v)) - 1
                         ELSE Cardinality(Trying(v))
    BY <2>2, <2>3, FS_RemoveElement
  <2>6. CASE blocked[v]
    <3>1. past[v] + Cardinality(Trying(v)) < Cardinality(Thread)
      BY <2>6 DEF Invariant, LockBites
    <3>2. past[v] \in Nat
      BY DEF Invariant, TypeOK
    <3> HIDE DEF k
    <3> QED
      BY <1>8, <2>1, <2>2, <2>4, <2>5, <2>6, <3>1, <3>2
  <2>7. CASE ~blocked[v]
    <3>1. v = k
      BY <2>7, <1>7
    <3>2. past'[v] = 0
      BY <2>7, <3>1, <1>8 DEF Invariant, PastIsLocked
    <3>3. Trying(v) \subseteq Thread
      BY DEF Trying
    <3>4. Cardinality(Trying(v)) <= Cardinality(Thread)
      BY <3>3, AccountsAssumption, FS_Subset
    <3>5. Cardinality(T) = Cardinality(Trying(v)) - 1
      BY <2>4, <2>5, <3>1
    <3> QED
      BY <2>1, <2>2, <3>2, <3>4, <3>5
  <2> QED
    BY <2>6, <2>7
<1>11. ~At(h, "revoke") /\ ~At(h, "idle")
  BY <1>1 DEF At
<1> HIDE DEF k, trips, b
<1> QED
  BY <1>1, <1>2, <1>5, <1>7, <1>8, <1>9, <1>10, <1>11, IdleIs, ThreadInv

-----------------------------------------------------------------------------
(* Management: the request arrives, reads its target, and revokes.           *)

Managing(op, a, role, t, r) ==
    [Idle EXCEPT !.op = op, !.at = "read", !.actor = a, !.role = role, !.target = t, !.new = r]

LEMMA ManagingIs ==
    ASSUME NEW op \in Op, NEW a \in User, NEW role \in Role, NEW t \in User, NEW r \in Role
    PROVE  LET q == Managing(op, a, role, t, r)
           IN  q \in Request /\ q.at = "read" /\ q.op = op /\ q.actor = a /\ q.role = role
<1>1. Idle \in Request /\ "read" \in Place
  BY IdleIs DEF Place
<1> QED
  BY <1>1 DEF Managing, Request

LEMMA ManageInv ==
    ASSUME Invariant, NEW h \in Thread, NEW op \in Op \ {"login"}, NEW a \in User,
           NEW t \in User, NEW r \in Role, Manage(h, op, a, t, r)
    PROVE  Invariant'
<1>1. PICK q : q = Managing(op, a, users[a].role, t, r)
  OBVIOUS
<1>2. users[a].role \in Role /\ op \in Op
  BY DEF Manage, Known, Exists
<1>3. q \in Request /\ q.at = "read" /\ q.op = op /\ q.actor = a /\ q.role = users[a].role
  BY <1>1, <1>2, ManagingIs
<1>4. thread' = [thread EXCEPT ![h] = q]
  BY <1>1 DEF Manage, Managing
<1>5. Becomes(h, q)
  BY <1>3, <1>4 DEF Becomes, Invariant, TypeOK
<1>6. RequestOK(q)
  <2>1. op # "password" => users[a].role # "user"
    BY DEF Manage
  <2> QED
    BY <1>3, <2>1 DEF RequestOK
<1>7. At(h, "idle") /\ events < MaxEvents /\ events' = events + 1
      /\ UNCHANGED <<users, sessions, hits, blocked, past, stale>>
  BY DEF Manage, Arrives, limiter
<1>8. /\ hits \in [Key -> 0 .. MaxAttempts - 1] /\ blocked \in [Key -> BOOLEAN]
      /\ past \in [Key -> Nat] /\ PastIsLocked
  BY DEF Invariant, TypeOK
<1>9. PastIsLocked' /\ ~At(h, "revoke")
  BY <1>7, <1>8 DEF PastIsLocked, At
<1>10. LockBites'
  BY <1>3, <1>5, <1>7, <1>8, LockKept
<1> QED
  BY <1>3, <1>5, <1>6, <1>7, <1>8, <1>9, <1>10, ThreadInv

LEMMA ReadInv ==
    ASSUME Invariant, NEW h \in Thread, Read(h)
    PROVE  Invariant'
<1> DEFINE q == thread[h]  had == users[q.target].role
<1>1. At(h, "read") /\ UNCHANGED <<users, sessions, hits, blocked, past, events, stale>>
  BY DEF Read, limiter
<1>2. \E p \in Request : Becomes(h, p) /\ RequestOK(p) /\ p.at \in {"idle", "write"}
  <2>1. CASE Done(h)
    BY <2>1, DoneChanges, IdleIs DEF Invariant
  <2>2. ASSUME Exists(q.target), Permitted(q, had),
               thread' = [thread EXCEPT ![h].at = "write", ![h].had = had]
        PROVE  \E p \in Request : Becomes(h, p) /\ RequestOK(p) /\ p.at = "write"
    <3>1. q \in Request /\ had \in Role /\ RequestOK(q) /\ q.at = "read"
      BY <1>1, <2>2 DEF Invariant, TypeOK, Exists, Requests, At
    <3>2. PICK p : p = Judged(q, had)
      OBVIOUS
    <3>3. /\ p \in Request /\ p.at = "write" /\ p.had = had
          /\ p.op = q.op /\ p.actor = q.actor /\ p.role = q.role /\ p.target = q.target
          /\ p.new = q.new
      BY <3>1, <3>2, JudgedIs
    <3>4. thread' = [thread EXCEPT ![h] = p]
      BY <2>2, <3>2 DEF Judged
    <3>5. Becomes(h, p)
      BY <3>3, <3>4 DEF Becomes, Invariant, TypeOK
    <3> HIDE DEF q, had
    <3>6. Permitted(p, p.had)
      BY <2>2, <3>3 DEF Permitted, MaySet
    <3>7. RequestOK(p)
      BY <3>1, <3>3, <3>6 DEF RequestOK
    <3> QED
      BY <3>3, <3>5, <3>7
  <2> QED
    BY <2>1, <2>2 DEF Read
<1>3. PICK p \in Request : Becomes(h, p) /\ RequestOK(p) /\ p.at \in {"idle", "write"}
  BY <1>2
<1>4. /\ hits \in [Key -> 0 .. MaxAttempts - 1] /\ blocked \in [Key -> BOOLEAN]
      /\ past \in [Key -> Nat] /\ PastIsLocked
  BY DEF Invariant, TypeOK
<1>5. PastIsLocked' /\ ~At(h, "revoke") /\ ~At(h, "idle")
  BY <1>1, <1>4 DEF PastIsLocked, At
<1>6. LockBites'
  BY <1>1, <1>3, <1>4, LockKept
<1> QED
  BY <1>1, <1>3, <1>4, <1>5, <1>6, ThreadInv

LEMMA RevokeInv ==
    ASSUME Invariant, NEW h \in Thread, Revoke(h)
    PROVE  Invariant'
<1>1. /\ At(h, "revoke") /\ Done(h) /\ UNCHANGED <<users, hits, blocked, past, events, stale>>
      /\ sessions' = {s \in sessions : s.u # thread[h].target}
  BY DEF Revoke, limiter
<1>2. Becomes(h, Idle)
  BY <1>1, DoneChanges DEF Invariant
<1>3. /\ hits \in [Key -> 0 .. MaxAttempts - 1] /\ blocked \in [Key -> BOOLEAN]
      /\ past \in [Key -> Nat] /\ PastIsLocked
  BY DEF Invariant, TypeOK
<1>4. PastIsLocked' /\ ~At(h, "idle")
  BY <1>1, <1>3 DEF PastIsLocked, At
<1>5. LockBites'
  BY <1>1, <1>2, <1>3, IdleIs, LockKept
<1>6. sessions' \subseteq sessions /\ \A s \in sessions' : s.u # thread[h].target
  BY <1>1
<1> QED
  BY <1>1, <1>2, <1>3, <1>4, <1>5, <1>6, IdleIs, ThreadInv

-----------------------------------------------------------------------------
(* A session is made.                                                        *)

\* Fewer sessions than requests: some token is not taken.
LEMMA TokenLeft ==
    ASSUME Invariant, NEW h \in Thread, ~At(h, "idle")
    PROVE  FreshToken \in 1 .. MaxEvents
<1>1. Cardinality(sessions) < MaxEvents
  <2>1. h \in Serving
    BY DEF Serving
  <2>2. Cardinality(Serving) # 0
    BY <2>1, ServingIs, FS_EmptySet
  <2> QED
    BY <2>2, ServingIs
<1>2. IsFiniteSet(1 .. MaxEvents) /\ Cardinality(1 .. MaxEvents) = MaxEvents
  <2>1. 1 \in Int /\ MaxEvents \in Int
    BY ServingIs
  <2>2. /\ IsFiniteSet(1 .. MaxEvents)
        /\ Cardinality(1 .. MaxEvents) = IF 1 > MaxEvents THEN 0 ELSE MaxEvents - 1 + 1
    BY <2>1, FS_Interval
  <2> QED
    BY <2>2, ServingIs
<1>3. \E i \in 1 .. MaxEvents : \A s \in sessions : s.id # i
  <2> SUFFICES ASSUME \A i \in 1 .. MaxEvents : \E s \in sessions : s.id = i
               PROVE  FALSE
    OBVIOUS
  <2> DEFINE f == [i \in 1 .. MaxEvents |-> CHOOSE s \in sessions : s.id = i]
  <2>1. f \in [1 .. MaxEvents -> sessions]
    OBVIOUS
  <2>2. \A i \in 1 .. MaxEvents : f[i].id = i
    OBVIOUS
  <2> HIDE DEF f
  <2>3. \E i, j \in 1 .. MaxEvents : i # j /\ f[i] = f[j]
    BY <1>1, <1>2, <2>1, ServingIs, FS_PigeonHole
  <2> QED
    BY <2>2, <2>3
<1> QED
  BY <1>3 DEF FreshToken

LEMMA InsertInv ==
    ASSUME Invariant, NEW h \in Thread, Insert(h)
    PROVE  Invariant'
<1> DEFINE t == thread[h]  u == t.target
<1> DEFINE new == [id |-> FreshToken, u |-> u, pw |-> t.pw,
                   late |-> users[u].pw # t.pw \/ ~users[u].active]
<1>1. /\ At(h, "insert") /\ Done(h) /\ UNCHANGED <<users, hits, blocked, past, events, stale>>
      /\ sessions' = IF Exists(u) THEN sessions \cup {new} ELSE sessions
  BY DEF Insert, limiter
<1>2. Becomes(h, Idle) /\ ~At(h, "idle") /\ ~At(h, "revoke")
  BY <1>1, DoneChanges DEF Invariant, At
<1>3. new \in Token /\ new.u = u
      /\ (~new.late => new.pw = users[u].pw /\ users[u].active)
  <2>1. FreshToken \in 1 .. MaxEvents
    BY <1>2, TokenLeft
  <2>2. u \in User /\ t.pw \in Nat
    BY DEF Invariant, TypeOK, Request
  <2> QED
    BY <2>1, <2>2 DEF Token
<1> HIDE DEF new
<1>4. TypeOK'
  BY <1>1, <1>2, <1>3 DEF Invariant, TypeOK, Becomes, Exists
<1>5. Requests'
  BY <1>2, IdleIs DEF Invariant, Requests, Becomes, RequestOK, Permitted, MaySet
<1>6. Counted'
  <2>1. PICK S : S = sessions'
    OBVIOUS
  <2>2. PICK T : T = Serving'
    OBVIOUS
  <2>3. T = Serving \ {h} /\ h \in Serving
    BY <1>2, <2>2, IdleIs DEF Serving, At, Becomes
  <2>4. Cardinality(T) = Cardinality(Serving) - 1
    BY <2>3, ServingIs, FS_RemoveElement
  <2>5. IsFiniteSet(S) /\ Cardinality(S) <= Cardinality(sessions) + 1 /\ Cardinality(S) \in Nat
    <3>1. /\ IsFiniteSet(sessions \cup {new})
          /\ Cardinality(sessions \cup {new}) =
                IF new \in sessions THEN Cardinality(sessions) ELSE Cardinality(sessions) + 1
      BY ServingIs, FS_AddElement
    <3> QED
      BY <1>1, <2>1, <3>1, ServingIs
  <2>6. Cardinality(S) + Cardinality(T) <= events'
    BY <1>1, <2>4, <2>5, ServingIs
  <2> QED
    BY <2>1, <2>2, <2>5, <2>6 DEF Counted
<1>7. PastIsLocked'
  BY <1>1 DEF Invariant, PastIsLocked
<1>8. OldSessionsEnd'
  <2> SUFFICES ASSUME NEW s \in sessions', ~s.late, ~Revoking(s.u)'
               PROVE  s.pw = users[s.u].pw /\ users[s.u].active
    BY <1>1 DEF OldSessionsEnd
  <2>1. ~Revoking(s.u)
    BY <1>2 DEF Revoking, At, Becomes
  <2>2. s \in sessions \/ s = new
    BY <1>1
  <2> QED
    BY <1>3, <2>1, <2>2 DEF Invariant, OldSessionsEnd
<1>9. BreakGlass'
  BY <1>1 DEF Invariant, BreakGlass
<1>10. LockBites'
  <2>1. blocked \in [Key -> BOOLEAN]
    BY DEF Invariant, TypeOK
  <2> QED
    BY <1>1, <1>2, <2>1, IdleIs, LockKept
<1> QED
  BY <1>4, <1>5, <1>6, <1>7, <1>8, <1>9, <1>10 DEF Invariant

-----------------------------------------------------------------------------
(* An account is made: nobody can have a session of it, or be the last       *)
(* super_admin under its name.                                               *)

LEMMA NewRowIs ==
    ASSUME NEW role \in Role
    PROVE  NewRow(role) \in Row /\ NewRow(role).role = role /\ NewRow(role).active
BY DEF NewRow, Row

LEMMA MadeInv ==
    ASSUME Invariant, NEW u \in User, NEW role \in Role, users[u].role = "none",
           users' = [users EXCEPT ![u] = NewRow(role)],
           events < MaxEvents, events' = events + 1,
           UNCHANGED <<sessions, hits, blocked, past, thread, stale>>
    PROVE  Invariant'
<1>1. /\ users' \in [User -> Row]
      /\ users'[u].role \in Role
      /\ \A v \in User : users[v].role \in Role => users'[v] = users[v]
  BY NewRowIs DEF Invariant, TypeOK, Role
<1>2. events' \in 0 .. MaxEvents
  BY ServingIs
<1>3. \A s \in sessions : s.u \in User /\ users[s.u].role \in Role
  BY DEF Invariant, TypeOK, Token, Exists
<1>4. TypeOK'
  BY <1>1, <1>2, <1>3 DEF Invariant, TypeOK, Exists
<1>5. Requests' /\ PastIsLocked'
  BY DEF Invariant, Requests, RequestOK, Permitted, MaySet, PastIsLocked
<1>6. Counted'
  <2>1. PICK T : T = Serving'
    OBVIOUS
  <2>2. T = Serving
    BY <2>1 DEF Serving, At
  <2>3. IsFiniteSet(sessions') /\ Cardinality(sessions') + Cardinality(T) <= events'
    BY <2>2, ServingIs
  <2> QED
    BY <2>1, <2>3 DEF Counted
<1>7. OldSessionsEnd'
  <2> SUFFICES ASSUME NEW s \in sessions, ~s.late, ~Revoking(s.u)'
               PROVE  s.pw = users'[s.u].pw /\ users'[s.u].active
    BY DEF OldSessionsEnd
  <2>1. ~Revoking(s.u)
    BY DEF Revoking, At
  <2> QED
    BY <1>1, <1>3, <2>1 DEF Invariant, OldSessionsEnd
<1>8. BreakGlass'
  BY <1>1 DEF Invariant, BreakGlass, Role
<1>9. LockBites'
  <2> SUFFICES ASSUME NEW v \in Key, blocked[v]
               PROVE  (past[v] + Cardinality(Trying(v)) < Cardinality(Thread))'
    BY DEF LockBites
  <2>1. PICK T : T = Trying(v)'
    OBVIOUS
  <2>2. T = Trying(v)
    BY <2>1 DEF Trying
  <2> QED
    BY <2>1, <2>2 DEF Invariant, LockBites
<1> QED
  BY <1>4, <1>5, <1>6, <1>7, <1>8, <1>9 DEF Invariant

LEMMA RegisterInv ==
    ASSUME Invariant, NEW h \in Thread, NEW u \in User, Register(h, u)
    PROVE  Invariant'
<1>1. "user" \in Role
  BY DEF Role
<1> QED
  BY <1>1, MadeInv DEF Register, Arrives, limiter

LEMMA CreateInv ==
    ASSUME Invariant, NEW h \in Thread, NEW a \in User, NEW u \in User, NEW r \in Role,
           Create(h, a, u, r)
    PROVE  Invariant'
BY MadeInv DEF Create, Arrives, limiter

-----------------------------------------------------------------------------
(* Time passes, and sessions end: no request goes on.                        *)

LEMMA QuietInv ==
    ASSUME Invariant, UNCHANGED <<users, thread, events, stale>>, sessions' \subseteq sessions,
           hits' \in [Key -> 0 .. MaxAttempts - 1], blocked' \in [Key -> BOOLEAN],
           past' \in [Key -> Nat], PastIsLocked',
           \A k \in Key : blocked'[k] => blocked[k] /\ past'[k] = past[k]
    PROVE  Invariant'
<1>1. TypeOK'
  BY DEF Invariant, TypeOK, Exists
<1>2. Requests'
  BY DEF Invariant, Requests, RequestOK, Permitted, MaySet
<1>3. Counted'
  <2>1. PICK S : S = sessions'
    OBVIOUS
  <2>2. PICK T : T = Serving'
    OBVIOUS
  <2>3. T = Serving
    BY <2>2 DEF Serving, At
  <2>4. IsFiniteSet(S) /\ Cardinality(S) \in Nat /\ Cardinality(S) <= Cardinality(sessions)
    BY <2>1, ServingIs, FS_Subset, FS_CardinalityType
  <2>5. Cardinality(S) + Cardinality(T) <= events'
    BY <2>3, <2>4, ServingIs
  <2> QED
    BY <2>1, <2>2, <2>4, <2>5 DEF Counted
<1>4. OldSessionsEnd'
  <2> SUFFICES ASSUME NEW s \in sessions', ~s.late, ~Revoking(s.u)'
               PROVE  s.pw = users[s.u].pw /\ users[s.u].active
    BY DEF OldSessionsEnd
  <2>1. s \in sessions /\ ~Revoking(s.u)
    BY DEF Revoking, At
  <2> QED
    BY <2>1 DEF Invariant, OldSessionsEnd
<1>5. BreakGlass'
  BY DEF Invariant, BreakGlass
<1>6. LockBites'
  <2> SUFFICES ASSUME NEW v \in Key, blocked'[v]
               PROVE  (past[v] + Cardinality(Trying(v)) < Cardinality(Thread))'
    BY DEF LockBites
  <2>1. PICK T : T = Trying(v)'
    OBVIOUS
  <2>2. T = Trying(v)
    BY <2>1 DEF Trying
  <2> QED
    BY <2>1, <2>2 DEF Invariant, LockBites
<1> QED
  BY <1>1, <1>2, <1>3, <1>4, <1>5, <1>6 DEF Invariant

LEMMA LeaveInv ==
    ASSUME Invariant, NEW s \in sessions, Leave(s)
    PROVE  Invariant'
<1>1. UNCHANGED <<users, hits, blocked, past, thread, events, stale>>
      /\ sessions' \subseteq sessions
  BY DEF Leave, limiter
<1>2. /\ hits \in [Key -> 0 .. MaxAttempts - 1] /\ blocked \in [Key -> BOOLEAN]
      /\ past \in [Key -> Nat] /\ PastIsLocked
  BY DEF Invariant, TypeOK
<1>3. PastIsLocked'
  BY <1>1, <1>2 DEF PastIsLocked
<1> QED
  BY <1>1, <1>2, <1>3, QuietInv

LEMMA HitExpiresInv ==
    ASSUME Invariant, NEW k \in Key, HitExpires(k)
    PROVE  Invariant'
<1>1. hits[k] - 1 \in 0 .. MaxAttempts - 1
  BY AccountsAssumption DEF HitExpires, Invariant, TypeOK
<1>2. hits' \in [Key -> 0 .. MaxAttempts - 1]
  BY <1>1 DEF HitExpires, Invariant, TypeOK
<1>3. /\ blocked \in [Key -> BOOLEAN] /\ past \in [Key -> Nat] /\ PastIsLocked
      /\ UNCHANGED <<users, sessions, blocked, past, thread, events, stale>>
  BY DEF HitExpires, Invariant, TypeOK
<1>4. PastIsLocked'
  BY <1>3 DEF PastIsLocked
<1> QED
  BY <1>2, <1>3, <1>4, QuietInv

LEMMA LockExpiresInv ==
    ASSUME Invariant, NEW k \in Key, LockExpires(k)
    PROVE  Invariant'
<1>1. /\ UNCHANGED <<users, sessions, hits, thread, events, stale>>
      /\ hits \in [Key -> 0 .. MaxAttempts - 1]
      /\ blocked' \in [Key -> BOOLEAN] /\ past' \in [Key -> Nat]
      /\ blocked'[k] = FALSE /\ past'[k] = 0
      /\ \A v \in Key : v # k => blocked'[v] = blocked[v] /\ past'[v] = past[v]
  BY DEF LockExpires, Invariant, TypeOK
<1>2. PastIsLocked'
  BY <1>1 DEF Invariant, PastIsLocked
<1> QED
  BY <1>1, <1>2, QuietInv

-----------------------------------------------------------------------------
(* The write: the only step that can take a role, an account or its access.  *)

LEMMA WrittenIs ==
    ASSUME NEW q \in Request, NEW row \in Row
    PROVE  LET w == Written(q, row)
           IN  /\ w \in Row
               /\ q.op = "delete" => w.role = "gone"
               /\ q.op = "role" => w.role = q.new /\ w.active = row.active /\ w.pw = row.pw
               /\ q.op \in {"enable", "activate"} =>
                     w.role = row.role /\ w.active /\ w.pw = row.pw
               /\ q.op \in {"disable", "deactivate"} => w.role = row.role
               /\ q.op \notin {"delete", "role", "enable", "activate", "disable", "deactivate"} =>
                     w.role = row.role /\ w.active = row.active
<1>1. q.new \in Role /\ row.pw + 1 \in Nat
  BY DEF Request, Row
<1>2. CASE q.op = "delete"
  BY <1>2 DEF Written, Row
<1>3. CASE q.op = "role"
  BY <1>1, <1>3 DEF Written, Row
<1>4. CASE q.op \in {"enable", "activate"}
  BY <1>4 DEF Written, Row
<1>5. CASE q.op \in {"disable", "deactivate"}
  BY <1>5 DEF Written, Row
<1>6. CASE q.op \notin {"delete", "role", "enable", "activate", "disable", "deactivate"}
  <2>1. Written(q, row) = [row EXCEPT !.pw = @ + 1]
    BY <1>6 DEF Written
  <2> QED
    BY <1>1, <1>6, <2>1 DEF Row
<1> QED
  BY <1>2, <1>3, <1>4, <1>5, <1>6

LEMMA WriteChanges ==
    ASSUME Invariant, NEW h \in Thread, Write(h)
    PROVE  /\ thread[h] \in Request /\ thread[h].target \in User
           /\ users' \in [User -> Row]
           /\ \A u \in User : u # thread[h].target => users'[u] = users[u]
           /\ \/ users'[thread[h].target] = users[thread[h].target]
              \/ users'[thread[h].target] = Written(thread[h], users[thread[h].target])
           /\ sessions' \subseteq sessions
           /\ \A s \in sessions' : users'[s.u].role \in Role
<1> DEFINE q == thread[h]
<1>1. q \in Request /\ q.target \in User
  BY DEF Invariant, TypeOK, Request
<1>2. users \in [User -> Row]
  BY DEF Invariant, TypeOK
<1>3. users' = (IF Exists(q.target)
                THEN [users EXCEPT ![q.target] = Written(q, users[q.target])] ELSE users)
      /\ sessions' = Cascade(users')
  BY DEF Write
<1> HIDE DEF q
<1>4. Written(q, users[q.target]) \in Row
  BY <1>1, <1>2, WrittenIs
<1>5. /\ users' \in [User -> Row]
      /\ \A u \in User : u # q.target => users'[u] = users[u]
      /\ \/ users'[q.target] = users[q.target]
         \/ users'[q.target] = Written(q, users[q.target])
  BY <1>1, <1>2, <1>3, <1>4
<1>6. sessions' \subseteq sessions /\ \A s \in sessions' : users'[s.u].role \in Role
  BY <1>3 DEF Cascade
<1> QED
  BY <1>1, <1>5, <1>6 DEF q

LEMMA WriteThread ==
    ASSUME Invariant, NEW h \in Thread, Write(h)
    PROVE  \E p \in Request :
              /\ Becomes(h, p) /\ RequestOK(p) /\ p.at \in {"idle", "revoke"}
              /\ Revokes(thread[h].op) => p.at = "revoke" /\ p.target = thread[h].target
<1>1. CASE Revokes(thread[h].op)
  <2>1. To(h, "revoke") /\ "revoke" \in Place
    BY <1>1 DEF Write, Place
  <2> QED
    BY <2>1, ToChanges DEF RequestOK, Invariant
<1>2. CASE ~Revokes(thread[h].op)
  <2>1. Done(h)
    BY <1>2 DEF Write
  <2> QED
    BY <1>2, <2>1, DoneChanges, IdleIs DEF Invariant
<1> QED
  BY <1>1, <1>2

\* Who is allowed to take an active super_admin away is one itself, and another:
\* it is left.
LEMMA GlassKept ==
    ASSUME Invariant, NEW h \in Thread, Write(h)
    PROVE  BreakGlass'
<1> DEFINE q == thread[h]  t == q.target
<1> SUFFICES ASSUME ~stale'
             PROVE  \E u \in User : users'[u].role = "super_admin" /\ users'[u].active
  BY DEF BreakGlass
<1>1. ~stale /\ Exists(q.actor) /\ users[q.actor].active /\ users[q.actor].role = q.role
      /\ users[t].role = q.had
  BY DEF Write
<1>2. PICK w \in User : users[w].role = "super_admin" /\ users[w].active
  BY <1>1 DEF Invariant, BreakGlass
<1>3. /\ q \in Request /\ t \in User
      /\ \A u \in User : u # t => users'[u] = users[u]
      /\ users'[t] = users[t] \/ users'[t] = Written(q, users[t])
  BY WriteChanges
<1>4. CASE w # t \/ users'[t] = users[t]
  BY <1>2, <1>3, <1>4
<1>5. CASE w = t /\ users'[t] = Written(q, users[t])
  <2>1. q.at = "write" /\ RequestOK(q)
    BY DEF Invariant, Requests, Write, At
  <2>2. q.had = "super_admin" /\ Permitted(q, q.had) /\ q.actor \in User
        /\ q.op # "login" /\ (q.op # "password" => q.role # "user")
    BY <1>1, <1>2, <1>5, <2>1 DEF RequestOK
  <2>3. users[t] \in Row /\ q.role \in Role /\ q.op \in Op
    BY <1>3 DEF Invariant, TypeOK, Request
  <2> HIDE DEF q, t
  <2>4. q.op \notin {"delete", "disable", "enable"}
    BY <2>2 DEF Permitted
  <2>5. CASE q.op \in {"role", "deactivate"}
    <3>1. q.role = "super_admin"
      BY <2>2, <2>3, <2>5 DEF Permitted, Role
    <3>2. CASE q.actor # t
      BY <1>1, <1>3, <2>2, <3>1, <3>2
    <3>3. CASE q.actor = t
      <4>1. q.op = "role" /\ q.new = "super_admin"
        BY <2>2, <2>5, <3>1, <3>3 DEF Permitted, MaySet, t
      <4>2. users'[t].role = "super_admin" /\ users'[t].active = users[t].active
        BY <1>3, <1>5, <2>3, <4>1, WrittenIs
      <4> QED
        BY <1>2, <1>3, <1>5, <4>2
    <3> QED
      BY <3>2, <3>3
  <2>6. CASE q.op \in {"reset", "password", "activate"}
    <3>1. users'[t].role = users[t].role /\ (users[t].active => users'[t].active)
      BY <1>3, <1>5, <2>3, <2>6, WrittenIs
    <3> QED
      BY <1>2, <1>3, <1>5, <3>1
  <2> QED
    BY <2>2, <2>3, <2>4, <2>5, <2>6 DEF Op
<1> QED
  BY <1>3, <1>4, <1>5

\* A change that is to end sessions is still revoking; any other leaves what a
\* session was made on.
LEMMA OldKept ==
    ASSUME Invariant, NEW h \in Thread, Write(h)
    PROVE  OldSessionsEnd'
<1> DEFINE q == thread[h]  t == q.target
<1> SUFFICES ASSUME NEW s \in sessions', ~s.late, ~Revoking(s.u)'
             PROVE  s.pw = users'[s.u].pw /\ users'[s.u].active
  BY DEF OldSessionsEnd
<1>1. /\ q \in Request /\ t \in User
      /\ \A u \in User : u # t => users'[u] = users[u]
      /\ users'[t] = users[t] \/ users'[t] = Written(q, users[t])
      /\ s \in sessions /\ users'[s.u].role \in Role
  BY WriteChanges
<1>2. PICK p \in Request :
         /\ Becomes(h, p)
         /\ Revokes(q.op) => p.at = "revoke" /\ p.target = t
  BY WriteThread
<1>3. ~Revoking(s.u)
  BY <1>2 DEF Revoking, At, Becomes, Write
<1>4. s.pw = users[s.u].pw /\ users[s.u].active /\ s.u \in User
  BY <1>1, <1>3 DEF Invariant, OldSessionsEnd, TypeOK, Token
<1>5. CASE s.u # t \/ users'[t] = users[t]
  BY <1>1, <1>4, <1>5
<1>6. CASE s.u = t /\ users'[t] = Written(q, users[t])
  <2>1. ~Revokes(q.op)
    BY <1>2, <1>6 DEF Revoking, At, Becomes
  <2>2. q.op # "login"
    BY DEF Invariant, Requests, RequestOK, Write, At
  <2>3. users[t] \in Row /\ q.op \in Op
    BY <1>1 DEF Invariant, TypeOK, Request
  <2> HIDE DEF q, t
  <2>4. q.op \in {"delete", "enable", "activate", "role"}
    BY <2>1, <2>2, <2>3 DEF Revokes, Op
  <2>5. q.op # "delete"
    BY <1>1, <1>6, <2>3, WrittenIs DEF Role
  <2>6. users'[t].pw = users[t].pw /\ users'[t].active
    BY <1>1, <1>4, <1>6, <2>3, <2>4, <2>5, WrittenIs
  <2> QED
    BY <1>4, <1>6, <2>6
<1> QED
  BY <1>1, <1>5, <1>6

LEMMA WriteInv ==
    ASSUME Invariant, NEW h \in Thread, Write(h)
    PROVE  Invariant'
<1>1. At(h, "write") /\ UNCHANGED <<hits, blocked, past, events>> /\ stale' \in BOOLEAN
  <2>1. stale \in BOOLEAN
    BY DEF Invariant, TypeOK
  <2> QED
    BY <2>1 DEF Write, limiter
<1>2. /\ users' \in [User -> Row]
      /\ sessions' \subseteq sessions
      /\ \A s \in sessions' : users'[s.u].role \in Role
  BY WriteChanges
<1>3. PICK p \in Request : Becomes(h, p) /\ RequestOK(p) /\ p.at \in {"idle", "revoke"}
  BY WriteThread
<1>4. TypeOK'
  BY <1>1, <1>2, <1>3 DEF Invariant, TypeOK, Becomes, Exists
<1>5. Requests'
  BY <1>3 DEF Invariant, Requests, Becomes, RequestOK, Permitted, MaySet
<1>6. Counted'
  BY <1>1, <1>2, <1>3, CountKept DEF At
<1>7. PastIsLocked'
  BY <1>1 DEF Invariant, PastIsLocked
<1>8. LockBites'
  <2>1. blocked \in [Key -> BOOLEAN]
    BY DEF Invariant, TypeOK
  <2> QED
    BY <1>1, <1>3, <2>1, LockKept
<1> QED
  BY <1>4, <1>5, <1>6, <1>7, <1>8, GlassKept, OldKept DEF Invariant

-----------------------------------------------------------------------------
(* The boot, and the whole step.                                             *)

LEMMA SeedsIs ==
    ASSUME NEW us \in [User -> Row]
    PROVE  /\ Seeds(us) \in [User -> Row]
           /\ \A u \in User : us[u].role \in Role => Seeds(us)[u] = us[u]
           /\ us[Root].role \notin Role =>
                 Seeds(us)[Root].role = "super_admin" /\ Seeds(us)[Root].active
<1>1. "admin" \in Role /\ "super_admin" \in Role
  BY DEF Role
<1>2. /\ NewRow("admin") \in Row /\ NewRow("super_admin") \in Row
      /\ NewRow("super_admin").role = "super_admin" /\ NewRow("super_admin").active
  BY <1>1, NewRowIs
<1>3. Root \in User
  BY AccountsAssumption
<1> QED
  BY <1>2, <1>3 DEF Seeds

\* Nothing is under way, nothing is locked and nobody is logged in.
LEMMA RestInv ==
    ASSUME (users \in [User -> Row])', sessions' = {},
           hits' = [k \in Key |-> 0], blocked' = [k \in Key |-> FALSE],
           past' = [k \in Key |-> 0], thread' = [h \in Thread |-> Idle],
           events' \in 0 .. MaxEvents, stale' \in BOOLEAN, BreakGlass'
    PROVE  Invariant'
<1>1. 0 \in 0 .. MaxAttempts - 1
  BY AccountsAssumption
<1>2. TypeOK'
  BY <1>1, IdleIs DEF TypeOK
<1>3. Requests'
  BY IdleIs DEF Requests, RequestOK
<1>4. Counted'
  <2>1. PICK T : T = Serving'
    OBVIOUS
  <2>2. T = {}
    BY <2>1, IdleIs DEF Serving, At
  <2>3. IsFiniteSet({}) /\ Cardinality({}) + Cardinality(T) <= events'
    BY <2>2, FS_EmptySet, AccountsAssumption
  <2> QED
    BY <2>1, <2>3 DEF Counted
<1>5. PastIsLocked' /\ OldSessionsEnd' /\ LockBites'
  BY DEF PastIsLocked, OldSessionsEnd, LockBites
<1> QED
  BY <1>2, <1>3, <1>4, <1>5 DEF Invariant

LEMMA BootInv ==
    ASSUME Invariant, Boot
    PROVE  Invariant'
<1>1. users' = Seeds(users) /\ UNCHANGED stale
      /\ sessions' = {} /\ hits' = [k \in Key |-> 0] /\ blocked' = [k \in Key |-> FALSE]
      /\ past' = [k \in Key |-> 0] /\ thread' = [h \in Thread |-> Idle]
  BY DEF Boot
<1>2. users \in [User -> Row] /\ stale \in BOOLEAN
  BY DEF Invariant, TypeOK
<1>3. events' \in 0 .. MaxEvents
  BY ServingIs DEF Boot
<1>4. users' \in [User -> Row]
  BY <1>1, <1>2, SeedsIs
<1>5. BreakGlass'
  BY <1>1, <1>2, SeedsIs DEF Invariant, BreakGlass, Role
<1> QED
  BY <1>1, <1>2, <1>3, <1>4, <1>5, RestInv

LEMMA InitInv ==
    ASSUME Init
    PROVE  Invariant
<1> DEFINE us == [u \in User |-> [NewRow("user") EXCEPT !.role = "none"]]
<1>1. users = Seeds(us) /\ sessions = {}
      /\ hits = [k \in Key |-> 0] /\ blocked = [k \in Key |-> FALSE]
      /\ thread = [h \in Thread |-> Idle] /\ events = 0 /\ stale = FALSE
      /\ past = [k \in Key |-> 0]
  BY DEF Init
<1>2. /\ us \in [User -> Row] /\ us[Root].role \notin Role
  BY AccountsAssumption DEF Row, NewRow, Role
<1> HIDE DEF us
<1>3. users \in [User -> Row] /\ users[Root].role = "super_admin" /\ users[Root].active
  BY <1>1, <1>2, SeedsIs
<1>4. 0 \in 0 .. MaxAttempts - 1 /\ 0 \in 0 .. MaxEvents
  BY AccountsAssumption
<1>5. TypeOK
  BY <1>1, <1>3, <1>4, IdleIs DEF TypeOK
<1>6. Requests
  BY <1>1, IdleIs DEF Requests, RequestOK
<1>7. Counted
  <2>1. Serving = {}
    BY <1>1, IdleIs DEF Serving, At
  <2> QED
    BY <1>1, <2>1, FS_EmptySet DEF Counted
<1>8. PastIsLocked /\ OldSessionsEnd /\ LockBites
  BY <1>1 DEF PastIsLocked, OldSessionsEnd, LockBites
<1>9. BreakGlass
  BY <1>3, AccountsAssumption DEF BreakGlass
<1> QED
  BY <1>5, <1>6, <1>7, <1>8, <1>9 DEF Invariant

LEMMA NextInv ==
    ASSUME Invariant, Next
    PROVE  Invariant'
<1>1. ASSUME NEW h \in Thread, Asked(h)
      PROVE  Invariant'
  <2>1. ASSUME (\E u \in User : Register(h, u)) \/ (\E k \in Key : Login(h, k))
        PROVE  Invariant'
    BY <2>1, RegisterInv, LoginInv
  <2>2. ASSUME NEW a \in User, NEW t \in User, NEW op \in Op \ {"login", "role"},
               Manage(h, op, a, t, "user")
        PROVE  Invariant'
    <3>1. "user" \in Role /\ op \in Op \ {"login"}
      BY DEF Role
    <3> QED
      BY <2>2, <3>1, ManageInv
  <2>3. ASSUME NEW a \in User, NEW t \in User, NEW r \in Role,
               Manage(h, "role", a, t, r) \/ Create(h, a, t, r)
        PROVE  Invariant'
    <3>1. "role" \in Op \ {"login"}
      BY DEF Op
    <3> QED
      BY <2>3, <3>1, ManageInv, CreateInv
  <2> QED
    BY <1>1, <2>1, <2>2, <2>3 DEF Asked
<1>2. ASSUME NEW h \in Thread, Step(h)
      PROVE  Invariant'
  BY <1>2, VerifyInv, RecordInv, UnlockInv, InsertInv, ReadInv, WriteInv, RevokeInv DEF Step
<1> QED
  BY <1>1, <1>2, BootInv, LeaveInv, HitExpiresInv, LockExpiresInv DEF Next

LEMMA StutterInv ==
    ASSUME Invariant, UNCHANGED vars
    PROVE  Invariant'
<1>1. UNCHANGED <<users, sessions, hits, blocked, thread, events, past, stale>>
  BY DEF vars
<1>2. /\ hits \in [Key -> 0 .. MaxAttempts - 1] /\ blocked \in [Key -> BOOLEAN]
      /\ past \in [Key -> Nat] /\ PastIsLocked
  BY DEF Invariant, TypeOK
<1>3. PastIsLocked'
  BY <1>1, <1>2 DEF PastIsLocked
<1> QED
  BY <1>1, <1>2, <1>3, QuietInv

LEMMA Inductive == Spec => []Invariant
<1>1. Init => Invariant
  BY InitInv
<1>2. Invariant /\ [Next]_vars => Invariant'
  BY NextInv, StutterInv
<1> QED
  BY <1>1, <1>2, PTL DEF Spec

\* The state keeps its types, and no session outlives the account it is of: the
\* insert asks for the row, and a delete takes the sessions along.
THEOREM TypeCorrect == Spec => []TypeOK
<1>1. Invariant => TypeOK
  BY DEF Invariant
<1> QED
  BY <1>1, Inductive, PTL

\* Once a change of password or a deactivation has returned, the sessions it was
\* to end are ended, however many logins run beside it; only a login that had
\* verified the row before the change and inserted after it leaves one.
THEOREM OldSessionsDoEnd == Spec => []OldSessionsEnd
<1>1. Invariant => OldSessionsEnd
  BY DEF Invariant
<1> QED
  BY <1>1, Inductive, PTL

\* The break-glass account (services/authentication.py:10): as long as every write
\* still finds the roles that permitted it, an active super_admin is left, however
\* many accounts manage each other.
THEOREM GlassHolds == Spec => []BreakGlass
<1>1. Invariant => BreakGlass
  BY DEF Invariant
<1> QED
  BY <1>1, Inductive, PTL

\* While a key is locked, fewer logins under it fail than there are threads: only
\* those that were past RateLimiter.retry_after when the lock was set.
THEOREM LockDoesBite == Spec => []LockBites
<1>1. Invariant => LockBites
  BY DEF Invariant
<1> QED
  BY <1>1, Inductive, PTL

\* The role has the power to turn the role old of another account into new.
Outranks(role, old, new) ==
    role = "super_admin" \/ (role = "admin" /\ old = "user" /\ new \in {"user", "gone"})

\* Who changes an account.
EditsAuthorised ==
    ~stale' => \A u \in User :
        /\ Exists(u)
        /\ users'[u].role # users[u].role \/ users'[u].active # users[u].active
        => \E a \in User \ {u} :
              users[a].active /\ Outranks(users[a].role, users[u].role, users'[u].role)

\* A write that is not stale does what was permitted, to whom it was permitted.
LEMMA WriteIsAuthorised ==
    ASSUME Invariant, NEW h \in Thread, Write(h)
    PROVE  EditsAuthorised
<1> DEFINE q == thread[h]
<1>1. q \in Request /\ RequestOK(q) /\ q.at = "write"
  BY DEF Invariant, TypeOK, Requests, Write, At
<1> SUFFICES ASSUME ~stale', NEW u \in User, Exists(u),
                    users'[u].role # users[u].role \/ users'[u].active # users[u].active
             PROVE  \E a \in User \ {u} :
                       users[a].active /\ Outranks(users[a].role, users[u].role, users'[u].role)
  BY DEF EditsAuthorised
<1>2. /\ Exists(q.actor) /\ users[q.actor].active /\ users[q.actor].role = q.role
      /\ users[q.target].role = q.had
  BY DEF Write
<1>3. /\ users \in [User -> Row] /\ users[u] \in Row
      /\ q.target \in User /\ q.actor \in User
      /\ q.op \in Op \ {"login"} /\ q.role \in Role /\ q.new \in Role
      /\ Permitted(q, q.had)
  BY <1>1 DEF Invariant, TypeOK, RequestOK, Request
<1>4. u = q.target /\ users'[u] = Written(q, users[u])
  BY <1>3 DEF Write
<1>5. q.op # "password" /\ q.op # "reset"
  BY <1>3, <1>4 DEF Written, Row, Op
<1>6. q.role # "user"
  BY <1>1, <1>5 DEF RequestOK
<1> HIDE DEF q
<1>7. CASE q.op = "role"
  <2>1. users'[u].role = q.new /\ q.new # q.had
    BY <1>2, <1>3, <1>4, <1>7 DEF Written, Row
  <2>2. MaySet(q) /\ (q.role = "admin" => q.had = "user")
    BY <1>3, <1>7 DEF Permitted
  <2>3. q.actor # u
    BY <1>2, <1>4, <2>1, <2>2 DEF MaySet
  <2>4. Outranks(q.role, q.had, q.new)
    BY <1>3, <1>6, <2>2 DEF MaySet, Allowed, Outranks, Role
  <2> QED
    BY <1>2, <1>3, <1>4, <2>1, <2>3, <2>4
<1>8. CASE q.op = "activate"
  <2>1. users'[u].role = q.had /\ users'[u].active
    BY <1>2, <1>3, <1>4, <1>8 DEF Written, Row
  <2>2. q.role = "admin" => q.had = "user"
    BY <1>3, <1>8 DEF Permitted
  <2>3. q.actor # u
    BY <1>2, <1>3, <1>4, <2>1
  <2>4. Outranks(q.role, q.had, users'[u].role)
    BY <1>3, <1>6, <2>1, <2>2 DEF Outranks, Role
  <2> QED
    BY <1>2, <1>3, <1>4, <2>3, <2>4
<1>9. CASE q.op \in {"delete", "disable", "enable", "deactivate"}
  <2>1. users'[u].role \in {q.had, "gone"}
    BY <1>2, <1>3, <1>4, <1>9 DEF Written, Row
  <2>2. q.target # q.actor /\ (q.role = "admin" => q.had = "user")
    BY <1>3, <1>9 DEF Permitted
  <2>3. Outranks(q.role, q.had, users'[u].role)
    BY <1>3, <1>6, <2>1, <2>2 DEF Outranks, Role
  <2> QED
    BY <1>2, <1>3, <1>4, <2>2, <2>3
<1> QED
  BY <1>3, <1>5, <1>7, <1>8, <1>9 DEF Op

\* No account that exists is another's but for a management request.
LEMMA OthersEditNothing ==
    ASSUME Invariant, [Next]_vars, \A h \in Thread : ~Write(h)
    PROVE  \A u \in User : Exists(u) => users'[u] = users[u]
<1>1. users \in [User -> Row]
  BY DEF Invariant, TypeOK
<1>2. ASSUME NEW v \in User, users[v].role = "none", NEW row, users' = [users EXCEPT ![v] = row]
      PROVE  \A u \in User : Exists(u) => users'[u] = users[u]
  BY <1>1, <1>2 DEF Exists, Role
<1>3. CASE Boot
  BY <1>3 DEF Boot, Seeds, Exists
<1>4. ASSUME NEW h \in Thread, Asked(h)
      PROVE  \A u \in User : Exists(u) => users'[u] = users[u]
  <2>1. ASSUME NEW v \in User, Register(h, v)
        PROVE  \A u \in User : Exists(u) => users'[u] = users[u]
    BY <1>2, <2>1 DEF Register
  <2>2. ASSUME NEW a \in User, NEW v \in User, NEW r \in Role, Create(h, a, v, r)
        PROVE  \A u \in User : Exists(u) => users'[u] = users[u]
    BY <1>2, <2>2 DEF Create
  <2>3. \A v : Login(h, v) => users' = users
    BY DEF Login
  <2>4. \A op, a, t, r : Manage(h, op, a, t, r) => users' = users
    BY Zenon DEF Manage
  <2> QED
    BY <1>4, <2>1, <2>2, <2>3, <2>4 DEF Asked
<1>5. ASSUME NEW h \in Thread, Step(h)
      PROVE  users' = users
  BY <1>5 DEF Step, Verify, Record, Unlock, Insert, Read, Revoke
<1>6. ASSUME NEW s \in sessions, Leave(s)
      PROVE  users' = users
  BY <1>6 DEF Leave
<1>7. ASSUME NEW k \in Key, HitExpires(k) \/ LockExpires(k)
      PROVE  users' = users
  BY <1>7 DEF HitExpires, LockExpires
<1>8. CASE UNCHANGED vars
  BY <1>8 DEF vars
<1> QED
  BY <1>3, <1>4, <1>5, <1>6, <1>7, <1>8 DEF Next

\* The role of an account changes, and an account is enabled, disabled or deleted,
\* only while another one that is active has the power to: a super_admin, or an admin
\* where a user stays a user.  The routes decide on rows they read in an earlier
\* statement, so this is up to roles that change in between, as in BreakGlass
\* (api/authentication.py: delete_user, set_user_active, update_user).
THEOREM ChangesAreAuthorised == Spec => [][EditsAuthorised]_vars
<1>1. Invariant /\ [Next]_vars => EditsAuthorised
  <2> SUFFICES ASSUME Invariant, [Next]_vars
               PROVE  EditsAuthorised
    OBVIOUS
  <2>1. CASE \E h \in Thread : Write(h)
    BY <2>1, WriteIsAuthorised
  <2>2. CASE \A h \in Thread : ~Write(h)
    BY <2>2, OthersEditNothing DEF EditsAuthorised
  <2> QED
    BY <2>1, <2>2
<1> QED
  BY Inductive, <1>1, PTL DEF Spec
=============================================================================
