------------------------- MODULE AdbTerminalProofs -------------------------
(* Theorems of AdbTerminal, for every value of its constants: any number of  *)
(* devices, of threads and of sessions made.                                 *)
(*                                                                           *)
(* A session is made in the registry, brought up by the one thread that made *)
(* it, and replaced or closed by any other, at any moment of its start: the  *)
(* invariant says who may still start it and what has not happened to it by  *)
(* then.                                                                     *)
EXTENDS AdbTerminal, TLAPS

ClosePlace == {"close", "shut", "mark", "told"}

\* A handler that is at work has a session in hand, and only a close has a second
\* one to go on with; both exist.
HandOK(q) ==
    /\ q.at # "idle" => q.s \in 1 .. made
    /\ q.next \in 0 .. made
    /\ q.next # 0 => q.at \in ClosePlace

InHand == \A h \in Handler : HandOK(thread[h])

\* A session is in the registry, or about to be closed, or its tab was told.
Followed == \A s \in 1 .. made : registered = s \/ Closing(s) \/ shell[s].told

Unmade == \A s \in Session : s > made => ~shell[s].alive

\* A handler with q in hand has yet to connect session s; it is the one that
\* starts it; it is closing it.
Awaits(q, s) == q.next = s \/ (q.at = "connect" /\ q.s = s)
Starts(q, s) == Awaits(q, s) \/ (q.at \in {"live", "fit"} /\ q.s = s)
Closes(q, s) == q.s = s /\ q.at \in ClosePlace

OneStarter ==
    \A s \in Session, g, h \in Handler :
       Starts(thread[g], s) /\ Starts(thread[h], s) => g = h

NotYetAlive ==
    \A s \in Session, h \in Handler : Awaits(thread[h], s) => ~shell[s].alive

\* Whoever sends holds the lock of its session.
SendersHold == \A h \in Handler : thread[h].at \in {"type", "size"} => lock[My(h)] = h

\* A shell on an open transport has a pump, or is still being started, unless its
\* tab was told that it is closed.
LiveHasPump ==
    \A s \in Session : Alive(s) /\ shell[s].conn = "open" =>
       \/ shell[s].pump \in {"runs", "marks"}
       \/ shell[s].told
       \/ \E h \in Handler : At(h, "fit") /\ My(h) = s

Invariant ==
    /\ TypeOK
    /\ InHand
    /\ Followed
    /\ Unmade
    /\ OneStarter
    /\ NotYetAlive
    /\ SendersHold
    /\ LiveHasPump

-----------------------------------------------------------------------------
(* How a step changes the handler it is a step of, and what it must leave.   *)

Becomes(h, q) ==
    /\ thread' \in [Handler -> Thread]
    /\ thread'[h] = q
    /\ \A g \in Handler : g # h => thread'[g] = thread[g]

\* Nobody else's lock is touched, and h holds one only inside its section.
LocksKept(h, q) ==
    /\ lock' \in [Session -> Handler \cup {Free}]
    /\ \A s \in Session, g \in Handler : g # h => (lock'[s] = g <=> lock[s] = g)
    /\ \A s \in Session : lock'[s] = h =>
          q.s = s /\ q.at \in {"type", "size", "close", "mark", "told"}
    /\ q.at \in {"type", "size"} => lock'[q.s] = h

\* Only the starter brings a session up; nobody takes back what a tab was told.
ShellsKept(h, q) ==
    /\ shell' \in [Session -> Shell]
    /\ \A s \in Session :
          /\ shell[s].told => shell'[s].told
          /\ shell'[s].alive =>
                shell[s].alive \/ (Starts(thread[h], s) /\ ~Awaits(q, s) /\ s <= made)

Answers(sh) == sh.pump \in {"runs", "marks"} \/ sh.told
Mute(sh) == sh.alive /\ sh.conn = "open" /\ ~Answers(sh)

\* A session that is up without its pump is still being started, by h or, as it
\* was before, by another.
PumpsKept(h, q) ==
    \A s \in Session : Mute(shell'[s]) =>
       (q.at = "fit" /\ q.s = s) \/ (Mute(shell[s]) /\ ~(At(h, "fit") /\ My(h) = s))

LEMMA IdleIs == Idle \in Thread /\ Idle.at = "idle" /\ Idle.s = 0 /\ Idle.next = 0
BY TerminalAssumption DEF Idle, Thread, Place

LEMMA DoneChanges ==
    ASSUME TypeOK, NEW h \in Handler, Done(h)
    PROVE  Becomes(h, Idle)
BY IdleIs DEF TypeOK, Done, Becomes

LEMMA ToChanges ==
    ASSUME TypeOK, NEW h \in Handler, NEW place \in Place, To(h, place)
    PROVE  \E q \in Thread :
              Becomes(h, q) /\ q.at = place /\ q.s = My(h) /\ q.next = thread[h].next
<1> DEFINE q == [thread[h] EXCEPT !.at = place]
<1>1. q \in Thread /\ q.at = place /\ q.s = My(h) /\ q.next = thread[h].next
  BY DEF TypeOK, Thread, My
<1>2. thread' = [thread EXCEPT ![h] = q]
  BY DEF To
<1> HIDE DEF q
<1>3. Becomes(h, q)
  BY <1>1, <1>2 DEF Becomes, TypeOK
<1> QED
  BY <1>1, <1>3

LEMMA SessionsAre ==
    ASSUME TypeOK
    PROVE  /\ made \in Nat /\ MaxSessions \in Nat /\ made <= MaxSessions
           /\ 1 .. made \subseteq Session /\ 0 \notin Session
           /\ registered \in 0 .. made
BY TerminalAssumption DEF TypeOK, Session

\* Idle: it neither starts nor closes anything.
LEMMA IdleStarts ==
    ASSUME NEW s \in Session
    PROVE  ~Awaits(Idle, s) /\ ~Starts(Idle, s)
BY IdleIs, TerminalAssumption DEF Awaits, Starts, Session

\* The parts of the invariant, for a step of handler h that makes no session.
LEMMA StepInv ==
    ASSUME Invariant, NEW h \in Handler, NEW q \in Thread, Becomes(h, q),
           made' = made, registered' \in {registered, 0}, events' \in 0 .. MaxEvents,
           HandOK(q), LocksKept(h, q), ShellsKept(h, q), PumpsKept(h, q),
           \A s \in Session : /\ Awaits(q, s) => Awaits(thread[h], s)
                              /\ Starts(q, s) => Starts(thread[h], s),
           \A s \in 1 .. made : registered = s \/ Closes(thread[h], s) =>
              registered' = s \/ Closes(q, s) \/ shell'[s].told
    PROVE  Invariant'
<1>1. TypeOK'
  <2>1. registered' \in 0 .. made' /\ made' \in 0 .. MaxSessions
    BY SessionsAre DEF Invariant
  <2>2. shell' \in [Session -> Shell] /\ lock' \in [Session -> Handler \cup {Free}]
    BY DEF ShellsKept, LocksKept
  <2>3. \A s \in Session, g \in Handler : lock'[s] = g =>
           thread'[g].s = s /\ thread'[g].at \in {"type", "size", "close", "mark", "told"}
    <3> SUFFICES ASSUME NEW s \in Session, NEW g \in Handler, lock'[s] = g
                 PROVE  thread'[g].s = s
                        /\ thread'[g].at \in {"type", "size", "close", "mark", "told"}
      OBVIOUS
    <3>1. CASE g = h
      BY <3>1 DEF LocksKept, Becomes
    <3>2. CASE g # h
      <4>1. lock[s] = g /\ thread'[g] = thread[g]
        BY <3>2 DEF LocksKept, Becomes
      <4> QED
        BY <4>1 DEF Invariant, TypeOK, My
    <3> QED
      BY <3>1, <3>2
  <2> QED
    BY <2>1, <2>2, <2>3 DEF TypeOK, Becomes, My
<1>2. InHand'
  BY DEF Invariant, InHand, HandOK, Becomes
<1>3. Followed'
  <2> SUFFICES ASSUME NEW s \in 1 .. made
               PROVE  registered' = s \/ Closing(s)' \/ shell'[s].told
    BY DEF Followed
  <2>1. s \in Session
    BY SessionsAre DEF Invariant
  <2>2. registered = s \/ Closing(s) \/ shell[s].told
    BY DEF Invariant, Followed
  <2>3. CASE registered = s \/ Closes(thread[h], s)
    BY <2>3 DEF Closes, ClosePlace, Closing, Becomes, My
  <2>4. CASE shell[s].told
    BY <2>1, <2>4 DEF ShellsKept
  <2>5. ASSUME NEW g \in Handler, g # h, Closes(thread[g], s)
        PROVE  Closing(s)'
    BY <2>5 DEF Closes, ClosePlace, Closing, Becomes, My
  <2> QED
    BY <2>2, <2>3, <2>4, <2>5 DEF Closing, Closes, ClosePlace, My
<1>4. Unmade'
  BY SessionsAre DEF Invariant, Unmade, ShellsKept, Session
<1>5. OneStarter'
  BY DEF Invariant, OneStarter, Becomes
<1>6. NotYetAlive'
  <2> SUFFICES ASSUME NEW s \in Session, NEW g \in Handler, Awaits(thread'[g], s),
                      shell'[s].alive
               PROVE  FALSE
    BY DEF NotYetAlive
  <2>1. Awaits(thread[g], s)
    BY DEF Becomes
  <2>2. ~shell[s].alive
    BY <2>1 DEF Invariant, NotYetAlive
  <2>3. Starts(thread[h], s) /\ ~Awaits(q, s)
    BY <2>2 DEF ShellsKept
  <2>4. g = h
    BY <2>1, <2>3 DEF Invariant, OneStarter, Starts
  <2> QED
    BY <2>3, <2>4 DEF Becomes
<1>7. SendersHold'
  <2> SUFFICES ASSUME NEW g \in Handler, thread'[g].at \in {"type", "size"}
               PROVE  lock'[thread'[g].s] = g
    BY DEF SendersHold, My
  <2>1. CASE g = h
    BY <2>1 DEF LocksKept, Becomes
  <2>2. CASE g # h
    <3>1. thread'[g] = thread[g] /\ lock[thread[g].s] = g
      BY <2>2 DEF Becomes, Invariant, SendersHold, My
    <3>2. thread[g].s \in Session
      BY <2>2, <3>1, SessionsAre DEF Invariant, InHand, HandOK, At, My
    <3> QED
      BY <2>2, <3>1, <3>2 DEF LocksKept
  <2> QED
    BY <2>1, <2>2
<1>8. LiveHasPump'
  <2> SUFFICES ASSUME NEW s \in Session, Mute(shell'[s])
               PROVE  \E g \in Handler : At(g, "fit")' /\ thread'[g].s = s
    BY DEF LiveHasPump, Alive, Mute, Answers, My
  <2>1. CASE q.at = "fit" /\ q.s = s
    BY <2>1 DEF Becomes, At
  <2>2. CASE Mute(shell[s]) /\ ~(At(h, "fit") /\ My(h) = s)
    <3>1. PICK g \in Handler : At(g, "fit") /\ My(g) = s
      BY <2>2 DEF Invariant, LiveHasPump, Alive, Mute, Answers
    <3>2. thread'[g] = thread[g]
      BY <2>2, <3>1 DEF Becomes
    <3> QED
      BY <3>1, <3>2 DEF At, My
  <2> QED
    BY <2>1, <2>2 DEF PumpsKept
<1> QED
  BY <1>1, <1>2, <1>3, <1>4, <1>5, <1>6, <1>7, <1>8 DEF Invariant

\* A step that leaves the shells alone, and does not leave a fit behind.
LEMMA ShellsSame ==
    ASSUME Invariant, NEW h \in Handler, NEW q, UNCHANGED shell, ~At(h, "fit")
    PROVE  ShellsKept(h, q) /\ PumpsKept(h, q)
BY DEF Invariant, TypeOK, ShellsKept, PumpsKept

\* A step that leaves the locks alone.
LEMMA LocksSame ==
    ASSUME Invariant, NEW h \in Handler, NEW q, UNCHANGED lock,
           \/ thread[h].at \notin {"type", "size", "close", "mark", "told"}
           \/ q.s = My(h) /\ q.at \in {"close", "mark", "told"},
           q.at \notin {"type", "size"}
    PROVE  LocksKept(h, q)
BY DEF Invariant, TypeOK, LocksKept

\* The events of a handler that is at work are none.
LEMMA EventsAre ==
    ASSUME Invariant
    PROVE  events \in 0 .. MaxEvents /\ (Arrives => events' \in 0 .. MaxEvents)
BY TerminalAssumption DEF Invariant, TypeOK, Arrives

-----------------------------------------------------------------------------
(* terminal:open.                                                            *)

LEMMA NewShellIs ==
    ASSUME NEW d \in Device
    PROVE  NewShell(d) \in Shell /\ ~NewShell(d).alive /\ ~NewShell(d).told
BY DEF NewShell, Shell

\* A new session: in the registry, with nobody else to start it.
LEMMA FreshInv ==
    ASSUME Invariant, NEW h \in Handler, NEW d \in Device,
           At(h, "idle"), made < MaxSessions, made' = made + 1, registered' = made',
           shell' = [shell EXCEPT ![made'] = NewShell(d)],
           thread' = [thread EXCEPT ![h] = FirstClose(registered, made')],
           events' \in 0 .. MaxEvents, UNCHANGED lock
    PROVE  Invariant'
<1> DEFINE n == made + 1
<1>1. /\ made \in Nat /\ n \in Session /\ n \in Nat /\ n <= MaxSessions /\ 0 \notin Session
      /\ made' = n /\ registered' = n /\ registered \in 0 .. made
  BY SessionsAre DEF Invariant, Session
<1>2. PICK q : q = FirstClose(registered, n)
  OBVIOUS
<1>3. /\ q \in Thread /\ q.at \in {"connect", "close"} /\ q.next \in {0, n}
      /\ q.next # 0 => q.at = "close"
      /\ q.at = "connect" => q.s = n /\ registered = 0
      /\ q.at = "close" => q.s = registered /\ registered # 0
  <2>1. n \in 0 .. MaxSessions /\ registered \in 0 .. MaxSessions /\ 0 \in 0 .. MaxSessions
    BY <1>1, SessionsAre DEF Invariant
  <2> HIDE DEF n
  <2>2. CASE registered = 0
    <3>1. q = [at |-> "connect", s |-> n, next |-> 0]
      BY <1>2, <2>2 DEF FirstClose
    <3> QED
      BY <2>1, <2>2, <3>1 DEF Thread, Place
  <2>3. CASE registered # 0
    <3>1. q = [at |-> "close", s |-> registered, next |-> n]
      BY <1>2, <2>3 DEF FirstClose
    <3> QED
      BY <2>1, <2>3, <3>1 DEF Thread, Place
  <2> QED
    BY <2>2, <2>3
<1>4. Becomes(h, q)
  BY <1>1, <1>2, <1>3 DEF Becomes, Invariant, TypeOK
<1>5. /\ shell' \in [Session -> Shell]
      /\ ~shell'[n].alive
      /\ \A s \in Session : s # n => shell'[s] = shell[s]
  <2>1. shell' = [shell EXCEPT ![n] = NewShell(d)]
    BY <1>1
  <2> HIDE DEF n
  <2> QED
    BY <1>1, <2>1, NewShellIs DEF Invariant, TypeOK
<1> HIDE DEF n
<1>6. \A s \in Session : (Starts(q, s) => s = n) /\ ~Closes(thread[h], s)
  <2>1. thread[h].at = "idle"
    BY DEF At
  <2> QED
    BY <1>1, <1>3, <2>1 DEF Starts, Awaits, Closes, ClosePlace
<1>7. \A g \in Handler : g # h => ~Starts(thread[g], n)
  <2> SUFFICES ASSUME NEW g \in Handler, Starts(thread[g], n)
               PROVE  FALSE
    OBVIOUS
  <2>1. thread[g].next \in 0 .. made /\ (thread[g].at # "idle" => thread[g].s \in 1 .. made)
    BY DEF Invariant, InHand, HandOK, At, My
  <2> QED
    BY <1>1, <2>1 DEF Starts, Awaits, n
<1>8. TypeOK'
  <2>1. \A s \in Session, g \in Handler : lock[s] = g => g # h
    BY DEF Invariant, TypeOK, At
  <2>2. \A s \in Session, g \in Handler : lock'[s] = g =>
           thread'[g].s = s /\ thread'[g].at \in {"type", "size", "close", "mark", "told"}
    BY <1>4, <2>1 DEF Invariant, TypeOK, Becomes, My
  <2>3. registered' \in 0 .. made' /\ made' \in 0 .. MaxSessions
    BY <1>1, SessionsAre DEF Invariant
  <2> QED
    BY <1>4, <1>5, <2>2, <2>3 DEF Invariant, TypeOK, Becomes, My
<1>9. InHand'
  <2> SUFFICES ASSUME NEW g \in Handler
               PROVE  /\ thread'[g].at # "idle" => thread'[g].s \in 1 .. made'
                      /\ thread'[g].next \in 0 .. made'
                      /\ thread'[g].next # 0 => thread'[g].at \in ClosePlace
    BY DEF InHand, HandOK
  <2>1. CASE g = h
    BY <1>1, <1>3, <1>4, <2>1 DEF Becomes, ClosePlace
  <2>2. CASE g # h
    <3>1. thread'[g] = thread[g]
      BY <1>4, <2>2 DEF Becomes
    <3>2. /\ thread[g].at # "idle" => thread[g].s \in 1 .. made
          /\ thread[g].next \in 0 .. made
          /\ thread[g].next # 0 => thread[g].at \in ClosePlace
      BY DEF Invariant, InHand, HandOK, At, My
    <3>3. 1 .. made \subseteq 1 .. made' /\ 0 .. made \subseteq 0 .. made'
      BY <1>1
    <3> QED
      BY <3>1, <3>2, <3>3
  <2> QED
    BY <2>1, <2>2
<1>10. Followed'
  <2> SUFFICES ASSUME NEW s \in 1 .. n, s # n
               PROVE  Closing(s)' \/ shell'[s].told
    BY <1>1 DEF Followed
  <2>1. s \in 1 .. made /\ s \in Session
    <3>1. s \in Int /\ 1 <= s /\ s <= made + 1 /\ s # made + 1
      BY <1>1 DEF n
    <3> QED
      BY <1>1, <3>1, SessionsAre DEF Invariant, Session
  <2>2. registered = s \/ Closing(s) \/ shell[s].told
    BY <2>1 DEF Invariant, Followed
  <2>3. CASE registered = s
    <3>1. q.s = s /\ q.at = "close"
      BY <1>1, <1>3, <2>1, <2>3
    <3> QED
      BY <1>4, <3>1 DEF Closing, Becomes, My
  <2>4. CASE shell[s].told
    BY <1>5, <2>1, <2>4
  <2>5. ASSUME NEW g \in Handler, Closes(thread[g], s)
        PROVE  Closing(s)'
    <3>1. thread'[g] = thread[g]
      BY <1>4, <1>6, <2>1, <2>5 DEF Becomes
    <3> QED
      BY <2>5, <3>1 DEF Closing, Closes, ClosePlace, My
  <2> QED
    BY <2>2, <2>3, <2>4, <2>5 DEF Closing, Closes, ClosePlace, My
<1>11. Unmade'
  <2> SUFFICES ASSUME NEW s \in Session, s > n
               PROVE  ~shell'[s].alive
    BY <1>1 DEF Unmade
  <2>1. s > made /\ s # n
    BY <1>1 DEF n, Session
  <2> QED
    BY <1>5, <2>1 DEF Invariant, Unmade
<1>12. OneStarter'
  <2> SUFFICES ASSUME NEW s \in Session, NEW g \in Handler, NEW k \in Handler,
                      Starts(thread'[g], s), Starts(thread'[k], s)
               PROVE  g = k
    BY DEF OneStarter
  <2> QED
    BY <1>4, <1>6, <1>7 DEF Invariant, OneStarter, Becomes
<1>13. NotYetAlive'
  <2> SUFFICES ASSUME NEW s \in Session, NEW g \in Handler, Awaits(thread'[g], s)
               PROVE  ~shell'[s].alive
    BY DEF NotYetAlive
  <2>1. CASE s = n
    BY <1>5, <2>1
  <2>2. CASE s # n
    <3>1. g # h
      BY <1>4, <1>6, <2>2 DEF Becomes, Starts
    <3> QED
      BY <1>4, <1>5, <2>2, <3>1 DEF Invariant, NotYetAlive, Becomes
  <2> QED
    BY <2>1, <2>2
<1>14. SendersHold'
  BY <1>3, <1>4 DEF Invariant, SendersHold, Becomes, My
<1>15. LiveHasPump'
  <2> SUFFICES ASSUME NEW s \in Session, Mute(shell'[s])
               PROVE  \E g \in Handler : At(g, "fit")' /\ thread'[g].s = s
    BY DEF LiveHasPump, Alive, Mute, Answers, My
  <2>1. s # n /\ shell'[s] = shell[s]
    BY <1>5 DEF Mute
  <2>2. PICK g \in Handler : At(g, "fit") /\ My(g) = s
    BY <2>1 DEF Invariant, LiveHasPump, Alive, Mute, Answers
  <2>3. thread'[g] = thread[g]
    BY <1>4, <2>2 DEF Becomes, At
  <2> QED
    BY <2>2, <2>3 DEF At, My
<1> QED
  BY <1>8, <1>9, <1>10, <1>11, <1>12, <1>13, <1>14, <1>15 DEF Invariant

LEMMA OpenInv ==
    ASSUME Invariant, NEW h \in Handler, NEW d \in Device, Open(h, d)
    PROVE  Invariant'
<1>1. CASE registered # 0 /\ Reusable(registered, d)
  <2>1. /\ UNCHANGED <<registered, made, shell, thread, lock>> /\ At(h, "idle")
        /\ events' \in 0 .. MaxEvents
    BY <1>1, EventsAre DEF Open
  <2>2. Becomes(h, thread[h])
    BY <2>1 DEF Becomes, Invariant, TypeOK
  <2>3. LocksKept(h, thread[h])
    BY <2>1, LocksSame DEF At
  <2>4. ShellsKept(h, thread[h]) /\ PumpsKept(h, thread[h])
    BY <2>1, ShellsSame DEF At
  <2>5. thread[h] \in Thread /\ HandOK(thread[h])
    BY DEF Invariant, TypeOK, InHand
  <2> QED
    BY <2>1, <2>2, <2>3, <2>4, <2>5, StepInv
<1>2. CASE ~(registered # 0 /\ Reusable(registered, d))
  <2>1. /\ At(h, "idle") /\ made < MaxSessions /\ made' = made + 1 /\ registered' = made'
        /\ shell' = [shell EXCEPT ![made'] = NewShell(d)]
        /\ thread' = [thread EXCEPT ![h] = FirstClose(registered, made')]
        /\ UNCHANGED lock /\ events' \in 0 .. MaxEvents
    BY <1>2, EventsAre DEF Open
  <2> QED
    BY <2>1, FreshInv
<1> QED
  BY <1>1, <1>2

LEMMA ConnectInv ==
    ASSUME Invariant, NEW h \in Handler, Connect(h)
    PROVE  Invariant'
<1> DEFINE n == My(h)
<1>1. /\ At(h, "connect") /\ n \in 1 .. made /\ n \in Session
      /\ UNCHANGED <<registered, made, lock, events>>
      /\ thread[h].next = 0 /\ events \in 0 .. MaxEvents
  BY SessionsAre, EventsAre DEF Connect, Invariant, InHand, HandOK, ClosePlace, At, My
<1>2. CASE Done(h) /\ UNCHANGED shell
  <2>1. Becomes(h, Idle)
    BY <1>2, DoneChanges DEF Invariant
  <2>2. LocksKept(h, Idle)
    BY <1>1, LocksSame, IdleIs DEF At
  <2>3. ShellsKept(h, Idle) /\ PumpsKept(h, Idle)
    BY <1>1, <1>2, ShellsSame DEF At
  <2>4. \A s \in Session : ~Closes(thread[h], s)
    BY <1>1 DEF Closes, ClosePlace, At
  <2>5. HandOK(Idle) /\ \A s \in 1 .. made : s \in Session
    BY SessionsAre, IdleIs DEF Invariant, HandOK
  <2> QED
    BY <1>1, <2>1, <2>2, <2>3, <2>4, <2>5, IdleIs, IdleStarts, StepInv
<1>3. CASE shell' = [shell EXCEPT ![My(h)].conn = "open"] /\ To(h, "live")
  <2>1. "live" \in Place
    BY DEF Place
  <2>2. PICK q \in Thread :
           Becomes(h, q) /\ q.at = "live" /\ q.s = n /\ q.next = thread[h].next
    BY <1>3, <2>1, ToChanges DEF Invariant
  <2>3. LocksKept(h, q)
    BY <1>1, <2>2, LocksSame DEF At
  <2>4. /\ shell' \in [Session -> Shell]
        /\ \A s \in Session : shell'[s].alive = shell[s].alive /\ shell'[s].told = shell[s].told
        /\ \A s \in Session : s # n => shell'[s] = shell[s]
    BY <1>1, <1>3 DEF Invariant, TypeOK, Shell
  <2>5. ShellsKept(h, q)
    BY <2>4 DEF ShellsKept
  <2>6. ~shell'[n].alive
    BY <1>1, <2>4 DEF Invariant, NotYetAlive, Awaits, At, My
  <2>7. PumpsKept(h, q)
    BY <1>1, <2>4, <2>6 DEF PumpsKept, Mute, At
  <2>8. \A s \in Session : /\ Awaits(q, s) => Awaits(thread[h], s)
                           /\ Starts(q, s) => Starts(thread[h], s)
                           /\ ~Closes(thread[h], s)
    BY <1>1, <2>2 DEF Awaits, Starts, Closes, ClosePlace, At, My
  <2>9. HandOK(q) /\ \A s \in 1 .. made : s \in Session
    BY <1>1, <2>2, SessionsAre DEF Invariant, HandOK
  <2> QED
    BY <1>1, <2>2, <2>3, <2>5, <2>7, <2>8, <2>9, StepInv
<1> QED
  BY <1>2, <1>3 DEF Connect

\* The session is up: with its pump, or with the geometry to send first.
LEMMA GoLiveInv ==
    ASSUME Invariant, NEW h \in Handler, GoLive(h)
    PROVE  Invariant'
<1> DEFINE n == My(h)  up == [shell[n] EXCEPT !.alive = TRUE]
<1>1. /\ At(h, "live") /\ n \in 1 .. made /\ n \in Session
      /\ UNCHANGED <<registered, made, lock, events>>
      /\ thread[h].next = 0 /\ events \in 0 .. MaxEvents
  BY SessionsAre, EventsAre DEF GoLive, Invariant, InHand, HandOK, ClosePlace, At, My
<1>2. shell[n] \in Shell
  BY <1>1 DEF Invariant, TypeOK
<1>3. /\ up \in Shell /\ up.told = shell[n].told
      /\ StartPump(up) \in Shell /\ StartPump(up).told = shell[n].told
      /\ StartPump(up).pump = "runs"
  BY <1>2 DEF Shell, StartPump
<1>4. PICK x \in Shell, q \in Thread :
         /\ shell' = [shell EXCEPT ![n] = x] /\ x.told = shell[n].told
         /\ Becomes(h, q)
         /\ \/ q.at = "fit" /\ q.s = n /\ q.next = thread[h].next
            \/ q = Idle /\ x.pump = "runs"
  <2>1. "fit" \in Place
    BY DEF Place
  <2>2. CASE up.sized
    <3>1. shell' = [shell EXCEPT ![n] = up] /\ To(h, "fit")
      BY <2>2 DEF GoLive
    <3>2. PICK q \in Thread :
             Becomes(h, q) /\ q.at = "fit" /\ q.s = n /\ q.next = thread[h].next
      BY <2>1, <3>1, ToChanges DEF Invariant
    <3> HIDE DEF up
    <3> QED
      BY <1>3, <3>1, <3>2
  <2>3. CASE ~up.sized
    <3>1. shell' = [shell EXCEPT ![n] = StartPump(up)] /\ Done(h)
      BY <2>3 DEF GoLive
    <3>2. Becomes(h, Idle)
      BY <3>1, DoneChanges DEF Invariant
    <3> HIDE DEF up
    <3> QED
      BY <1>3, <3>1, <3>2, IdleIs
  <2> QED
    BY <2>2, <2>3
<1>5. /\ shell' \in [Session -> Shell] /\ shell'[n] = x
      /\ \A s \in Session : s # n => shell'[s] = shell[s]
  BY <1>1, <1>4 DEF Invariant, TypeOK
<1>6. \A s \in Session : /\ Awaits(q, s) => Awaits(thread[h], s)
                         /\ Starts(q, s) => Starts(thread[h], s)
                         /\ ~Closes(thread[h], s)
  BY <1>1, <1>4, IdleStarts DEF Awaits, Starts, Closes, ClosePlace, At, My
<1>7. ~Awaits(q, n) /\ Starts(thread[h], n)
  <2>1. Starts(thread[h], n)
    BY <1>1 DEF Starts, At, My
  <2>2. CASE q = Idle
    BY <1>1, <2>1, <2>2, IdleStarts
  <2>3. CASE q.at = "fit" /\ q.next = thread[h].next
    BY <1>1, <2>1, <2>3, SessionsAre DEF Awaits, Invariant
  <2> QED
    BY <1>4, <2>1, <2>2, <2>3
<1>8. n <= made
  BY <1>1, SessionsAre DEF Invariant
<1>9. ShellsKept(h, q)
  BY <1>4, <1>5, <1>7, <1>8 DEF ShellsKept
<1>10. PumpsKept(h, q)
  BY <1>1, <1>4, <1>5 DEF PumpsKept, Mute, Answers, At
<1>11. LocksKept(h, q)
  BY <1>1, <1>4, LocksSame, IdleIs DEF At
<1>12. HandOK(q) /\ \A s \in 1 .. made : s \in Session
  BY <1>1, <1>4, IdleIs, SessionsAre DEF Invariant, HandOK
<1> HIDE DEF n, up
<1> QED
  BY <1>1, <1>4, <1>6, <1>9, <1>10, <1>11, <1>12, StepInv

LEMMA FitInv ==
    ASSUME Invariant, NEW h \in Handler, Fit(h)
    PROVE  Invariant'
<1> DEFINE n == My(h)
<1>1. /\ At(h, "fit") /\ n \in 1 .. made /\ n \in Session
      /\ UNCHANGED <<registered, made, lock, events>> /\ events \in 0 .. MaxEvents
  BY SessionsAre, EventsAre DEF Fit, Invariant, InHand, HandOK, At, My
<1>2. Becomes(h, Idle)
  BY DoneChanges DEF Fit, Invariant
<1>3. /\ shell' \in [Session -> Shell]
      /\ \A s \in Session : s # n => shell'[s] = shell[s]
      /\ shell'[n].alive = shell[n].alive /\ shell'[n].told = shell[n].told
      /\ shell[n].conn = "open" => shell'[n].pump = "runs"
      /\ shell'[n].conn = shell[n].conn
  <2>1. shell \in [Session -> Shell]
    BY DEF Invariant, TypeOK
  <2>2. CASE shell[n].conn = "open"
    <3>1. shell' = [shell EXCEPT ![n] = StartPump(@)]
      BY <2>2 DEF Fit
    <3>2. shell[n] \in Shell
      BY <1>1, <2>1
    <3>3. PICK x : x = StartPump(shell[n])
      OBVIOUS
    <3>4. /\ x \in Shell /\ x.pump = "runs"
          /\ x.alive = shell[n].alive /\ x.told = shell[n].told /\ x.conn = shell[n].conn
      BY <3>2, <3>3 DEF StartPump, Shell
    <3>5. shell' = [shell EXCEPT ![n] = x]
      BY <3>1, <3>3
    <3> QED
      BY <1>1, <2>1, <3>4, <3>5
  <2>3. CASE shell[n].conn # "open"
    BY <2>1, <2>3 DEF Fit
  <2> QED
    BY <2>2, <2>3
<1>4. \A s \in Session : ~Closes(thread[h], s)
  BY <1>1 DEF Closes, ClosePlace, At
<1>5. ShellsKept(h, Idle)
  <2>1. \A s \in Session : shell'[s].told = shell[s].told /\ shell'[s].alive = shell[s].alive
    BY <1>3
  <2> QED
    BY <1>3, <2>1 DEF ShellsKept
<1>6. PumpsKept(h, Idle)
  BY <1>1, <1>3 DEF PumpsKept, Mute, Answers
<1>7. LocksKept(h, Idle)
  BY <1>1, LocksSame, IdleIs DEF At
<1>8. HandOK(Idle) /\ \A s \in 1 .. made : s \in Session
  BY SessionsAre, IdleIs DEF Invariant, HandOK
<1> QED
  BY <1>1, <1>2, <1>4, <1>5, <1>6, <1>7, <1>8, IdleIs, IdleStarts, StepInv

-----------------------------------------------------------------------------
(* terminal:input and terminal:resize.                                       *)

\* Whoever takes a session in hand from the registry.
InHandOf(place, s) == [at |-> place, s |-> s, next |-> 0]

LEMMA InHandIs ==
    ASSUME TypeOK, NEW place \in Place, NEW s \in 0 .. made
    PROVE  /\ InHandOf(place, s) \in Thread
           /\ InHandOf(place, s).at = place /\ InHandOf(place, s).s = s
           /\ InHandOf(place, s).next = 0
<1>1. s \in 0 .. MaxSessions /\ 0 \in 0 .. MaxSessions
  BY SessionsAre
<1> QED
  BY <1>1 DEF InHandOf, Thread

LEMMA InputInv ==
    ASSUME Invariant, NEW h \in Handler, Input(h)
    PROVE  Invariant'
<1>1. /\ At(h, "idle") /\ UNCHANGED <<registered, made, shell, lock>>
      /\ events' \in 0 .. MaxEvents
      /\ registered \in 1 .. made
  BY EventsAre, SessionsAre DEF Input, Invariant
<1>2. PICK q : q = InHandOf("input", registered)
  OBVIOUS
<1>3. q \in Thread /\ q.at = "input" /\ q.s = registered /\ q.next = 0
  <2>1. "input" \in Place /\ registered \in 0 .. made
    BY SessionsAre DEF Place, Invariant
  <2> QED
    BY <1>2, <2>1, InHandIs DEF Invariant
<1>4. Becomes(h, q)
  BY <1>2, <1>3 DEF Input, InHandOf, Becomes, Invariant, TypeOK
<1>5. LocksKept(h, q)
  BY <1>1, <1>3, LocksSame DEF At
<1>6. ShellsKept(h, q) /\ PumpsKept(h, q)
  BY <1>1, ShellsSame DEF At
<1>7. HandOK(q)
  BY <1>1, <1>3, SessionsAre DEF HandOK, Invariant
<1>8. \A s \in Session : ~Awaits(q, s) /\ ~Starts(q, s) /\ ~Closes(thread[h], s)
  BY <1>1, <1>3, SessionsAre DEF Awaits, Starts, Closes, ClosePlace, At, Invariant
<1>9. \A s \in 1 .. made : s \in Session
  BY SessionsAre DEF Invariant
<1> QED
  BY <1>1, <1>3, <1>4, <1>5, <1>6, <1>7, <1>8, <1>9, StepInv

LEMMA ResizeInv ==
    ASSUME Invariant, NEW h \in Handler, Resize(h)
    PROVE  Invariant'
<1>1. /\ At(h, "idle") /\ UNCHANGED <<registered, made, lock>>
      /\ events' \in 0 .. MaxEvents
      /\ registered \in 1 .. made /\ registered \in Session
      /\ shell' = [shell EXCEPT ![registered].sized = TRUE]
  BY EventsAre, SessionsAre DEF Resize, Invariant
<1>2. PICK q : q = InHandOf("resize", registered)
  OBVIOUS
<1>3. q \in Thread /\ q.at = "resize" /\ q.s = registered /\ q.next = 0
  <2>1. "resize" \in Place /\ registered \in 0 .. made
    BY SessionsAre DEF Place, Invariant
  <2> QED
    BY <1>2, <2>1, InHandIs DEF Invariant
<1>4. Becomes(h, q)
  BY <1>2, <1>3 DEF Resize, InHandOf, Becomes, Invariant, TypeOK
<1>5. LocksKept(h, q)
  BY <1>1, <1>3, LocksSame DEF At
<1>6. /\ shell' \in [Session -> Shell]
      /\ \A s \in Session :
            /\ shell'[s].alive = shell[s].alive /\ shell'[s].told = shell[s].told
            /\ shell'[s].conn = shell[s].conn /\ shell'[s].pump = shell[s].pump
  BY <1>1, ZenonT(60) DEF Invariant, TypeOK, Shell
<1>7. ShellsKept(h, q) /\ PumpsKept(h, q)
  BY <1>1, <1>6 DEF ShellsKept, PumpsKept, Mute, Answers, At
<1>8. HandOK(q)
  BY <1>1, <1>3, SessionsAre DEF HandOK, Invariant
<1>9. \A s \in Session : ~Awaits(q, s) /\ ~Starts(q, s) /\ ~Closes(thread[h], s)
  BY <1>1, <1>3, SessionsAre DEF Awaits, Starts, Closes, ClosePlace, At, Invariant
<1>10. \A s \in 1 .. made : s \in Session
  BY SessionsAre DEF Invariant
<1> QED
  BY <1>1, <1>3, <1>4, <1>5, <1>7, <1>8, <1>9, <1>10, StepInv

LEMMA WriteInv ==
    ASSUME Invariant, NEW h \in Handler, Write(h)
    PROVE  Invariant'
<1> DEFINE n == My(h)
<1>1. PICK place \in {"type", "size"} :
         /\ To(h, place) /\ thread[h].at \in {"input", "resize"}
  BY DEF Write, At
<1>2. /\ Take(h) /\ UNCHANGED <<registered, made, shell, events>>
      /\ events \in 0 .. MaxEvents
  BY EventsAre DEF Write
<1>3. n \in 1 .. made /\ n \in Session /\ thread[h].next = 0
  BY <1>1, SessionsAre DEF Invariant, InHand, HandOK, ClosePlace, My
<1>4. place \in Place
  BY DEF Place
<1>5. PICK q \in Thread :
         Becomes(h, q) /\ q.at = place /\ q.s = n /\ q.next = thread[h].next
  BY <1>1, <1>4, ToChanges DEF Invariant
<1>6. lock[n] = Free /\ lock' = [lock EXCEPT ![n] = h] /\ Free \notin Handler
  BY <1>2, TerminalAssumption DEF Take
<1>7. \A s \in Session : lock[s] # h
  BY <1>1 DEF Invariant, TypeOK
<1>8. LocksKept(h, q)
  BY <1>3, <1>5, <1>6, <1>7 DEF LocksKept, Invariant, TypeOK
<1>9. ShellsKept(h, q) /\ PumpsKept(h, q)
  BY <1>1, <1>2, ShellsSame DEF At
<1>10. HandOK(q)
  BY <1>3, <1>5, SessionsAre DEF HandOK, Invariant
<1>11. \A s \in Session : ~Awaits(q, s) /\ ~Starts(q, s) /\ ~Closes(thread[h], s)
  BY <1>1, <1>3, <1>5, SessionsAre DEF Awaits, Starts, Closes, ClosePlace, Invariant
<1>12. \A s \in 1 .. made : s \in Session
  BY SessionsAre DEF Invariant
<1> QED
  BY <1>2, <1>5, <1>8, <1>9, <1>10, <1>11, <1>12, StepInv

\* The section of a write ends: what it held is free again.
LEMMA LetGo ==
    ASSUME Invariant, NEW h \in Handler, thread[h].at \in {"type", "size"},
           Release(h), Done(h), UNCHANGED <<registered, made, shell, events>>
    PROVE  Invariant'
<1> DEFINE n == My(h)
<1>1. n \in 1 .. made /\ n \in Session /\ lock[n] = h /\ events \in 0 .. MaxEvents
  BY SessionsAre, EventsAre DEF Invariant, InHand, HandOK, SendersHold, My
<1>2. Becomes(h, Idle)
  BY DoneChanges DEF Invariant
<1>3. lock' = [lock EXCEPT ![n] = Free] /\ Free \notin Handler
  BY TerminalAssumption DEF Release
<1>4. \A s \in Session : lock[s] = h => s = n
  BY DEF Invariant, TypeOK, My
<1>5. LocksKept(h, Idle)
  BY <1>1, <1>3, <1>4, IdleIs DEF LocksKept, Invariant, TypeOK
<1>6. ShellsKept(h, Idle) /\ PumpsKept(h, Idle)
  BY ShellsSame DEF At
<1>7. HandOK(Idle) /\ \A s \in 1 .. made : s \in Session
  BY SessionsAre, IdleIs DEF Invariant, HandOK
<1>8. \A s \in Session : ~Closes(thread[h], s)
  BY DEF Closes, ClosePlace
<1> QED
  BY <1>1, <1>2, <1>5, <1>6, <1>7, <1>8, IdleIs, IdleStarts, StepInv

LEMMA TypeInv ==
    ASSUME Invariant, NEW h \in Handler, Type(h)
    PROVE  Invariant'
<1>1. At(h, "type") /\ UNCHANGED <<registered, made, shell, events>>
  BY DEF Type
<1>2. CASE Release(h) /\ Done(h)
  BY <1>1, <1>2, LetGo DEF At
<1>3. CASE To(h, "close") /\ UNCHANGED lock
  <2>1. "close" \in Place
    BY DEF Place
  <2>2. PICK q \in Thread :
           Becomes(h, q) /\ q.at = "close" /\ q.s = My(h) /\ q.next = thread[h].next
    BY <1>3, <2>1, ToChanges DEF Invariant
  <2>3. My(h) \in 1 .. made /\ thread[h].next = 0 /\ events \in 0 .. MaxEvents
    BY <1>1, EventsAre DEF Invariant, InHand, HandOK, ClosePlace, At, My
  <2>4. LocksKept(h, q)
    BY <1>3, <2>2, LocksSame
  <2>5. ShellsKept(h, q) /\ PumpsKept(h, q)
    BY <1>1, ShellsSame DEF At
  <2>6. HandOK(q)
    BY <2>2, <2>3, SessionsAre DEF HandOK, Invariant
  <2>7. \A s \in Session : ~Awaits(q, s) /\ ~Starts(q, s) /\ ~Closes(thread[h], s)
    BY <1>1, <2>2, <2>3, SessionsAre DEF Awaits, Starts, Closes, ClosePlace, Invariant, At
  <2>8. \A s \in 1 .. made : s \in Session
    BY SessionsAre DEF Invariant
  <2> QED
    BY <1>1, <2>2, <2>3, <2>4, <2>5, <2>6, <2>7, <2>8, StepInv
<1> QED
  BY <1>2, <1>3 DEF Type

LEMMA SizeInv ==
    ASSUME Invariant, NEW h \in Handler, Size(h)
    PROVE  Invariant'
BY LetGo DEF Size, At

-----------------------------------------------------------------------------
(* terminal:close.                                                           *)

LEMMA CloseInv ==
    ASSUME Invariant, NEW h \in Handler, Close(h)
    PROVE  Invariant'
<1>1. /\ At(h, "idle") /\ UNCHANGED <<made, shell, lock>>
      /\ events' \in 0 .. MaxEvents
      /\ registered \in 1 .. made /\ registered' = 0
  BY EventsAre, SessionsAre DEF Close, Invariant
<1>2. PICK q : q = InHandOf("close", registered)
  OBVIOUS
<1>3. q \in Thread /\ q.at = "close" /\ q.s = registered /\ q.next = 0
  <2>1. "close" \in Place /\ registered \in 0 .. made
    BY SessionsAre DEF Place, Invariant
  <2> QED
    BY <1>2, <2>1, InHandIs DEF Invariant
<1>4. Becomes(h, q)
  BY <1>2, <1>3 DEF Close, InHandOf, Becomes, Invariant, TypeOK
<1>5. LocksKept(h, q)
  BY <1>1, <1>3, LocksSame DEF At
<1>6. ShellsKept(h, q) /\ PumpsKept(h, q)
  BY <1>1, ShellsSame DEF At
<1>7. HandOK(q)
  BY <1>1, <1>3, SessionsAre DEF HandOK, Invariant
<1>8. \A s \in Session : /\ ~Awaits(q, s) /\ ~Starts(q, s) /\ ~Closes(thread[h], s)
                         /\ registered = s => Closes(q, s)
  BY <1>1, <1>3, SessionsAre DEF Awaits, Starts, Closes, ClosePlace, At, Invariant
<1>9. \A s \in 1 .. made : s \in Session
  BY SessionsAre DEF Invariant
<1> QED
  BY <1>1, <1>3, <1>4, <1>5, <1>6, <1>7, <1>8, <1>9, StepInv

\* A close that goes on with the session it has in hand.
LEMMA GoesOn ==
    ASSUME Invariant, NEW h \in Handler, thread[h].at \in ClosePlace,
           NEW place \in ClosePlace, To(h, place),
           UNCHANGED <<registered, made, events>>,
           \A q \in Thread : Becomes(h, q) /\ q.at = place /\ q.s = My(h)
                             => LocksKept(h, q) /\ ShellsKept(h, q) /\ PumpsKept(h, q)
    PROVE  Invariant'
<1>1. place \in Place
  BY DEF Place, ClosePlace
<1>2. PICK q \in Thread :
         Becomes(h, q) /\ q.at = place /\ q.s = My(h) /\ q.next = thread[h].next
  BY <1>1, ToChanges DEF Invariant
<1>3. My(h) \in 1 .. made /\ thread[h].next \in 0 .. made /\ events \in 0 .. MaxEvents
  BY EventsAre DEF Invariant, InHand, HandOK, ClosePlace, My
<1>4. HandOK(q)
  BY <1>2, <1>3 DEF HandOK
<1>5. \A s \in Session : /\ Awaits(q, s) => Awaits(thread[h], s)
                         /\ Starts(q, s) => Starts(thread[h], s)
                         /\ Closes(thread[h], s) => Closes(q, s)
  BY <1>2 DEF Awaits, Starts, Closes, ClosePlace, My
<1>6. \A s \in 1 .. made : s \in Session
  BY SessionsAre DEF Invariant
<1>7. LocksKept(h, q) /\ ShellsKept(h, q) /\ PumpsKept(h, q)
  BY <1>2
<1> QED
  BY <1>2, <1>3, <1>4, <1>5, <1>6, <1>7, StepInv

LEMMA BeginCloseInv ==
    ASSUME Invariant, NEW h \in Handler, BeginClose(h)
    PROVE  Invariant'
<1> DEFINE n == My(h)
<1>1. /\ At(h, "close") /\ thread[h].at \in ClosePlace /\ n \in Session
      /\ UNCHANGED <<registered, made, events>>
      /\ lock[n] = Free /\ Free \notin Handler
  BY SessionsAre, TerminalAssumption
     DEF BeginClose, Invariant, InHand, HandOK, ClosePlace, At, My
<1>2. \A s \in Session : lock[s] # h
  BY <1>1 DEF Invariant, TypeOK, My
<1>3. lock \in [Session -> Handler \cup {Free}] /\ shell \in [Session -> Shell]
  BY DEF Invariant, TypeOK
<1>4. CASE shell[n].alive
  <2>1. shell' = [shell EXCEPT ![n].alive = FALSE] /\ To(h, "shut") /\ UNCHANGED lock
    BY <1>4 DEF BeginClose
  <2>2. /\ shell' \in [Session -> Shell]
        /\ \A s \in Session : shell'[s].told = shell[s].told
        /\ \A s \in Session : s # n => shell'[s] = shell[s]
        /\ ~shell'[n].alive
    BY <1>1, <1>3, <2>1, ZenonT(60) DEF Shell
  <2>3. ASSUME NEW q \in Thread, q.at = "shut"
        PROVE  LocksKept(h, q) /\ ShellsKept(h, q) /\ PumpsKept(h, q)
    <3>1. LocksKept(h, q)
      BY <1>2, <1>3, <2>1, <2>3 DEF LocksKept
    <3>2. \A s \in Session : shell'[s].alive => shell[s].alive
      BY <2>2
    <3>3. ShellsKept(h, q)
      BY <2>2, <3>2 DEF ShellsKept
    <3>4. PumpsKept(h, q)
      BY <1>1, <2>2 DEF PumpsKept, Mute, At
    <3> QED
      BY <3>1, <3>3, <3>4
  <2>4. "shut" \in ClosePlace
    BY DEF ClosePlace
  <2> QED
    BY <1>1, <2>1, <2>3, <2>4, GoesOn
<1>5. CASE ~shell[n].alive
  <2>1. lock' = [lock EXCEPT ![n] = h] /\ To(h, "mark") /\ UNCHANGED shell
    BY <1>5 DEF BeginClose, Take
  <2>2. ASSUME NEW q \in Thread, q.at = "mark", q.s = n
        PROVE  LocksKept(h, q) /\ ShellsKept(h, q) /\ PumpsKept(h, q)
    <3>1. LocksKept(h, q)
      BY <1>1, <1>2, <1>3, <2>1, <2>2 DEF LocksKept
    <3> QED
      BY <1>1, <2>1, <3>1, ShellsSame DEF At
  <2>3. "mark" \in ClosePlace
    BY DEF ClosePlace
  <2> QED
    BY <1>1, <2>1, <2>2, <2>3, GoesOn
<1> QED
  BY <1>4, <1>5

LEMMA ShutInv ==
    ASSUME Invariant, NEW h \in Handler, Shut(h)
    PROVE  Invariant'
<1> DEFINE n == My(h)
<1>1. /\ At(h, "shut") /\ thread[h].at \in ClosePlace /\ n \in Session
      /\ UNCHANGED <<registered, made, events, lock>>
      /\ To(h, "mark")
      /\ shell' = [shell EXCEPT ![n].conn = "shut"]
  BY SessionsAre DEF Shut, Invariant, InHand, HandOK, ClosePlace, At, My
<1>2. /\ shell' \in [Session -> Shell]
      /\ \A s \in Session : shell'[s].told = shell[s].told /\ shell'[s].alive = shell[s].alive
      /\ \A s \in Session : s # n => shell'[s] = shell[s]
      /\ shell'[n].conn # "open"
  BY <1>1 DEF Invariant, TypeOK, Shell
<1>3. ASSUME NEW q \in Thread, q.at = "mark", q.s = n
      PROVE  LocksKept(h, q) /\ ShellsKept(h, q) /\ PumpsKept(h, q)
  <2>1. LocksKept(h, q)
    BY <1>1, <1>3, LocksSame DEF At
  <2>2. ShellsKept(h, q)
    BY <1>2 DEF ShellsKept
  <2>3. PumpsKept(h, q)
    BY <1>1, <1>2 DEF PumpsKept, Mute, At
  <2> QED
    BY <2>1, <2>2, <2>3
<1>4. "mark" \in ClosePlace
  BY DEF ClosePlace
<1> QED
  BY <1>1, <1>3, <1>4, GoesOn

\* The tab was told: the close is over, and open goes on.
LEMMA Over ==
    ASSUME Invariant, NEW h \in Handler, thread[h].at \in {"mark", "told"}, AfterClose(h),
           UNCHANGED <<registered, made, events>>,
           shell' \in [Session -> Shell],
           shell'[My(h)].told,
           \A s \in Session : s # My(h) => shell'[s] = shell[s],
           shell'[My(h)].alive => shell[My(h)].alive
    PROVE  Invariant'
<1> DEFINE n == My(h)  m == thread[h].next
<1>1. /\ n \in 1 .. made /\ n \in Session /\ m \in 0 .. made
      /\ events \in 0 .. MaxEvents /\ Free \notin Handler
  BY SessionsAre, EventsAre, TerminalAssumption DEF Invariant, InHand, HandOK, My
<1>2. PICK q \in Thread :
         /\ Becomes(h, q)
         /\ \/ q = Idle
            \/ q.at = "connect" /\ q.s = m /\ q.next = 0 /\ m # 0
  <2>1. CASE m = 0
    <3>1. Done(h)
      BY <2>1 DEF AfterClose
    <3> QED
      BY <3>1, DoneChanges, IdleIs DEF Invariant
  <2>2. CASE m # 0
    <3>1. PICK q : q = InHandOf("connect", m)
      OBVIOUS
    <3>2. q \in Thread /\ q.at = "connect" /\ q.s = m /\ q.next = 0
      <4>1. "connect" \in Place
        BY DEF Place
      <4> QED
        BY <1>1, <3>1, <4>1, InHandIs DEF Invariant
    <3>3. thread' = [thread EXCEPT ![h] = q]
      BY <2>2, <3>1 DEF AfterClose, InHandOf
    <3>4. Becomes(h, q)
      BY <3>2, <3>3 DEF Becomes, Invariant, TypeOK
    <3> QED
      BY <2>2, <3>2, <3>4
  <2> QED
    BY <2>1, <2>2
<1>3. lock' = [lock EXCEPT ![n] = IF @ = h THEN Free ELSE @]
  BY DEF AfterClose
<1>4. \A s \in Session : lock[s] = h => s = n
  BY DEF Invariant, TypeOK, My
<1>5. LocksKept(h, q)
  <2>1. q.at \notin {"type", "size"}
    BY <1>2, IdleIs
  <2>2. lock \in [Session -> Handler \cup {Free}]
    BY DEF Invariant, TypeOK
  <2>3. lock' \in [Session -> Handler \cup {Free}]
    BY <1>1, <1>3, <2>2
  <2>4. \A s \in Session : lock'[s] = IF s = n /\ lock[s] = h THEN Free ELSE lock[s]
    BY <1>1, <1>3, <2>2
  <2> QED
    BY <1>1, <1>4, <2>1, <2>3, <2>4 DEF LocksKept
<1>6. ShellsKept(h, q)
  BY <1>1 DEF ShellsKept
<1>7. PumpsKept(h, q)
  BY <1>1 DEF PumpsKept, Mute, Answers, At
<1>8. HandOK(q)
  BY <1>1, <1>2, IdleIs, SessionsAre DEF HandOK, Invariant
<1>9. \A s \in Session : /\ Awaits(q, s) => Awaits(thread[h], s)
                         /\ Starts(q, s) => Starts(thread[h], s)
                         /\ Closes(thread[h], s) => s = n
  BY <1>2, IdleIs, SessionsAre DEF Awaits, Starts, Closes, My, Invariant
<1>10. \A s \in 1 .. made : s \in Session
  BY SessionsAre DEF Invariant
<1> QED
  BY <1>1, <1>2, <1>5, <1>6, <1>7, <1>8, <1>9, <1>10, StepInv

LEMMA MarkInv ==
    ASSUME Invariant, NEW h \in Handler, Mark(h)
    PROVE  Invariant'
<1>1. At(h, "mark") /\ thread[h].at \in ClosePlace
      /\ UNCHANGED <<registered, made, shell, events>>
  BY DEF Mark, ClosePlace, At
<1>2. CASE shell[My(h)].told
  <2>1. AfterClose(h)
    BY <1>2 DEF Mark
  <2>2. shell' \in [Session -> Shell]
    BY <1>1 DEF Invariant, TypeOK
  <2> QED
    BY <1>1, <1>2, <2>1, <2>2, Over DEF At
<1>3. CASE ~shell[My(h)].told
  <2>1. To(h, "told") /\ UNCHANGED lock /\ "told" \in ClosePlace
    BY <1>3 DEF Mark, ClosePlace
  <2>2. ASSUME NEW q \in Thread, q.at = "told", q.s = My(h)
        PROVE  LocksKept(h, q) /\ ShellsKept(h, q) /\ PumpsKept(h, q)
    <3>1. LocksKept(h, q)
      BY <2>1, <2>2, LocksSame
    <3> QED
      BY <1>1, <3>1, ShellsSame DEF At
  <2> QED
    BY <1>1, <2>1, <2>2, GoesOn
<1> QED
  BY <1>2, <1>3

LEMMA MarkedIs ==
    ASSUME NEW sh \in Shell
    PROVE  /\ Marked(sh) \in Shell /\ Marked(sh).told /\ ~Marked(sh).alive
           /\ [Marked(sh) EXCEPT !.pump = "ended"] \in Shell
           /\ [Marked(sh) EXCEPT !.pump = "ended"].told
           /\ ~[Marked(sh) EXCEPT !.pump = "ended"].alive
BY DEF Marked, Shell

LEMMA TellInv ==
    ASSUME Invariant, NEW h \in Handler, Tell(h)
    PROVE  Invariant'
<1>1. /\ At(h, "told") /\ My(h) \in Session /\ AfterClose(h)
      /\ UNCHANGED <<registered, made, events>>
      /\ shell' = [shell EXCEPT ![My(h)] = Marked(@)]
  BY SessionsAre DEF Tell, Invariant, InHand, HandOK, At, My
<1>2. shell \in [Session -> Shell]
  BY DEF Invariant, TypeOK
<1>3. PICK x : x = Marked(shell[My(h)])
  OBVIOUS
<1>4. x \in Shell /\ x.told /\ ~x.alive
  BY <1>1, <1>2, <1>3, MarkedIs
<1>5. /\ shell' \in [Session -> Shell] /\ shell'[My(h)] = x
      /\ \A s \in Session : s # My(h) => shell'[s] = shell[s]
  BY <1>1, <1>2, <1>3, <1>4
<1> QED
  BY <1>1, <1>4, <1>5, Over DEF At

-----------------------------------------------------------------------------
(* The device and the pump.                                                  *)

LEMMA PumpInv ==
    ASSUME Invariant, NEW n \in Session, NEW x \in Shell,
           shell' = [shell EXCEPT ![n] = x],
           UNCHANGED <<registered, made, lock, thread, events>>,
           x.alive => shell[n].alive, shell[n].told => x.told,
           Mute(x) => Mute(shell[n])
    PROVE  Invariant'
<1>1. /\ shell' \in [Session -> Shell] /\ shell'[n] = x
      /\ \A s \in Session : s # n => shell'[s] = shell[s]
  BY DEF Invariant, TypeOK
<1>2. TypeOK'
  BY <1>1 DEF Invariant, TypeOK, My
<1>3. InHand' /\ OneStarter' /\ SendersHold'
  BY DEF Invariant, InHand, HandOK, OneStarter, Starts, Awaits, SendersHold, My
<1>4. Followed'
  <2> SUFFICES ASSUME NEW s \in 1 .. made
               PROVE  registered = s \/ Closing(s)' \/ shell'[s].told
    BY DEF Followed
  <2>1. s \in Session
    BY SessionsAre DEF Invariant
  <2>2. registered = s \/ Closing(s) \/ shell[s].told
    BY DEF Invariant, Followed
  <2> QED
    BY <1>1, <2>1, <2>2 DEF Closing, My
<1>5. Unmade' /\ NotYetAlive'
  BY <1>1 DEF Invariant, Unmade, NotYetAlive, Awaits
<1>6. LiveHasPump'
  <2> SUFFICES ASSUME NEW s \in Session, Mute(shell'[s])
               PROVE  \E g \in Handler : At(g, "fit")' /\ thread'[g].s = s
    BY DEF LiveHasPump, Alive, Mute, Answers, My
  <2>1. Mute(shell[s])
    BY <1>1
  <2> QED
    BY <2>1 DEF Invariant, LiveHasPump, Alive, Mute, Answers, At, My
<1> QED
  BY <1>2, <1>3, <1>4, <1>5, <1>6 DEF Invariant

LEMMA EndedIs ==
    ASSUME NEW sh \in Shell, sh.pump = "runs"
    PROVE  /\ Ended(sh) \in Shell /\ Ended(sh).alive = sh.alive /\ Ended(sh).told = sh.told
           /\ ~Mute(Ended(sh))
BY DEF Ended, Shell, Mute, Answers

LEMMA DeviceInv ==
    ASSUME Invariant, NEW s \in Session,
           Drops(s) \/ PumpEof(s) \/ PumpLeaves(s) \/ PumpMarks(s)
    PROVE  Invariant'
<1>1. shell[s] \in Shell
  BY DEF Invariant, TypeOK
<1>2. CASE Drops(s)
  <2>1. PICK x : x = [shell[s] EXCEPT !.conn = "lost"]
    OBVIOUS
  <2>2. x \in Shell /\ x.alive = shell[s].alive /\ x.told = shell[s].told /\ x.conn = "lost"
    BY <1>1, <2>1 DEF Shell
  <2>3. shell' = [shell EXCEPT ![s] = x]
    BY <1>2, <2>1 DEF Drops
  <2> QED
    BY <1>2, <2>2, <2>3, PumpInv DEF Drops, Mute
<1>3. CASE PumpEof(s) \/ PumpLeaves(s)
  <2>1. PICK x : x = Ended(shell[s])
    OBVIOUS
  <2>2. /\ shell[s].pump = "runs" /\ shell' = [shell EXCEPT ![s] = x]
        /\ UNCHANGED <<registered, made, lock, thread, events>>
    BY <1>3, <2>1 DEF PumpEof, PumpLeaves
  <2>3. x \in Shell /\ x.alive = shell[s].alive /\ x.told = shell[s].told /\ ~Mute(x)
    BY <1>1, <2>1, <2>2, EndedIs
  <2> QED
    BY <2>2, <2>3, PumpInv
<1>4. CASE PumpMarks(s)
  <2>1. PICK x : x = [Marked(shell[s]) EXCEPT !.pump = "ended"]
    OBVIOUS
  <2>2. x \in Shell /\ x.told /\ ~x.alive
    BY <1>1, <2>1, MarkedIs
  <2>3. shell' = [shell EXCEPT ![s] = x]
    BY <1>4, <2>1 DEF PumpMarks
  <2> QED
    BY <1>4, <2>2, <2>3, PumpInv DEF PumpMarks, Mute
<1> QED
  BY <1>2, <1>3, <1>4

-----------------------------------------------------------------------------
(* The whole step.                                                           *)

LEMMA InitInv ==
    ASSUME Init
    PROVE  Invariant
<1>1. /\ 0 \in 0 .. MaxSessions /\ 0 \in 0 .. MaxEvents /\ 1 .. 0 = {}
      /\ 0 \notin Session /\ Free \notin Handler
  BY TerminalAssumption DEF Session
<1>2. NewShell(NoDevice) \in Shell /\ ~NewShell(NoDevice).alive
  BY DEF NewShell, Shell
<1>3. /\ registered = 0 /\ made = 0 /\ events = 0
      /\ \A s \in Session : shell[s] = NewShell(NoDevice)
      /\ \A h \in Handler : thread[h] = Idle
      /\ shell = [s \in Session |-> NewShell(NoDevice)]
      /\ lock = [s \in Session |-> Free]
      /\ thread = [h \in Handler |-> Idle]
  BY DEF Init
<1>4. TypeOK
  BY <1>1, <1>2, <1>3, IdleIs DEF TypeOK
<1>5. InHand
  BY <1>1, <1>3, IdleIs DEF InHand, HandOK
<1>6. Followed /\ Unmade
  BY <1>1, <1>2, <1>3 DEF Followed, Unmade
<1>7. OneStarter /\ NotYetAlive
  BY <1>3, IdleStarts DEF OneStarter, NotYetAlive
<1>8. SendersHold /\ LiveHasPump
  BY <1>2, <1>3, IdleIs DEF SendersHold, LiveHasPump, Alive
<1> QED
  BY <1>4, <1>5, <1>6, <1>7, <1>8 DEF Invariant

LEMMA NextInv ==
    ASSUME Invariant, Next
    PROVE  Invariant'
<1>1. ASSUME NEW h \in Handler, Event(h)
      PROVE  Invariant'
  BY <1>1, OpenInv, InputInv, ResizeInv, CloseInv DEF Event
<1>2. ASSUME NEW h \in Handler, HandlerStep(h)
      PROVE  Invariant'
  BY <1>2, ConnectInv, GoLiveInv, FitInv, WriteInv, TypeInv, SizeInv, BeginCloseInv,
     ShutInv, MarkInv, TellInv DEF HandlerStep
<1> QED
  BY <1>1, <1>2, DeviceInv DEF Next

LEMMA StutterInv ==
    ASSUME Invariant, UNCHANGED vars
    PROVE  Invariant'
<1>1. UNCHANGED <<registered, made, shell, lock, thread, events>>
  BY DEF vars
<1>2. TypeOK' /\ InHand' /\ Followed'
  BY <1>1 DEF Invariant, TypeOK, InHand, HandOK, Followed, Closing, My
<1>3. Unmade' /\ OneStarter' /\ NotYetAlive' /\ SendersHold'
  BY <1>1 DEF Invariant, Unmade, OneStarter, NotYetAlive, SendersHold, Starts, Awaits, My
<1>4. LiveHasPump'
  BY <1>1 DEF Invariant, LiveHasPump, Alive, At, My
<1> QED
  BY <1>2, <1>3, <1>4 DEF Invariant

LEMMA Inductive == Spec => []Invariant
<1>1. Init => Invariant
  BY InitInv
<1>2. Invariant /\ [Next]_vars => Invariant'
  BY NextInv, StutterInv
<1> QED
  BY <1>1, <1>2, PTL DEF Spec

\* The state keeps its types, and the write lock of a session is held only by a
\* handler that is inside a write, a resize or a close of that session.
THEOREM TypeCorrect == Spec => []TypeOK
<1>1. Invariant => TypeOK
  BY DEF Invariant
<1> QED
  BY <1>1, Inductive, PTL

\* Two handlers send on one session at the same time in one way only: one of them is
\* the start of that session, which sends the cached geometry without the lock, and
\* the other types or resizes under it.  Two starts, or two that hold the lock,
\* never do, whatever closes the session meanwhile.
OnlyStartOverlaps ==
    \A g, h \in Handler :
       g # h /\ My(g) = My(h) /\ {thread[g].at, thread[h].at} \subseteq {"fit", "type", "size"}
         => (At(g, "fit") <=> ~At(h, "fit"))

THEOREM SendersDoExclude == Spec => []OnlyStartOverlaps
<1>1. ASSUME Invariant, NEW g \in Handler, NEW h \in Handler, g # h, My(g) = My(h),
             {thread[g].at, thread[h].at} \subseteq {"fit", "type", "size"}
      PROVE  At(g, "fit") <=> ~At(h, "fit")
  <2>1. My(g) \in Session
    BY <1>1, SessionsAre DEF Invariant, InHand, HandOK, My
  <2>2. ~(At(g, "fit") /\ At(h, "fit"))
    BY <1>1, <2>1 DEF Invariant, OneStarter, Starts, At, My
  <2>3. At(g, "fit") \/ At(h, "fit")
    BY <1>1 DEF Invariant, SendersHold, At
  <2> QED
    BY <2>2, <2>3
<1>2. Invariant => OnlyStartOverlaps
  BY <1>1 DEF OnlyStartOverlaps
<1> QED
  BY <1>2, Inductive, PTL

\* A session that is still to be started has no pump.
NotPumped == \A s \in Session, h \in Handler : Starts(thread[h], s) => shell[s].pump = "none"

LEMMA MovesAre ==
    ASSUME TypeOK, NEW h \in Handler, NEW q, thread' = [thread EXCEPT ![h] = q]
    PROVE  thread'[h] = q /\ \A g \in Handler : g # h => thread'[g] = thread[g]
BY DEF TypeOK

\* A handler gets no new session to start, and starts a pump as its last step.
LEMMA NotPumpedKept ==
    ASSUME Invariant, NotPumped, NEW h \in Handler, NEW q, thread' = [thread EXCEPT ![h] = q],
           \A s \in Session : Starts(q, s) => Starts(thread[h], s),
           \A s \in Session : shell'[s].pump # "none" =>
               shell[s].pump # "none" \/ (Starts(thread[h], s) /\ ~Starts(q, s))
    PROVE  NotPumped'
<1>1. thread'[h] = q /\ \A g \in Handler : g # h => thread'[g] = thread[g]
  BY MovesAre DEF Invariant
<1> SUFFICES ASSUME NEW s \in Session, NEW g \in Handler, Starts(thread'[g], s)
             PROVE  shell'[s].pump = "none"
  BY DEF NotPumped, Starts, Awaits
<1>2. Starts(thread[g], s)
  BY <1>1
<1>3. shell[s].pump = "none"
  BY <1>2 DEF NotPumped
<1>4. Starts(thread[h], s) => g = h
  BY <1>2 DEF Invariant, OneStarter
<1> QED
  BY <1>1, <1>3, <1>4

\* The step of a handler that starts no pump and goes to a place of the same call.
LEMMA NotPumpedGoes ==
    ASSUME Invariant, NotPumped, NEW h \in Handler, NEW place, To(h, place),
           place \notin {"connect", "live", "fit"} \/ At(h, "connect") \/ At(h, "live"),
           place # "connect",
           \A s \in Session : shell'[s].pump = shell[s].pump
    PROVE  NotPumped'
<1>1. PICK q : q = [thread[h] EXCEPT !.at = place]
  OBVIOUS
<1>2. q.at = place /\ q.s = My(h) /\ q.next = thread[h].next
  BY <1>1 DEF Invariant, TypeOK, Thread, My
<1>3. thread' = [thread EXCEPT ![h] = q]
  BY <1>1 DEF To
<1>4. \A s \in Session : Starts(q, s) => Starts(thread[h], s)
  BY <1>2 DEF Starts, Awaits, At, My
<1> QED
  BY <1>3, <1>4, NotPumpedKept

LEMMA NotPumpedDone ==
    ASSUME Invariant, NotPumped, NEW h \in Handler, Done(h),
           \A s \in Session : shell'[s].pump # "none" =>
               shell[s].pump # "none" \/ Starts(thread[h], s)
    PROVE  NotPumped'
<1>1. \A s \in Session : ~Starts(Idle, s)
  BY IdleStarts
<1> QED
  BY <1>1, NotPumpedKept DEF Done

LEMMA NotPumpedOver ==
    ASSUME Invariant, NotPumped, NEW h \in Handler, AfterClose(h),
           \A s \in Session : shell'[s].pump = shell[s].pump
    PROVE  NotPumped'
<1>1. CASE Done(h)
  BY <1>1, NotPumpedDone
<1>2. PICK q : q = [at |-> "connect", s |-> thread[h].next, next |-> 0]
  OBVIOUS
<1>3. CASE thread' = [thread EXCEPT ![h] = q]
  <2>1. \A s \in Session : Starts(q, s) => Starts(thread[h], s)
    BY <1>2 DEF Starts, Awaits, Session
  <2> QED
    BY <1>3, <2>1, NotPumpedKept
<1> QED
  BY <1>1, <1>2, <1>3 DEF AfterClose

LEMMA NotPumpedEvent ==
    ASSUME Invariant, NotPumped, NEW h \in Handler, Event(h)
    PROVE  NotPumped'
<1>1. TypeOK /\ shell \in [Session -> Shell] /\ \A s \in Session : s # 0
  BY SessionsAre DEF Invariant, TypeOK
<1>2. ASSUME NEW place \in {"input", "resize", "close"},
             thread' = [thread EXCEPT ![h] = [at |-> place, s |-> registered, next |-> 0]],
             \A s \in Session : shell'[s].pump = shell[s].pump
      PROVE  NotPumped'
  <2>1. PICK q : q = [at |-> place, s |-> registered, next |-> 0]
    OBVIOUS
  <2>2. \A s \in Session : ~Starts(q, s)
    BY <1>1, <2>1 DEF Starts, Awaits
  <2> QED
    BY <1>2, <2>1, <2>2, NotPumpedKept
<1>3. CASE Input(h)
  BY <1>2, <1>3 DEF Input
<1>4. CASE Resize(h)
  <2>1. \A s \in Session : shell'[s].pump = shell[s].pump
    BY <1>1, <1>4 DEF Resize, Shell
  <2> QED
    BY <1>2, <1>4, <2>1 DEF Resize
<1>5. CASE Close(h)
  BY <1>2, <1>5 DEF Close
<1>6. ASSUME NEW d \in Device, Open(h, d)
      PROVE  NotPumped'
  <2>1. CASE thread' = thread /\ shell' = shell
    BY <2>1 DEF NotPumped, Starts, Awaits
  <2>2. PICK q : q = FirstClose(registered, made')
    OBVIOUS
  <2>3. CASE /\ thread' = [thread EXCEPT ![h] = q]
             /\ shell' = [shell EXCEPT ![made'] = NewShell(d)]
             /\ made' = made + 1
    <3>1. thread'[h] = q /\ \A g \in Handler : g # h => thread'[g] = thread[g]
      BY <1>1, <2>3, MovesAre
    <3>2. \A s \in Session : Starts(q, s) => s = made'
      BY <1>1, <2>2 DEF FirstClose, Starts, Awaits
    <3>3. \A s \in Session : shell'[s].pump = IF s = made' THEN "none" ELSE shell[s].pump
      BY <1>1, <2>3 DEF NewShell
    <3>4. ASSUME NEW s \in Session, NEW g \in Handler, Starts(thread'[g], s)
          PROVE  shell'[s].pump = "none"
      BY <3>1, <3>2, <3>3, <3>4 DEF NotPumped
    <3> QED
      BY <3>4 DEF NotPumped, Starts, Awaits
  <2> QED
    BY <1>6, <2>1, <2>2, <2>3 DEF Open
<1> QED
  BY <1>3, <1>4, <1>5, <1>6 DEF Event

LEMMA NotPumpedStep ==
    ASSUME Invariant, NotPumped, NEW h \in Handler, HandlerStep(h)
    PROVE  NotPumped'
<1>1. /\ shell \in [Session -> Shell] /\ HandOK(thread[h])
      /\ thread[h].at # "idle" => My(h) \in Session
  BY SessionsAre DEF Invariant, TypeOK, InHand, HandOK, My
<1>2. CASE Connect(h)
  <2>1. \A s \in Session : shell'[s].pump = shell[s].pump
    BY <1>1, <1>2 DEF Connect, Shell
  <2> QED
    BY <1>2, <2>1, NotPumpedGoes, NotPumpedDone DEF Connect
<1>3. CASE GoLive(h)
  <2>1. CASE To(h, "fit") /\ \A s \in Session : shell'[s].pump = shell[s].pump
    BY <1>3, <2>1, NotPumpedGoes DEF GoLive
  <2>2. CASE Done(h) /\ \A s \in Session : s # My(h) => shell'[s] = shell[s]
    BY <1>3, <2>2, NotPumpedDone DEF GoLive, Starts, At, My
  <2>3. PICK up : up = [shell[My(h)] EXCEPT !.alive = TRUE]
    OBVIOUS
  <2>4. up.pump = shell[My(h)].pump
    BY <1>1, <1>3, <2>3 DEF GoLive, At, Shell
  <2>5. CASE up.sized
    BY <1>1, <1>3, <2>1, <2>3, <2>4, <2>5 DEF GoLive
  <2>6. CASE ~up.sized
    BY <1>1, <1>3, <2>2, <2>3, <2>6 DEF GoLive
  <2> QED
    BY <2>5, <2>6
<1>4. CASE Fit(h)
  <2>1. \A s \in Session : s # My(h) => shell'[s] = shell[s]
    BY <1>1, <1>4 DEF Fit
  <2> QED
    BY <1>4, <2>1, NotPumpedDone DEF Fit, Starts, At, My
<1>5. CASE Write(h)
  BY <1>5, NotPumpedGoes DEF Write
<1>6. CASE Type(h) \/ Size(h)
  BY <1>6, NotPumpedGoes, NotPumpedDone DEF Type, Size
<1>7. CASE BeginClose(h) \/ Shut(h)
  <2>1. \A s \in Session : shell'[s].pump = shell[s].pump
    BY <1>1, <1>7 DEF BeginClose, Shut, Shell
  <2> QED
    BY <1>7, <2>1, NotPumpedGoes DEF BeginClose, Shut
<1>8. CASE Mark(h)
  BY <1>8, NotPumpedGoes, NotPumpedOver DEF Mark
<1>9. CASE Tell(h)
  <2>1. \A s \in Session : shell'[s].pump = shell[s].pump
    BY <1>1, <1>9 DEF Tell, Marked, Shell
  <2> QED
    BY <1>9, <2>1, NotPumpedOver DEF Tell
<1> QED
  BY <1>2, <1>3, <1>4, <1>5, <1>6, <1>7, <1>8, <1>9 DEF HandlerStep

LEMMA NotPumpedInv ==
    ASSUME Invariant, NotPumped, [Next]_vars
    PROVE  NotPumped'
<1>1. ASSUME NEW s \in Session, Drops(s) \/ PumpEof(s) \/ PumpLeaves(s) \/ PumpMarks(s)
      PROVE  NotPumped'
  <2>1. thread' = thread /\ shell \in [Session -> Shell]
    BY <1>1 DEF Drops, PumpEof, PumpLeaves, PumpMarks, Invariant, TypeOK
  <2>2. \A x \in Session : shell[x].pump = "none" => shell'[x].pump = "none"
    BY <1>1, <2>1 DEF Drops, PumpEof, PumpLeaves, PumpMarks, Shell
  <2> QED
    BY <2>1, <2>2 DEF NotPumped, Starts, Awaits
<1>2. CASE UNCHANGED vars
  BY <1>2 DEF vars, NotPumped, Starts, Awaits
<1> QED
  BY <1>1, <1>2, NotPumpedEvent, NotPumpedStep DEF Next

\* A shell whose pump was started does not come up again.
NoRevival ==
    \A s \in Session : shell[s].pump # "none" /\ ~shell[s].alive => ~shell'[s].alive

LEMMA NobodyRevives ==
    ASSUME Invariant, NotPumped, [Next]_vars
    PROVE  NoRevival
<1>1. ASSUME NEW h \in Handler, HandlerStep(h)
      PROVE  NoRevival
  <2>1. shell \in [Session -> Shell]
    BY DEF Invariant, TypeOK
  <2>2. CASE GoLive(h)
    <3>1. My(h) \in Session => shell[My(h)].pump = "none"
      BY <2>2 DEF NotPumped, GoLive, At, My, Starts
    <3>2. \A s \in Session : s # My(h) => shell'[s] = shell[s]
      BY <2>1, <2>2 DEF GoLive
    <3> QED
      BY <3>1, <3>2 DEF NoRevival
  <2>3. CASE Connect(h) \/ Fit(h)
    BY <2>1, <2>3 DEF Connect, Fit, StartPump, Shell, NoRevival
  <2>4. CASE Write(h) \/ Type(h) \/ Size(h) \/ Mark(h)
    BY <2>4 DEF Write, Type, Size, Mark, NoRevival
  <2>5. CASE BeginClose(h) \/ Shut(h) \/ Tell(h)
    BY <2>1, <2>5 DEF BeginClose, Shut, Tell, Marked, Shell, NoRevival
  <2> QED
    BY <1>1, <2>2, <2>3, <2>4, <2>5 DEF HandlerStep
<1>2. ASSUME NEW h \in Handler, Event(h)
      PROVE  NoRevival
  <2>1. shell \in [Session -> Shell]
    BY DEF Invariant, TypeOK
  <2>2. ASSUME NEW d \in Device, Open(h, d)
        PROVE  NoRevival
    BY <2>1, <2>2 DEF Open, NewShell, NoRevival
  <2>3. Input(h) \/ Resize(h) \/ Close(h) => NoRevival
    BY <2>1 DEF Input, Resize, Close, Shell, NoRevival
  <2> QED
    BY <1>2, <2>2, <2>3 DEF Event
<1>3. ASSUME NEW s \in Session, Drops(s) \/ PumpEof(s) \/ PumpLeaves(s) \/ PumpMarks(s)
      PROVE  NoRevival
  <2>1. shell \in [Session -> Shell]
    BY DEF Invariant, TypeOK
  <2>2. Drops(s) \/ PumpEof(s) \/ PumpLeaves(s) => NoRevival
    BY <2>1 DEF Drops, PumpEof, PumpLeaves, Ended, Shell, NoRevival
  <2>3. CASE PumpMarks(s)
    <3>1. PICK sh : sh = [Marked(shell[s]) EXCEPT !.pump = "ended"]
      OBVIOUS
    <3>2. ~sh.alive
      BY <2>1, <3>1 DEF Marked, Shell
    <3> QED
      BY <2>1, <2>3, <3>1, <3>2 DEF PumpMarks, NoRevival
  <2> QED
    BY <1>3, <2>2, <2>3
<1>4. CASE UNCHANGED vars
  BY <1>4 DEF vars, NoRevival
<1> QED
  BY <1>1, <1>2, <1>3, <1>4 DEF Next

\* A shell that has gone down stays down.  start sets the flag without asking whether
\* a close came first, but no start is left by the time a pump runs: a session is
\* started once, by the open that made it, whatever closes and replaces it
\* (terminal/adb_shell.py: AdbShellSession.start, SessionRegistry.open).
THEOREM ShellsStayDown == Spec => [][NoRevival]_vars
<1>1. Init => NotPumped
  BY DEF Init, NotPumped, NewShell
<1>2. Invariant /\ NotPumped /\ [Next]_vars => NotPumped'
  BY NotPumpedInv
<1>3. Invariant /\ NotPumped /\ [Next]_vars => [NoRevival]_vars
  BY NobodyRevives
<1> QED
  BY Inductive, <1>1, <1>2, <1>3, PTL DEF Spec

-----------------------------------------------------------------------------
(* Who closes a session, and what becomes of one that was closed.            *)

\* h closes s, and does not wait there for the lock it holds itself.
Ends(h, s) == Closes(thread[h], s) /\ ~(At(h, "close") /\ lock[s] = h)

\* What is closed is out of the registry, and one handler closes it.
ClosedAreGone == \A s \in Session, h \in Handler : Ends(h, s) => registered # s

OneCloser == \A s \in Session, g, h \in Handler : Ends(g, s) /\ Ends(h, s) => g = h

\* A session whose tab was told has had its pump and is down, or its close is over.
ToldAreOver ==
    \A s \in Session : shell[s].told =>
       \/ shell[s].pump # "none" /\ ~shell[s].alive
       \/ registered # s /\ \A h \in Handler : ~Ends(h, s)

Closings == ClosedAreGone /\ OneCloser /\ ToldAreOver

\* A step of h: it comes to close only what it takes out of the registry, and it
\* tells a tab as its last step.
LEMMA ClosingsKept ==
    ASSUME Invariant, Closings, NEW h \in Handler, NEW q,
           thread' = [thread EXCEPT ![h] = q],
           \A s \in Session, g \in Handler : g # h /\ lock[s] = g => lock'[s] = g,
           \A s \in Session : Ends(h, s)' => registered' # s /\ (Ends(h, s) \/ registered = s),
           \A s \in Session : registered' = s =>
              registered = s \/ (s > made /\ ~shell'[s].told),
           \A s \in Session : shell'[s].told =>
              \/ shell'[s].pump # "none" /\ ~shell'[s].alive
              \/ shell[s].told /\ ~(shell[s].pump # "none" /\ ~shell[s].alive)
              \/ Ends(h, s) /\ ~Ends(h, s)'
    PROVE  Closings'
<1>1. thread'[h] = q /\ \A g \in Handler : g # h => thread'[g] = thread[g]
  BY MovesAre DEF Invariant
<1>2. \A s \in Session, g \in Handler : g # h /\ Ends(g, s)' => Ends(g, s)
  BY <1>1 DEF Ends, Closes, At
<1>3. \A s \in Session, g \in Handler : Ends(g, s) => s <= made
  BY SessionsAre DEF Ends, Closes, ClosePlace, Invariant, InHand, HandOK
<1>4. \A s \in Session : s \in Int /\ made \in Int
  BY SessionsAre DEF Invariant, Session
<1>5. ClosedAreGone'
  <2> SUFFICES ASSUME NEW s \in Session, NEW g \in Handler, Ends(g, s)'
               PROVE  registered' # s
    BY DEF ClosedAreGone
  <2>1. CASE g = h
    BY <2>1
  <2>2. CASE g # h
    <3>1. Ends(g, s) /\ registered # s /\ ~(s > made)
      BY <1>2, <1>3, <1>4, <2>2 DEF Closings, ClosedAreGone
    <3> QED
      BY <3>1
  <2> QED
    BY <2>1, <2>2
<1>6. OneCloser'
  <2>1. ASSUME NEW s \in Session, NEW g \in Handler, g # h, Ends(g, s)'
        PROVE  ~Ends(h, s)'
    <3>1. Ends(g, s) /\ registered # s /\ ~Ends(h, s)
      BY <1>2, <2>1 DEF Closings, ClosedAreGone, OneCloser
    <3> QED
      BY <3>1
  <2> SUFFICES ASSUME NEW s \in Session, NEW f \in Handler, NEW g \in Handler,
                      Ends(f, s)', Ends(g, s)'
               PROVE  f = g
    BY DEF OneCloser
  <2>2. CASE f = h \/ g = h
    BY <2>1, <2>2
  <2>3. CASE f # h /\ g # h
    BY <1>2, <2>3 DEF Closings, OneCloser
  <2> QED
    BY <2>2, <2>3
<1>7. ToldAreOver'
  <2> SUFFICES ASSUME NEW s \in Session, shell'[s].told,
                      ~(shell'[s].pump # "none" /\ ~shell'[s].alive)
               PROVE  registered' # s /\ \A g \in Handler : ~Ends(g, s)'
    BY DEF ToldAreOver
  <2>1. CASE shell[s].told /\ ~(shell[s].pump # "none" /\ ~shell[s].alive)
    <3>1. registered # s /\ \A g \in Handler : ~Ends(g, s)
      BY <2>1 DEF Closings, ToldAreOver
    <3> QED
      BY <1>2, <3>1
  <2>2. CASE Ends(h, s) /\ ~Ends(h, s)'
    <3>1. registered # s /\ \A g \in Handler : g # h => ~Ends(g, s)
      BY <2>2 DEF Closings, ClosedAreGone, OneCloser
    <3> QED
      BY <1>2, <2>2, <3>1
  <2> QED
    BY <2>1, <2>2
<1> QED
  BY <1>5, <1>6, <1>7 DEF Closings

\* A step that tells no tab, replaces no session and takes nothing out.
LEMMA ClosingsSame ==
    ASSUME Invariant, Closings, [Next]_vars, NotPumped, NEW h \in Handler, NEW q,
           thread' = [thread EXCEPT ![h] = q],
           \A s \in Session, g \in Handler : g # h /\ lock[s] = g => lock'[s] = g,
           \A s \in Session : Ends(h, s)' => Ends(h, s),
           registered' = registered,
           \A s \in Session : /\ shell'[s].told = shell[s].told
                              /\ shell[s].pump # "none" => shell'[s].pump # "none"
    PROVE  Closings'
<1>1. \A s \in Session : shell[s].pump # "none" /\ ~shell[s].alive => ~shell'[s].alive
  BY NobodyRevives DEF NoRevival
<1>2. \A s \in Session : Ends(h, s)' => registered' # s /\ (Ends(h, s) \/ registered = s)
  BY DEF Closings, ClosedAreGone
<1> QED
  BY <1>1, <1>2, ClosingsKept

LEMMA InHandClosings ==
    ASSUME Invariant, Closings, [Next]_vars, NotPumped, NEW h \in Handler,
           Input(h) \/ Resize(h) \/ Close(h)
    PROVE  Closings'
<1>1. shell \in [Session -> Shell] /\ \A s \in Session : s # 0
  BY SessionsAre DEF Invariant, TypeOK
<1>2. PICK place \in {"input", "resize", "close"} :
         /\ thread' = [thread EXCEPT ![h] = [at |-> place, s |-> registered, next |-> 0]]
         /\ place = "close" => Close(h)
  BY DEF Input, Resize, Close
<1>3. PICK q : q = [at |-> place, s |-> registered, next |-> 0]
  OBVIOUS
<1>4. /\ q.at = place /\ q.s = registered /\ UNCHANGED lock
      /\ thread' = [thread EXCEPT ![h] = q] /\ thread'[h] = q
  <2>1. q.at = place /\ q.s = registered /\ thread' = [thread EXCEPT ![h] = q]
    BY <1>2, <1>3
  <2> QED
    BY <2>1, MovesAre DEF Input, Resize, Close, Invariant
<1>5. \A s \in Session : shell'[s].told = shell[s].told /\ shell'[s].pump = shell[s].pump
                          /\ shell'[s].alive = shell[s].alive
  BY <1>1 DEF Input, Resize, Close, Shell
<1>6. registered' = registered \/ (Close(h) /\ registered' = 0)
  BY DEF Input, Resize, Close
<1>7. \A s \in Session : Ends(h, s)' => Close(h) /\ registered = s
  BY <1>2, <1>4 DEF Ends, Closes, ClosePlace
<1>8. \A s \in Session : Ends(h, s)' => registered' # s /\ registered = s
  BY <1>1, <1>7 DEF Close
<1>9. \A s \in Session : registered' = s => registered = s
  BY <1>1, <1>6
<1>10. \A s \in Session, g \in Handler : g # h /\ lock[s] = g => lock'[s] = g
  BY <1>4
<1>11. \A s \in Session : shell'[s].told =>
         \/ shell'[s].pump # "none" /\ ~shell'[s].alive
         \/ shell[s].told /\ ~(shell[s].pump # "none" /\ ~shell[s].alive)
  BY <1>5
<1> QED
  BY <1>4, <1>8, <1>9, <1>10, <1>11, ClosingsKept

LEMMA OpenClosings ==
    ASSUME Invariant, Closings, NEW h \in Handler, NEW d \in Device, Open(h, d)
    PROVE  Closings'
<1>1. /\ shell \in [Session -> Shell] /\ made \in Nat /\ MaxSessions \in Nat
      /\ registered \in 0 .. made /\ UNCHANGED lock
  BY SessionsAre DEF Invariant, TypeOK, Open
<1>2. CASE UNCHANGED <<registered, shell, thread>>
  BY <1>1, <1>2 DEF Closings, ClosedAreGone, OneCloser, ToldAreOver, Ends, Closes, At
<1>3. PICK q : q = FirstClose(registered, made')
  OBVIOUS
<1>4. CASE /\ made < MaxSessions /\ made' = made + 1 /\ registered' = made'
           /\ shell' = [shell EXCEPT ![made'] = NewShell(d)]
           /\ thread' = [thread EXCEPT ![h] = q]
  <2>1. \A s \in Session : shell'[s] = IF s = made' THEN NewShell(d) ELSE shell[s]
    BY <1>1, <1>4
  <2>2. ~NewShell(d).told
    BY NewShellIs
  <2>3. thread'[h] = q
    BY <1>4, MovesAre DEF Invariant
  <2>4. \A s \in Session : Ends(h, s)' => registered' # s /\ registered = s
    BY <1>1, <1>3, <1>4, <2>3 DEF Ends, Closes, ClosePlace, FirstClose
  <2>5. \A s \in Session : registered' = s => s > made /\ ~shell'[s].told
    BY <1>1, <1>4, <2>1, <2>2
  <2>6. \A s \in Session : shell'[s].told => shell'[s] = shell[s] /\ shell[s].told
    BY <2>1, <2>2
  <2>7. \A s \in Session : shell'[s].told =>
           \/ shell'[s].pump # "none" /\ ~shell'[s].alive
           \/ shell[s].told /\ ~(shell[s].pump # "none" /\ ~shell[s].alive)
    BY <2>6
  <2>8. \A s \in Session, g \in Handler : g # h /\ lock[s] = g => lock'[s] = g
    BY <1>1
  <2> QED
    BY <1>4, <2>4, <2>5, <2>7, <2>8, ClosingsKept
<1> QED
  BY <1>2, <1>3, <1>4 DEF Open

LEMMA OverClosings ==
    ASSUME Invariant, Closings, [Next]_vars, NotPumped, NEW h \in Handler,
           Mark(h) \/ Tell(h), AfterClose(h)
    PROVE  Closings'
<1>1. /\ shell \in [Session -> Shell] /\ My(h) \in Session /\ My(h) # 0
      /\ thread[h].at \in {"mark", "told"} /\ UNCHANGED registered
      /\ lock \in [Session -> Handler \cup {Free}]
  BY SessionsAre DEF Mark, Tell, Invariant, TypeOK, InHand, HandOK, At, My
<1>2. PICK q : thread' = [thread EXCEPT ![h] = q] /\ q.at \in {"idle", "connect"}
  BY IdleIs DEF AfterClose, Done
<1>3. thread'[h] = q
  BY <1>2, MovesAre DEF Invariant
<1>4. \A s \in Session : ~Ends(h, s)'
  BY <1>2, <1>3 DEF Ends, Closes, ClosePlace
<1>5. Ends(h, My(h))
  BY <1>1 DEF Ends, Closes, ClosePlace, At, My
<1>6. \A s \in Session, g \in Handler : g # h /\ lock[s] = g => lock'[s] = g
  BY <1>1 DEF AfterClose
<1>7. \A s \in Session : s # My(h) => shell'[s] = shell[s]
  BY <1>1 DEF Mark, Tell
<1>8. \A s \in Session : shell[s].pump # "none" /\ ~shell[s].alive => ~shell'[s].alive
  BY NobodyRevives DEF NoRevival
<1>9. \A s \in Session : shell'[s].told =>
         \/ shell'[s].pump # "none" /\ ~shell'[s].alive
         \/ shell[s].told /\ ~(shell[s].pump # "none" /\ ~shell[s].alive)
         \/ Ends(h, s) /\ ~Ends(h, s)'
  BY <1>4, <1>5, <1>7
<1> QED
  BY <1>1, <1>2, <1>4, <1>6, <1>9, ClosingsKept

LEMMA GoesClosings ==
    ASSUME Invariant, Closings, [Next]_vars, NotPumped, NEW h \in Handler, NEW place,
           To(h, place),
           \A s \in Session, g \in Handler : g # h /\ lock[s] = g => lock'[s] = g,
           \/ place \notin ClosePlace
           \/ place \in ClosePlace /\ place # "close" /\ thread[h].at \in ClosePlace
              /\ ~(At(h, "close") /\ lock[My(h)] = h)
           \/ place = "close" /\ lock'[My(h)] = h,
           registered' = registered,
           \A s \in Session : /\ shell'[s].told = shell[s].told
                              /\ shell[s].pump # "none" => shell'[s].pump # "none"
    PROVE  Closings'
<1>1. PICK q : q = [thread[h] EXCEPT !.at = place]
  OBVIOUS
<1>2. q.at = place /\ q.s = My(h)
  BY <1>1 DEF Invariant, TypeOK, Thread, My
<1>3. thread' = [thread EXCEPT ![h] = q]
  BY <1>1 DEF To
<1>4. thread'[h] = q
  BY <1>3, MovesAre DEF Invariant
<1>5. \A s \in Session : Ends(h, s)' => Ends(h, s)
  BY <1>2, <1>4 DEF Ends, Closes, ClosePlace, At, My
<1> QED
  BY <1>3, <1>5, ClosingsSame

LEMMA DoneClosings ==
    ASSUME Invariant, Closings, [Next]_vars, NotPumped, NEW h \in Handler, Done(h),
           \A s \in Session, g \in Handler : g # h /\ lock[s] = g => lock'[s] = g,
           registered' = registered,
           \A s \in Session : /\ shell'[s].told = shell[s].told
                              /\ shell[s].pump # "none" => shell'[s].pump # "none"
    PROVE  Closings'
<1>1. thread' = [thread EXCEPT ![h] = Idle]
  BY DEF Done
<1>2. thread'[h] = Idle
  BY <1>1, MovesAre DEF Invariant
<1>3. \A s \in Session : ~Ends(h, s)'
  BY <1>2, IdleIs DEF Ends, Closes, ClosePlace
<1> QED
  BY <1>1, <1>3, ClosingsSame

LEMMA StepClosings ==
    ASSUME Invariant, Closings, [Next]_vars, NotPumped, NEW h \in Handler, HandlerStep(h)
    PROVE  Closings'
<1>1. /\ shell \in [Session -> Shell] /\ lock \in [Session -> Handler \cup {Free}]
      /\ thread[h].at # "idle" => My(h) \in Session
      /\ Free \notin Handler
  BY SessionsAre, TerminalAssumption DEF Invariant, TypeOK, InHand, HandOK, My
<1>2. CASE Connect(h)
  <2>1. \A s \in Session : shell'[s].told = shell[s].told /\ shell'[s].pump = shell[s].pump
    BY <1>1, <1>2 DEF Connect, Shell
  <2>2. UNCHANGED <<registered, lock>> /\ "live" \notin ClosePlace
    BY <1>2 DEF Connect, ClosePlace
  <2> QED
    BY <1>2, <2>1, <2>2, GoesClosings, DoneClosings DEF Connect
<1>3. CASE GoLive(h)
  <2>1. PICK up : up = [shell[My(h)] EXCEPT !.alive = TRUE]
    OBVIOUS
  <2>2. /\ shell[My(h)] \in Shell /\ My(h) \in Session
        /\ up \in Shell /\ up.told = shell[My(h)].told /\ up.pump = shell[My(h)].pump
        /\ UNCHANGED <<registered, lock>> /\ "fit" \notin ClosePlace
    BY <1>1, <1>3, <2>1 DEF GoLive, At, Shell, ClosePlace
  <2>3. StartPump(up).told = up.told /\ StartPump(up).pump # "none"
    BY <2>2 DEF StartPump, Shell
  <2>4. CASE shell' = [shell EXCEPT ![My(h)] = up] /\ To(h, "fit")
    <3>1. \A s \in Session : shell'[s].told = shell[s].told /\ shell'[s].pump = shell[s].pump
      BY <1>1, <2>2, <2>4
    <3> QED
      BY <2>2, <2>4, <3>1, GoesClosings
  <2>5. CASE shell' = [shell EXCEPT ![My(h)] = StartPump(up)] /\ Done(h)
    <3>1. \A s \in Session : /\ shell'[s].told = shell[s].told
                             /\ shell[s].pump # "none" => shell'[s].pump # "none"
      BY <1>1, <2>2, <2>3, <2>5
    <3> QED
      BY <2>2, <2>5, <3>1, DoneClosings
  <2> QED
    BY <1>3, <2>1, <2>4, <2>5 DEF GoLive
<1>4. CASE Fit(h)
  <2>1. \A s \in Session : /\ shell'[s].told = shell[s].told
                           /\ shell[s].pump # "none" => shell'[s].pump # "none"
    BY <1>1, <1>4 DEF Fit, StartPump, Shell
  <2> QED
    BY <1>4, <2>1, DoneClosings DEF Fit
<1>5. CASE Write(h)
  <2>1. PICK place \in {"type", "size"} : To(h, place)
    BY <1>5 DEF Write
  <2>2. \A s \in Session, g \in Handler : g # h /\ lock[s] = g => lock'[s] = g
    BY <1>1, <1>5 DEF Write, Take
  <2>3. place \notin ClosePlace /\ UNCHANGED <<registered, shell>>
    BY <1>5 DEF ClosePlace, Write
  <2> QED
    BY <2>1, <2>2, <2>3, GoesClosings
<1>6. CASE Type(h) \/ Size(h)
  <2>1. thread[h].at \in {"type", "size"} /\ lock[My(h)] = h
        /\ UNCHANGED <<registered, shell>>
    BY <1>6 DEF Type, Size, At, Invariant, SendersHold
  <2>2. CASE Release(h) /\ Done(h)
    <3>1. \A s \in Session, g \in Handler : g # h /\ lock[s] = g => lock'[s] = g
      BY <1>1, <2>1, <2>2 DEF Release
    <3> QED
      BY <2>1, <2>2, <3>1, DoneClosings
  <2>3. CASE To(h, "close") /\ UNCHANGED lock
    BY <2>1, <2>3, GoesClosings
  <2> QED
    BY <1>6, <2>2, <2>3 DEF Type, Size
<1>7. CASE BeginClose(h) \/ Shut(h)
  <2>1. \A s \in Session : shell'[s].told = shell[s].told /\ shell'[s].pump = shell[s].pump
    BY <1>1, <1>7 DEF BeginClose, Shut, Shell
  <2>2. PICK place \in {"shut", "mark"} : To(h, place)
    BY <1>7 DEF BeginClose, Shut
  <2>3. /\ thread[h].at \in ClosePlace /\ UNCHANGED registered
        /\ ~(At(h, "close") /\ lock[My(h)] = h)
        /\ place \in ClosePlace /\ place # "close"
    BY <1>1, <1>7 DEF BeginClose, Shut, ClosePlace, At
  <2>4. \A s \in Session, g \in Handler : g # h /\ lock[s] = g => lock'[s] = g
    BY <1>1, <1>7 DEF BeginClose, Shut, Take
  <2> QED
    BY <2>1, <2>2, <2>3, <2>4, GoesClosings
<1>8. CASE Mark(h) /\ ~AfterClose(h)
  <2>1. To(h, "told") /\ UNCHANGED <<registered, shell, lock>>
    BY <1>8 DEF Mark
  <2>2. thread[h].at \in ClosePlace /\ ~At(h, "close") /\ "told" \in ClosePlace
    BY <1>8 DEF Mark, ClosePlace, At
  <2> QED
    BY <2>1, <2>2, GoesClosings
<1>9. CASE (Mark(h) \/ Tell(h)) /\ AfterClose(h)
  BY <1>9, OverClosings
<1> QED
  BY <1>2, <1>3, <1>4, <1>5, <1>6, <1>7, <1>8, <1>9 DEF HandlerStep, Tell

LEMMA ClosingsInv ==
    ASSUME Invariant, Closings, NotPumped, [Next]_vars
    PROVE  Closings'
<1>1. ASSUME NEW n \in Session, Drops(n) \/ PumpEof(n) \/ PumpLeaves(n) \/ PumpMarks(n)
      PROVE  Closings'
  <2>1. /\ UNCHANGED <<registered, lock, thread>> /\ shell \in [Session -> Shell]
        /\ \A s \in Session : s # n => shell'[s] = shell[s]
    BY <1>1 DEF Drops, PumpEof, PumpLeaves, PumpMarks, Invariant, TypeOK
  <2>2. \A s \in Session, h \in Handler : Ends(h, s)' <=> Ends(h, s)
    BY <2>1 DEF Ends, Closes, At
  <2>3. \A s \in Session : shell'[s].told =>
           \/ shell'[s].pump # "none" /\ ~shell'[s].alive
           \/ /\ shell[s].told
              /\ shell'[s].pump = "none" <=> shell[s].pump = "none"
              /\ shell'[s].alive = shell[s].alive
    <3>1. CASE Drops(n)
      BY <2>1, <3>1 DEF Drops, Shell
    <3>2. CASE PumpEof(n) \/ PumpLeaves(n)
      BY <2>1, <3>2 DEF PumpEof, PumpLeaves, Ended, Shell
    <3>3. CASE PumpMarks(n)
      <4>1. PICK x : x = [Marked(shell[n]) EXCEPT !.pump = "ended"]
        OBVIOUS
      <4>2. x.pump = "ended" /\ ~x.alive
        BY <2>1, <4>1 DEF Marked, Shell
      <4>3. shell'[n] = x
        BY <2>1, <3>3, <4>1 DEF PumpMarks
      <4> QED
        BY <2>1, <4>2, <4>3
    <3> QED
      BY <1>1, <3>1, <3>2, <3>3
  <2>4. ClosedAreGone' /\ OneCloser'
    BY <2>1, <2>2 DEF Closings, ClosedAreGone, OneCloser
  <2>5. ToldAreOver'
    BY <2>1, <2>2, <2>3 DEF Closings, ToldAreOver
  <2> QED
    BY <2>4, <2>5 DEF Closings
<1>2. CASE UNCHANGED vars
  BY <1>2 DEF vars, Closings, ClosedAreGone, OneCloser, ToldAreOver, Ends, Closes, At
<1> QED
  BY <1>1, <1>2, InHandClosings, OpenClosings, StepClosings DEF Next, Event

LEMMA InitClosings ==
    ASSUME Init
    PROVE  NotPumped /\ Closings
<1>1. /\ \A h \in Handler : thread[h] = Idle
      /\ \A s \in Session : ~shell[s].told /\ shell[s].pump = "none"
  BY DEF Init, NewShell
<1>2. \A s \in Session, h \in Handler : ~Ends(h, s)
  BY <1>1, IdleIs DEF Ends, Closes, ClosePlace
<1> QED
  BY <1>1, <1>2 DEF NotPumped, Closings, ClosedAreGone, OneCloser, ToldAreOver

LEMMA ClosingsHold == Spec => [](NotPumped /\ Closings)
<1>1. Init => NotPumped /\ Closings
  BY InitClosings
<1>2. Invariant /\ NotPumped /\ Closings /\ [Next]_vars => (NotPumped /\ Closings)'
  BY NotPumpedInv, ClosingsInv
<1> QED
  BY Inductive, <1>1, <1>2, PTL DEF Spec

\* The shell that open hands back, and whoever types finds, has somebody to read its
\* answers unless its transport is gone: a session in the registry whose tab was told
\* that it is closed is down for good (terminal/adb_shell.py: start, open, close,
\* _mark_closed).
THEOREM LiveAreServed == Spec => []LiveIsServed
<1>1. ASSUME Invariant, Closings, NEW s \in Session, registered = s, Alive(s),
             shell[s].conn = "open"
      PROVE  shell[s].pump \in {"runs", "marks"} \/ \E h \in Handler : At(h, "fit") /\ My(h) = s
  <2>1. ~shell[s].told
    BY <1>1 DEF Closings, ToldAreOver, Alive
  <2> QED
    BY <1>1, <2>1 DEF Invariant, LiveHasPump
<1>2. Invariant /\ Closings => LiveIsServed
  BY <1>1 DEF LiveIsServed
<1> QED
  BY <1>2, Inductive, ClosingsHold, PTL

\* Only the start of a session makes it a shell that can run commands.
LEMMA OnlyStartRaises ==
    ASSUME Invariant, [Next]_vars, NEW s \in Session, Alive(s)', ~Alive(s)
    PROVE  \E h \in Handler : GoLive(h) /\ My(h) = s
<1> SUFFICES ASSUME \A h \in Handler : ~(GoLive(h) /\ My(h) = s)
             PROVE  Alive(s)
  OBVIOUS
<1>1. /\ shell \in [Session -> Shell] /\ shell'[s].alive
      /\ shell'[s].conn \in {"open", "lost"}
  BY DEF Invariant, TypeOK, Alive
<1>2. ASSUME NEW h \in Handler, HandlerStep(h)
      PROVE  Alive(s)
  <2>1. CASE GoLive(h) \/ Fit(h)
    BY <1>1, <2>1 DEF GoLive, Fit, StartPump, Shell, Alive
  <2>2. CASE Connect(h)
    <3>1. My(h) = s => ~shell[s].alive
      BY <2>2 DEF Connect, Invariant, NotYetAlive, Awaits, At, My
    <3>2. shell'[s].alive = shell[s].alive /\ (My(h) # s => shell'[s] = shell[s])
      BY <1>1, <2>2 DEF Connect, Shell
    <3> QED
      BY <1>1, <3>1, <3>2 DEF Alive
  <2>3. CASE Write(h) \/ Type(h) \/ Size(h) \/ Mark(h)
    BY <1>1, <2>3 DEF Write, Type, Size, Mark, Alive
  <2>4. CASE BeginClose(h) \/ Shut(h)
    BY <1>1, <2>4 DEF BeginClose, Shut, Shell, Alive
  <2>5. CASE Tell(h)
    <3>1. shell'[s].alive => shell'[s] = shell[s]
      <4>1. PICK x : x = Marked(shell[My(h)])
        OBVIOUS
      <4>2. My(h) = s => ~x.alive /\ shell'[s] = x
        BY <1>1, <2>5, <4>1 DEF Tell, Marked, Shell
      <4>3. My(h) # s => shell'[s] = shell[s]
        BY <1>1, <2>5 DEF Tell
      <4> QED
        BY <4>2, <4>3
    <3> QED
      BY <1>1, <3>1 DEF Alive
  <2> QED
    BY <1>2, <2>1, <2>2, <2>3, <2>4, <2>5 DEF HandlerStep
<1>3. ASSUME NEW h \in Handler, Event(h)
      PROVE  Alive(s)
  <2>1. ASSUME NEW d \in Device, Open(h, d)
        PROVE  Alive(s)
    <3>1. ~NewShell(d).alive
      BY NewShellIs
    <3>2. shell'[s] = shell[s] \/ shell'[s] = NewShell(d)
      BY <1>1, <2>1 DEF Open
    <3> QED
      BY <1>1, <3>1, <3>2 DEF Alive
  <2>2. Input(h) \/ Resize(h) \/ Close(h) => Alive(s)
    BY <1>1 DEF Input, Resize, Close, Shell, Alive
  <2> QED
    BY <1>3, <2>1, <2>2 DEF Event
<1>4. ASSUME NEW n \in Session, Drops(n) \/ PumpEof(n) \/ PumpLeaves(n) \/ PumpMarks(n)
      PROVE  Alive(s)
  <2>1. Drops(n) \/ PumpEof(n) \/ PumpLeaves(n) => Alive(s)
    BY <1>1 DEF Drops, PumpEof, PumpLeaves, Ended, Shell, Alive
  <2>2. CASE PumpMarks(n)
    <3>1. PICK x : x = [Marked(shell[n]) EXCEPT !.pump = "ended"]
      OBVIOUS
    <3>2. ~x.alive
      BY <1>1, <3>1 DEF Marked, Shell
    <3>3. n # s /\ shell'[s] = shell[s]
      BY <1>1, <2>2, <3>1, <3>2 DEF PumpMarks
    <3> QED
      BY <1>1, <3>3 DEF Alive
  <2> QED
    BY <1>4, <2>1, <2>2
<1>5. CASE UNCHANGED vars
  BY <1>1, <1>5 DEF vars, Alive
<1> QED
  BY <1>2, <1>3, <1>4, <1>5 DEF Next

LEMMA LosesOnce ==
    ASSUME Invariant, Closings, NotPumped, [Next]_vars, NEW s \in Session,
           Lost(s)', ~Lost(s)
    PROVE  shell[s].told /\ ~shell[s].alive
<1>0. /\ shell \in [Session -> Shell] /\ Alive(s)' /\ registered' # s /\ ~Closing(s)'
      /\ \A x \in Session : shell[x] \in Shell
  BY DEF Invariant, TypeOK, Lost
<1>1. ASSUME Alive(s), registered = s, ~Closing(s)
      PROVE  FALSE
  <2>1. PICK h \in Handler : Close(h) \/ \E d \in Device : Open(h, d) /\ made' # made
    <3>1. registered' # registered
      BY <1>0, <1>1
    <3>2. ~UNCHANGED vars
      BY <3>1 DEF vars
    <3>3. \A n \in Session : ~(Drops(n) \/ PumpEof(n) \/ PumpLeaves(n) \/ PumpMarks(n))
      BY <3>1 DEF Drops, PumpEof, PumpLeaves, PumpMarks
    <3>4. \A h \in Handler : ~HandlerStep(h)
      BY <3>1 DEF HandlerStep, Connect, GoLive, Fit, Write, Type, Size, BeginClose, Shut,
         Mark, Tell
    <3>5. PICK h \in Handler : Event(h)
      BY <3>2, <3>3, <3>4 DEF Next
    <3>6. ~Input(h) /\ ~Resize(h)
      BY <3>1 DEF Input, Resize
    <3>7. \A d \in Device : Open(h, d) => made' # made
      BY <3>1, SessionsAre DEF Open, Invariant
    <3> QED
      BY <3>5, <3>6, <3>7 DEF Event
  <2>2. PICK q : thread' = [thread EXCEPT ![h] = q] /\ q.at = "close" /\ q.s = s
    <3>1. CASE Close(h)
      <4>1. PICK q : q = [at |-> "close", s |-> registered, next |-> 0]
        OBVIOUS
      <4>2. q.at = "close" /\ q.s = s
        BY <1>1, <4>1
      <4> QED
        BY <3>1, <4>1, <4>2 DEF Close
    <3>2. CASE \E d \in Device : Open(h, d) /\ made' # made
      <4>1. PICK q : q = FirstClose(registered, made')
        OBVIOUS
      <4>2. registered # 0
        BY <1>1, SessionsAre DEF Invariant
      <4>3. q.at = "close" /\ q.s = s
        BY <1>1, <4>1, <4>2 DEF FirstClose
      <4> QED
        BY <3>2, <4>1, <4>3 DEF Open
    <3> QED
      BY <2>1, <3>1, <3>2
  <2>3. thread'[h] = q
    BY <2>2, MovesAre DEF Invariant
  <2> QED
    BY <1>0, <2>2, <2>3 DEF Closing, My
<1>2. ASSUME NEW h \in Handler, Alive(s), My(h) = s, thread[h].at \in ClosePlace
      PROVE  FALSE
  <2>1. thread'[h] # thread[h]
    BY <1>0, <1>2 DEF Closing, ClosePlace, My
  <2>2. HandlerStep(h)
    <3>1. \A g \in Handler : g # h => ~Event(g) /\ ~HandlerStep(g)
      <4> SUFFICES ASSUME NEW g \in Handler, g # h, Event(g) \/ HandlerStep(g)
                   PROVE  thread'[h] = thread[h]
        BY <2>1
      <4>1. thread' = thread \/ \E q : thread' = [thread EXCEPT ![g] = q]
        BY DEF Event, HandlerStep, Input, Resize, Open, Close, Connect, GoLive, Fit,
           Write, Type, Size, BeginClose, Shut, Mark, Tell, To, Done, AfterClose
      <4> QED
        BY <4>1, MovesAre DEF Invariant
    <3>2. ~Event(h)
      BY <1>2 DEF Event, Open, Input, Resize, Close, ClosePlace, At
    <3>3. ~\E n \in Session : Drops(n) \/ PumpEof(n) \/ PumpLeaves(n) \/ PumpMarks(n)
      BY <2>1 DEF Drops, PumpEof, PumpLeaves, PumpMarks
    <3> QED
      BY <2>1, <3>1, <3>2, <3>3 DEF Next, vars
  <2>3. CASE BeginClose(h) \/ Shut(h) \/ (Mark(h) /\ ~AfterClose(h))
    <3>1. PICK place \in ClosePlace : To(h, place)
      BY <2>3 DEF BeginClose, Shut, Mark, ClosePlace
    <3>2. PICK q : q = [thread[h] EXCEPT !.at = place]
      OBVIOUS
    <3>3. q.at = place /\ q.s = s /\ thread' = [thread EXCEPT ![h] = q]
      BY <1>2, <3>1, <3>2 DEF Invariant, TypeOK, Thread, My, To
    <3>4. thread'[h] = q
      BY <3>3, MovesAre DEF Invariant
    <3> QED
      BY <1>0, <3>3, <3>4 DEF Closing, ClosePlace, My
  <2>4. CASE Mark(h) /\ AfterClose(h)
    <3>1. Ends(h, s) /\ At(h, "mark")
      BY <1>2, <2>4 DEF Ends, Closes, ClosePlace, Mark, At, My
    <3>2. shell[s].told
      <4>1. CASE ~shell[s].told
        <5>1. To(h, "told")
          BY <1>2, <2>4, <4>1 DEF Mark
        <5>2. PICK q : q = [thread[h] EXCEPT !.at = "told"]
          OBVIOUS
        <5>3. q.at = "told" /\ q.s = s /\ thread' = [thread EXCEPT ![h] = q]
          BY <1>2, <5>1, <5>2 DEF Invariant, TypeOK, Thread, My, To
        <5>4. thread'[h] = q
          BY <5>3, MovesAre DEF Invariant
        <5> QED
          BY <1>0, <5>3, <5>4 DEF Closing, My
      <4> QED
        BY <4>1
    <3> QED
      BY <1>2, <3>1, <3>2 DEF Closings, ToldAreOver, Alive
  <2>5. CASE Tell(h)
    <3>1. PICK x : x = Marked(shell[s])
      OBVIOUS
    <3>2. ~x.alive
      BY <1>0, <3>1, MarkedIs
    <3>3. shell'[s] = x
      BY <1>0, <1>2, <2>5, <3>1 DEF Tell
    <3> QED
      BY <1>0, <3>2, <3>3 DEF Alive
  <2>6. CASE Connect(h) \/ GoLive(h) \/ Fit(h) \/ Write(h) \/ Type(h) \/ Size(h)
    BY <1>2, <2>6 DEF ClosePlace, Connect, GoLive, Fit, Write, Type, Size, At
  <2> QED
    BY <2>2, <2>3, <2>4, <2>5, <2>6 DEF HandlerStep
<1>3. ~Alive(s)
  BY <1>1, <1>2 DEF Lost, Closing, ClosePlace
<1>4. PICK h \in Handler : GoLive(h) /\ My(h) = s
  BY <1>0, <1>3, OnlyStartRaises
<1>5. s \in 1 .. made /\ ~shell[s].alive
  <2>1. thread[h].at = "live" /\ My(h) = s
    BY <1>4 DEF GoLive, At
  <2>2. shell'[s].conn = shell[s].conn
    <3>1. PICK up : up = [shell[s] EXCEPT !.alive = TRUE]
      OBVIOUS
    <3>2. up \in Shell /\ up.conn = shell[s].conn
      BY <1>0, <3>1 DEF Shell
    <3>3. StartPump(up).conn = up.conn
      BY <3>2 DEF StartPump, Shell
    <3>4. shell'[s] = up \/ shell'[s] = StartPump(up)
      BY <1>0, <1>4, <3>1 DEF GoLive
    <3> QED
      BY <3>2, <3>3, <3>4
  <2> QED
    BY <1>0, <1>3, <2>1, <2>2 DEF Alive, Invariant, InHand, HandOK, My
<1>6. registered = registered' /\ ~Closing(s)
  <2>1. thread[h].at = "live" /\ registered' = registered
    BY <1>4 DEF GoLive, At
  <2>2. \A g \in Handler : g # h => thread'[g] = thread[g]
    <3>1. \E q : thread' = [thread EXCEPT ![h] = q]
      BY <1>4 DEF GoLive, To, Done
    <3> QED
      BY <3>1, MovesAre DEF Invariant
  <2> QED
    BY <1>0, <2>1, <2>2 DEF Closing, My
<1> QED
  BY <1>0, <1>5, <1>6 DEF Invariant, Followed

\* No open, close or end of the transport loses a shell that was up: one that the tab
\* cannot reach and nobody closes was closed, and its tab told so, before its start
\* raised the flag (terminal/adb_shell.py: SessionRegistry.open, start, close).
THEOREM ShellsAreLostOneWay == Spec => OneWayToLose
<1>1. Invariant /\ NotPumped /\ Closings /\ [Next]_vars
        => [\A s \in Session : Lost(s)' /\ ~Lost(s) => shell[s].told /\ ~shell[s].alive]_vars
  BY LosesOnce
<1> QED
  BY Inductive, ClosingsHold, <1>1, PTL DEF Spec, OneWayToLose
=============================================================================
