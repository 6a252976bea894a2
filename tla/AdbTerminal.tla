---------------------------- MODULE AdbTerminal ----------------------------
(* The interactive adb shell of one browser tab: terminal/adb_shell.py and   *)
(* terminal/routes.py.                                                       *)
(*                                                                           *)
(* Every Socket.IO event of the tab runs in a thread of its own, so an open, *)
(* keystrokes, a resize and a close of the same tab overlap.  The registry   *)
(* maps the tab to its session; each session has a write lock, which is not  *)
(* re-entrant, and a pump thread that reads the device.  The device may drop *)
(* the connection between any two steps.                                     *)
EXTENDS Integers

CONSTANTS
    Device,       \* devices a tab can open a shell on
    NoDevice,     \* the device of a session not made yet
    Handler,      \* threads that run the tab's events
    Free,         \* the holder of a free lock
    MaxSessions,  \* bound on the sessions made
    MaxEvents     \* bound on the events of the tab

ASSUME TerminalAssumption ==
    /\ NoDevice \notin Device /\ Free \notin Handler
    /\ MaxSessions \in Nat /\ MaxEvents \in Nat

VARIABLES
    registered,  \* SessionRegistry._sessions at this tab, 0 for none
    made,        \* sessions made so far, numbered from 1
    shell,       \* the AdbShellSession objects
    lock,        \* _write_lock of each: the handler that holds it, or Free
    thread,      \* where each handler is
    events       \* events so far

vars == <<registered, made, shell, lock, thread, events>>

-----------------------------------------------------------------------------
(* Sessions and handlers.                                                    *)

Session == 1 .. MaxSessions

\* conn: none before start, then the transport, which the device drops (lost) or
\* close shuts; alive: _alive; told: _closed_emitted, the tab had terminal:closed;
\* sized: a geometry is cached; pump: the reader thread.
Shell == [dev : Device \cup {NoDevice}, conn : {"none", "open", "lost", "shut"},
          alive : BOOLEAN, told : BOOLEAN, sized : BOOLEAN,
          pump : {"none", "runs", "marks", "ended"}]

NewShell(d) == [dev |-> d, conn |-> "none", alive |-> FALSE, told |-> FALSE,
                sized |-> FALSE, pump |-> "none"]

\* alive, the property: the flag and a transport this side has not closed.
Alive(s) == shell[s].alive /\ shell[s].conn \in {"open", "lost"}

Place == {"idle", "connect", "live", "fit", "input", "type", "resize", "size",
          "close", "shut", "mark", "told"}

\* s: the session in hand; next: the one open starts once s is closed.
Thread == [at : Place, s : 0 .. MaxSessions, next : 0 .. MaxSessions]
Idle == [at |-> "idle", s |-> 0, next |-> 0]

At(h, p) == thread[h].at = p
My(h) == thread[h].s
To(h, p) == thread' = [thread EXCEPT ![h].at = p]
Done(h) == thread' = [thread EXCEPT ![h] = Idle]

Arrives == events < MaxEvents /\ events' = events + 1

Init ==
    /\ registered = 0 /\ made = 0 /\ events = 0
    /\ shell = [s \in Session |-> NewShell(NoDevice)]
    /\ lock = [s \in Session |-> Free]
    /\ thread = [h \in Handler |-> Idle]

-----------------------------------------------------------------------------
(* terminal:open: SessionRegistry.open and AdbShellSession.start.            *)

\* The registry hands back a live session of the same device; it replaces any
\* other in the registry, and closes that before it starts the new one.
Reusable(s, d) == Alive(s) /\ shell[s].dev = d

\* Mutant: the session that was replaced is dropped, not closed.
FirstClose_drops(old, new) == [at |-> "connect", s |-> new, next |-> 0]

FirstClose(old, new) ==
    IF old = 0 THEN [at |-> "connect", s |-> new, next |-> 0]
    ELSE [at |-> "close", s |-> old, next |-> new]

Open(h, d) ==
    /\ At(h, "idle") /\ Arrives
    /\ IF registered # 0 /\ Reusable(registered, d)
       THEN UNCHANGED <<registered, made, shell, thread>>
       ELSE /\ made < MaxSessions
            /\ made' = made + 1
            /\ registered' = made'
            /\ shell' = [shell EXCEPT ![made'] = NewShell(d)]
            /\ thread' = [thread EXCEPT ![h] = FirstClose(registered, made')]
    /\ UNCHANGED lock

\* The transport to adbd, or an error, which leaves the session in the registry.
Connect(h) ==
    /\ At(h, "connect")
    /\ \/ shell' = [shell EXCEPT ![My(h)].conn = "open"] /\ To(h, "live")
       \/ Done(h) /\ UNCHANGED shell
    /\ UNCHANGED <<registered, made, lock, events>>

StartPump(sh) == [sh EXCEPT !.pump = "runs"]

GoLive(h) ==
    LET up == [shell[My(h)] EXCEPT !.alive = TRUE]
    IN  /\ At(h, "live")
        /\ IF up.sized
           THEN shell' = [shell EXCEPT ![My(h)] = up] /\ To(h, "fit")
           ELSE shell' = [shell EXCEPT ![My(h)] = StartPump(up)] /\ Done(h)
        /\ UNCHANGED <<registered, made, lock, events>>

\* The cached geometry goes out without the lock; if the transport is gone the
\* error leaves start before the pump is there.
Fit(h) ==
    /\ At(h, "fit")
    /\ IF shell[My(h)].conn = "open"
       THEN shell' = [shell EXCEPT ![My(h)] = StartPump(@)]
       ELSE UNCHANGED shell
    /\ Done(h)
    /\ UNCHANGED <<registered, made, lock, events>>

-----------------------------------------------------------------------------
(* terminal:input and terminal:resize.                                       *)

\* The registry is read without its lock.
Input(h) ==
    /\ At(h, "idle") /\ Arrives
    /\ registered # 0
    /\ thread' = [thread EXCEPT ![h] = [at |-> "input", s |-> registered, next |-> 0]]
    /\ UNCHANGED <<registered, made, shell, lock>>

\* The geometry is cached before the lock is taken.
Resize(h) ==
    /\ At(h, "idle") /\ Arrives
    /\ registered # 0
    /\ shell' = [shell EXCEPT ![registered].sized = TRUE]
    /\ thread' = [thread EXCEPT ![h] = [at |-> "resize", s |-> registered, next |-> 0]]
    /\ UNCHANGED <<registered, made, lock>>

Take(h) == lock[My(h)] = Free /\ lock' = [lock EXCEPT ![My(h)] = h]

\* Mutant: an early return that skips the release.
Release_none(h) == UNCHANGED lock
Release(h) == lock' = [lock EXCEPT ![My(h)] = Free]

Write(h) ==
    /\ \/ At(h, "input") /\ To(h, "type")
       \/ At(h, "resize") /\ To(h, "size")
    /\ Take(h)
    /\ UNCHANGED <<registered, made, shell, events>>

\* sendall: it fails once the transport is lost or shut.
Sends(h) == shell[My(h)].conn = "open"

\* write: a dead session drops the keys.  On an error it calls close while it
\* holds the lock that close takes.
Type(h) ==
    /\ At(h, "type")
    /\ IF Alive(My(h)) /\ ~Sends(h)
       THEN To(h, "close") /\ UNCHANGED lock
       ELSE Release(h) /\ Done(h)
    /\ UNCHANGED <<registered, made, shell, events>>

\* resize: an error is only logged.
Size(h) ==
    /\ At(h, "size")
    /\ Release(h) /\ Done(h)
    /\ UNCHANGED <<registered, made, shell, events>>

-----------------------------------------------------------------------------
(* terminal:close and the disconnect of the tab; AdbShellSession.close.      *)

Close(h) ==
    /\ At(h, "idle") /\ Arrives
    /\ registered # 0
    /\ registered' = 0
    /\ thread' = [thread EXCEPT ![h] = [at |-> "close", s |-> registered, next |-> 0]]
    /\ UNCHANGED <<made, shell, lock>>

\* A session that is not alive is marked under the lock; a live one loses its flag
\* under the lock and the rest follows outside.
BeginClose(h) ==
    /\ At(h, "close")
    /\ lock[My(h)] = Free
    /\ IF shell[My(h)].alive
       THEN /\ shell' = [shell EXCEPT ![My(h)].alive = FALSE]
            /\ To(h, "shut")
            /\ UNCHANGED lock
       ELSE Take(h) /\ To(h, "mark") /\ UNCHANGED shell
    /\ UNCHANGED <<registered, made, events>>

Shut(h) ==
    /\ At(h, "shut")
    /\ shell' = [shell EXCEPT ![My(h)].conn = "shut"]
    /\ To(h, "mark")
    /\ UNCHANGED <<registered, made, lock, events>>

\* _mark_closed sets the two flags and tells the tab.
Marked(sh) == [sh EXCEPT !.told = TRUE, !.alive = FALSE]

\* Mutant: the early return of a close keeps the lock.
AfterClose_locked(h) ==
    /\ UNCHANGED lock
    /\ IF thread[h].next = 0 THEN Done(h)
       ELSE thread' = [thread EXCEPT ![h] =
                         [at |-> "connect", s |-> thread[h].next, next |-> 0]]

\* close is over: the lock is released if it is held, and open goes on.
AfterClose(h) ==
    /\ lock' = [lock EXCEPT ![My(h)] = IF @ = h THEN Free ELSE @]
    /\ IF thread[h].next = 0 THEN Done(h)
       ELSE thread' = [thread EXCEPT ![h] =
                         [at |-> "connect", s |-> thread[h].next, next |-> 0]]

\* The test of _closed_emitted and the marking are two steps.
Mark(h) ==
    /\ At(h, "mark")
    /\ IF shell[My(h)].told THEN AfterClose(h) ELSE To(h, "told") /\ UNCHANGED lock
    /\ UNCHANGED <<registered, made, shell, events>>

Tell(h) ==
    /\ At(h, "told")
    /\ shell' = [shell EXCEPT ![My(h)] = Marked(@)]
    /\ AfterClose(h)
    /\ UNCHANGED <<registered, made, events>>

-----------------------------------------------------------------------------
(* The device and the pump.                                                  *)

Drops(s) ==
    /\ shell[s].conn = "open"
    /\ shell' = [shell EXCEPT ![s].conn = "lost"]
    /\ UNCHANGED <<registered, made, lock, thread, events>>

\* Mutant: the pump leaves without its finally.
Ended_unmarked(sh) == [sh EXCEPT !.pump = "ended"]

\* The pump's finally: _mark_closed, which does nothing when the tab was told.
Ended(sh) == [sh EXCEPT !.pump = IF sh.told THEN "ended" ELSE "marks"]

\* The stream ended: EOF, or recv on a transport that is shut.
PumpEof(s) ==
    /\ shell[s].pump = "runs" /\ shell[s].conn # "open"
    /\ shell' = [shell EXCEPT ![s] = Ended(@)]
    /\ UNCHANGED <<registered, made, lock, thread, events>>

\* An exit frame or a frame over the cap ends it on an open transport, and so does
\* any frame once the flag is down.
PumpLeaves(s) ==
    /\ shell[s].pump = "runs" /\ shell[s].conn = "open"
    /\ shell' = [shell EXCEPT ![s] = Ended(@)]
    /\ UNCHANGED <<registered, made, lock, thread, events>>

PumpMarks(s) ==
    /\ shell[s].pump = "marks"
    /\ shell' = [shell EXCEPT ![s] = [Marked(@) EXCEPT !.pump = "ended"]]
    /\ UNCHANGED <<registered, made, lock, thread, events>>

-----------------------------------------------------------------------------
(* Specification.  A handler and a pump go on when they can.                 *)

HandlerStep(h) ==
    Connect(h) \/ GoLive(h) \/ Fit(h) \/ Write(h) \/ Type(h) \/ Size(h)
    \/ BeginClose(h) \/ Shut(h) \/ Mark(h) \/ Tell(h)

Event(h) == (\E d \in Device : Open(h, d)) \/ Input(h) \/ Resize(h) \/ Close(h)

Next ==
    \/ \E h \in Handler : Event(h) \/ HandlerStep(h)
    \/ \E s \in Session : Drops(s) \/ PumpEof(s) \/ PumpLeaves(s) \/ PumpMarks(s)

Spec == Init /\ [][Next]_vars

FairSpec ==
    /\ Spec
    /\ \A h \in Handler : WF_vars(HandlerStep(h))
    /\ \A s \in Session : WF_vars(PumpEof(s) \/ PumpMarks(s))

-----------------------------------------------------------------------------
(* Properties.                                                               *)

\* Types; a lock is held only inside a write, a resize or a close of its session.
TypeOK ==
    /\ registered \in 0 .. made
    /\ made \in 0 .. MaxSessions
    /\ shell \in [Session -> Shell]
    /\ lock \in [Session -> Handler \cup {Free}]
    /\ thread \in [Handler -> Thread]
    /\ events \in 0 .. MaxEvents
    /\ \A s \in Session, h \in Handler : lock[s] = h =>
         My(h) = s /\ thread[h].at \in {"type", "size", "close", "mark", "told"}

\* A handler is about to close session s.
Closing(s) == \E h \in Handler : My(h) = s /\ thread[h].at \in {"close", "shut", "mark", "told"}

\* A shell that can run commands, which the tab cannot reach and nobody closes.
Lost(s) == Alive(s) /\ registered # s /\ ~Closing(s)

\* The shell that open hands back, and whoever types finds, gets its answers read:
\* unless its transport is gone it has a pump, or a handler that is still starting
\* it, whatever opens, closes and ends of the transport came between.
LiveIsServed ==
    \A s \in Session : registered = s /\ Alive(s) /\ shell[s].conn = "open" =>
       \/ shell[s].pump \in {"runs", "marks"}
       \/ \E h \in Handler : At(h, "fit") /\ My(h) = s

\* A shell is lost in one way only: it was closed, and its tab told so, before its
\* start came to raise the flag, which start does without asking.  No open, close
\* or end of the transport loses a shell that was up.
OneWayToLose ==
    [][\A s \in Session : Lost(s)' /\ ~Lost(s) => shell[s].told /\ ~shell[s].alive]_vars

\* "Disconnects auto-close the underlying adb shell" (routes.py:17): no shell stays
\* up that the tab cannot reach and nobody closes.
NoLostShell == \A s \in Session : ~Lost(s)

\* "we already serialise via _write_lock at the public-API level" (adb_shell.py:130):
\* two handlers never send on one shell at the same time.
SendersExclude ==
    \A g, h \in Handler : g # h /\ My(g) = My(h) =>
       ~({thread[g].at, thread[h].at} \subseteq {"fit", "type", "size"})

\* A handler waits for the lock it holds itself: write met a broken pipe.
Jammed(s) == \E h \in Handler : lock[s] = h /\ At(h, "close")

\* Every event is served, unless write met a broken pipe on the session it
\* waits for.
HandlersReturn ==
    \A h \in Handler : ~At(h, "idle") ~> At(h, "idle") \/ (My(h) # 0 /\ Jammed(My(h)))

\* "tear down the old and start a fresh one" (adb_shell.py:266): an open that
\* replaces a session gets to start its own.
ReplacementStarts ==
    \A h \in Handler : thread[h].next # 0 ~> thread[h].next = 0

============================================================================
