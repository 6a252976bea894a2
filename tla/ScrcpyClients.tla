--------------------------- MODULE ScrcpyClients ---------------------------
(* The registry of scrcpy clients of ONE device: scrcpy/scrcpyclients.py,    *)
(* the start and stop of a Client (scrcpy/scrcpycore.py), the status events  *)
(* that services/scrcpy_lifecycle.py wires to it, and the epoch gate with    *)
(* which a browser tab reads them.  Devices share only the short sections    *)
(* under _client_lock, so one device is the unit of the model.               *)
(*                                                                           *)
(* Processes are request threads and, for every client, the stream thread    *)
(* its start() spawned.  A thread runs one call at a time:                   *)
(*                                                                           *)
(*   peek:        fast -> attach                                             *)
(*   get:         fast -> lock -> recheck -> [stop -> evict ->] build ->     *)
(*                start -> register -> attach -> unlock                      *)
(*   reconfigure: outer -> pop -> [stop ->] get -> leave                     *)
(*   stop:        take -> stop                                               *)
(*                                                                           *)
(* where stop is read, mark, close, the three visible steps of Client.stop.  *)
(* Clients are numbered in the order they are built; the number is also the  *)
(* client's lifecycle epoch.                                                 *)
EXTENDS Integers

CONSTANTS
    Thread,    \* request threads
    MaxCalls,  \* bound on the calls, and so on the clients built
    Config,    \* the values of a client's parameters
    Default,   \* _DEFAULT_CLIENT_KWARGS
    None       \* no client, no lock holder

ASSUME CallsAssumption == MaxCalls \in Nat
ASSUME ConfigAssumption == Default \in Config

Client == 1..MaxCalls
Proc == Thread \cup Client

ASSUME ProcAssumption == Thread \cap Client = {} /\ None \notin Proc

VARIABLES
    registry,    \* _clients[device]
    config,      \* _device_config[device]
    clientLock,  \* _client_lock, while attach runs under it
    buildLock,   \* the per-device RLock: owner and depth
    built,       \* how many clients were constructed
    client,      \* alive, server running, parameters, of each client
    attached,    \* scrcpy_lifecycle._attached
    listeners,   \* lifecycle listener pairs registered on each client
    proc,        \* program counter and local variables of each process
    calls,       \* how many calls have arrived
    view         \* the epoch a browser tab holds current for the device

vars == <<registry, config, clientLock, buildLock, built, client, attached,
          listeners, proc, calls, view>>
events == <<attached, listeners, view>>
locks == <<clientLock, buildLock>>

-----------------------------------------------------------------------------
Place == {"idle", "fast", "lock", "recheck", "evict", "build", "start",
          "register", "attach", "add", "replay", "unlock", "outer", "pop", "leave",
          "take", "read", "mark", "close", "stream"}

Call == {"none", "peek", "get", "reconfigure", "stop"}

\* The locals of a process: the call it serves, the client it holds, was_alive,
\* where it goes after attach or stop, and the parameters of a reconfigure.
Local == [at : Place, call : Call, cl : Client \cup {None}, was : BOOLEAN,
          back : Place, cfg : Config]

Idle == [at |-> "idle", call |-> "none", cl |-> None, was |-> FALSE,
         back |-> "idle", cfg |-> Default]

ClientState == [alive : BOOLEAN, server : BOOLEAN, cfg : Config]
Unborn == [alive |-> FALSE, server |-> FALSE, cfg |-> Default]

Free == [owner |-> None, depth |-> 0]

At(p, place) == proc[p].at = place
Goto(p, place) == proc' = [proc EXCEPT ![p].at = place]
Become(p, local) == proc' = [proc EXCEPT ![p] = local]
Alive(c) == c # None /\ client[c].alive

Init ==
    /\ registry = None
    /\ config = Default
    /\ clientLock = None
    /\ buildLock = Free
    /\ built = 0
    /\ client = [c \in Client |-> Unborn]
    /\ attached = {}
    /\ listeners = [c \in Client |-> 0]
    /\ proc = [p \in Proc |-> Idle]
    /\ calls = 0
    /\ view = None

-----------------------------------------------------------------------------
(* Calls arriving and returning.                                             *)

Entry(call) ==
    IF call = "reconfigure" THEN "outer" ELSE IF call = "stop" THEN "take" ELSE "fast"

Arrive(t, call, cfg) ==
    /\ At(t, "idle")
    /\ calls < MaxCalls
    /\ calls' = calls + 1
    /\ Become(t, [Idle EXCEPT !.at = Entry(call), !.call = call, !.cfg = cfg])
    /\ UNCHANGED <<registry, config, locks, built, client, events>>

\* get_client returns to reconfigure, which still holds the lock, or to its
\* caller.
Returned(p) == IF proc[p].call = "reconfigure"
               THEN [proc[p] EXCEPT !.at = "leave"]
               ELSE Idle

-----------------------------------------------------------------------------
(* scrcpy_lifecycle.attach, entered with the client in cl.                   *)

\* Leaving attach leaves the section of _client_lock it may have run in.
AttachReturns(p) ==
    /\ clientLock' = IF clientLock = p THEN None ELSE clientLock
    /\ Become(p, IF proc[p].back = "unlock"
                 THEN [proc[p] EXCEPT !.at = "unlock"]
                 ELSE Returned(p))

AttachSkips(p) ==
    /\ At(p, "attach")
    /\ proc[p].cl \in attached
    /\ AttachReturns(p)
    /\ UNCHANGED <<registry, config, buildLock, built, client, calls, events>>

\* The membership test passed; the listeners are added in a later step, for
\* nothing keeps a second attach of the same client out in between.
AttachTests(p) ==
    /\ At(p, "attach")
    /\ proc[p].cl \notin attached
    /\ Goto(p, "add")
    /\ UNCHANGED <<registry, config, locks, built, client, calls, events>>

\* add_listener twice, _attached.add, and the test of alive.
AttachAdds(p) ==
    LET c == proc[p].cl IN
    /\ At(p, "add")
    /\ listeners' = [listeners EXCEPT ![c] = @ + 1]
    /\ attached' = attached \cup {c}
    /\ IF Alive(c) THEN Goto(p, "replay") /\ UNCHANGED clientLock
                   ELSE AttachReturns(p)
    /\ UNCHANGED <<registry, config, buildLock, built, client, calls, view>>

\* The replayed connected broadcast: the tab takes its epoch for current.
AttachReplays(p) ==
    /\ At(p, "replay")
    /\ view' = proc[p].cl
    /\ AttachReturns(p)
    /\ UNCHANGED <<registry, config, buildLock, built, client, calls,
                   attached, listeners>>

-----------------------------------------------------------------------------
(* Client.stop, entered with the client in cl.                               *)

StopReads(p) ==
    /\ At(p, "read")
    /\ Become(p, [proc[p] EXCEPT !.at = "mark", !.was = client[proc[p].cl].alive])
    /\ UNCHANGED <<registry, config, locks, built, client, calls, events>>

\* Mutant: the tab believes every disconnect.
AfterDisconnect_no_epoch(c) == None

\* The epoch gate of the tab: a disconnect of another epoch is dropped.
AfterDisconnect(c) == IF view = c THEN None ELSE view

\* alive = False, then the snapshot of the listeners is called.
StopMarks(p) ==
    LET c == proc[p].cl
        fired == proc[p].was /\ listeners[c] > 0
    IN  /\ At(p, "mark")
        /\ client' = [client EXCEPT ![c].alive = FALSE]
        /\ view' = IF fired THEN AfterDisconnect(c) ELSE view
        /\ Become(p, [proc[p] EXCEPT !.at = "close", !.was = FALSE])
        /\ UNCHANGED <<registry, config, locks, built, calls, attached, listeners>>

\* The server stream and the sockets are closed, the listeners cleared.
StopCloses(p) ==
    LET c == proc[p].cl IN
    /\ At(p, "close")
    /\ client' = [client EXCEPT ![c].server = FALSE]
    /\ listeners' = [listeners EXCEPT ![c] = 0]
    /\ Become(p, IF proc[p].back = "idle" THEN Idle
                 ELSE [proc[p] EXCEPT !.at = proc[p].back, !.back = "idle"])
    /\ UNCHANGED <<registry, config, locks, built, calls, attached, view>>

-----------------------------------------------------------------------------
(* peek_client and get_client.                                               *)

\* The fast path: a live client is attached to, under _client_lock.
FastFinds(p) ==
    /\ At(p, "fast")
    /\ clientLock = None
    /\ Alive(registry)
    /\ clientLock' = p
    /\ Become(p, [proc[p] EXCEPT !.at = "attach", !.cl = registry, !.back = "idle"])
    /\ UNCHANGED <<registry, config, buildLock, built, client, calls, events>>

FastMisses(p) ==
    /\ At(p, "fast")
    /\ clientLock = None
    /\ ~Alive(registry)
    /\ IF proc[p].call = "peek" THEN Become(p, Idle) ELSE Goto(p, "lock")
    /\ UNCHANGED <<registry, config, locks, built, client, calls, events>>

\* Mutant: a plain Lock instead of an RLock.
Acquire_plain(p, to) ==
    /\ buildLock.owner = None
    /\ buildLock' = [owner |-> p, depth |-> 1]
    /\ Goto(p, to)

Acquire(p, to) ==
    /\ buildLock.owner \in {None, p}
    /\ buildLock' = [owner |-> p, depth |-> buildLock.depth + 1]
    /\ Goto(p, to)

Release == buildLock' = IF buildLock.depth = 1 THEN Free
                        ELSE [buildLock EXCEPT !.depth = @ - 1]

Lock(p) ==
    /\ At(p, "lock")
    /\ Acquire(p, "recheck")
    /\ UNCHANGED <<registry, config, clientLock, built, client, calls, events>>

\* Mutant: what the fast path saw is not checked again under the lock.
Recheck_trusting(p) ==
    /\ At(p, "recheck")
    /\ clientLock = None
    /\ Goto(p, "build")
    /\ UNCHANGED <<registry, config, locks, built, client, calls, events>>

Recheck(p) ==
    /\ At(p, "recheck")
    /\ clientLock = None
    /\ \/ /\ Alive(registry)
          /\ Become(p, [proc[p] EXCEPT !.at = "attach", !.cl = registry,
                                       !.back = "unlock"])
       \/ /\ registry # None /\ ~Alive(registry)
          /\ Become(p, [proc[p] EXCEPT !.at = "read", !.cl = registry,
                                       !.back = "evict"])
       \/ registry = None /\ Goto(p, "build")
    /\ UNCHANGED <<registry, config, locks, built, client, calls, events>>

Evict(p) ==
    /\ At(p, "evict")
    /\ clientLock = None
    /\ registry' = IF registry = proc[p].cl THEN None ELSE registry
    /\ Goto(p, "build")
    /\ UNCHANGED <<config, locks, built, client, calls, events>>

\* Mutant: the persisted parameters are not read.
Parameters_default == Default

\* _client_kwargs.
Parameters == config

\* Client(...) and the deployment of its server on the device.
Build(p) ==
    /\ At(p, "build")
    /\ built' = built + 1
    /\ client' = [client EXCEPT ![built + 1] =
                     [alive |-> FALSE, server |-> TRUE, cfg |-> Parameters]]
    /\ Become(p, [proc[p] EXCEPT !.at = "start", !.cl = built + 1])
    /\ UNCHANGED <<registry, config, locks, calls, events>>

\* The connection is up: alive, and the stream thread runs.
StartSucceeds(p) ==
    LET c == proc[p].cl IN
    /\ At(p, "start")
    /\ client' = [client EXCEPT ![c].alive = TRUE]
    /\ proc' = [proc EXCEPT ![p].at = "register",
                            ![c] = [Idle EXCEPT !.at = "stream", !.cl = c]]
    /\ UNCHANGED <<registry, config, locks, built, calls, events>>

StartFails(p) ==
    /\ At(p, "start")
    /\ client' = [client EXCEPT ![proc[p].cl].server = FALSE]
    /\ Goto(p, "unlock")
    /\ UNCHANGED <<registry, config, locks, built, calls, events>>

Register(p) ==
    /\ At(p, "register")
    /\ clientLock = None
    /\ registry' = proc[p].cl
    /\ Become(p, [proc[p] EXCEPT !.at = "attach", !.back = "unlock"])
    /\ UNCHANGED <<config, locks, built, client, calls, events>>

\* Mutant: the inner exit lets go of a lock that is held twice.
Unlock_whole(p) ==
    /\ At(p, "unlock")
    /\ buildLock' = Free
    /\ Become(p, Returned(p))
    /\ UNCHANGED <<registry, config, clientLock, built, client, calls, events>>

Unlock(p) ==
    /\ At(p, "unlock")
    /\ Release
    /\ Become(p, Returned(p))
    /\ UNCHANGED <<registry, config, clientLock, built, client, calls, events>>

-----------------------------------------------------------------------------
(* reconfigure and stop_client.                                              *)

Outer(p) ==
    /\ At(p, "outer")
    /\ Acquire(p, "pop")
    /\ UNCHANGED <<registry, config, clientLock, built, client, calls, events>>

\* The new parameters are stored and the old client taken, in one section.
Pop(p) ==
    /\ At(p, "pop")
    /\ clientLock = None
    /\ config' = proc[p].cfg
    /\ registry' = None
    /\ IF registry = None
       THEN Goto(p, "fast")
       ELSE Become(p, [proc[p] EXCEPT !.at = "read", !.cl = registry,
                                      !.back = "fast"])
    /\ UNCHANGED <<locks, built, client, calls, events>>

Leave(p) ==
    /\ At(p, "leave")
    /\ Release
    /\ Become(p, Idle)
    /\ UNCHANGED <<registry, config, clientLock, built, client, calls, events>>

\* stop_client takes the client without the per-device lock: a client that is
\* being built is not there to be taken.
Take(p) ==
    /\ At(p, "take")
    /\ clientLock = None
    /\ registry' = None
    /\ Become(p, IF registry = None THEN Idle
                 ELSE [proc[p] EXCEPT !.at = "read", !.cl = registry, !.back = "idle"])
    /\ UNCHANGED <<config, locks, built, client, calls, events>>

-----------------------------------------------------------------------------
(* The stream thread of a client.                                            *)

\* A socket error while alive: the loop stops the client itself.
StreamError(c) ==
    /\ At(c, "stream")
    /\ client[c].alive
    /\ Goto(c, "read")
    /\ UNCHANGED <<registry, config, locks, built, client, calls, events>>

\* recv returned b"": the loop breaks, and nobody stops the client.
StreamEof(c) ==
    /\ At(c, "stream")
    /\ client[c].alive
    /\ Become(c, Idle)
    /\ UNCHANGED <<registry, config, locks, built, client, calls, events>>

\* The loop's condition, or an error after somebody else's stop.
StreamEnds(c) ==
    /\ At(c, "stream")
    /\ ~client[c].alive
    /\ Become(c, Idle)
    /\ UNCHANGED <<registry, config, locks, built, client, calls, events>>

-----------------------------------------------------------------------------
Arrival(t) ==
    \/ \E call \in {"peek", "get", "stop"} : Arrive(t, call, Default)
    \/ \E cfg \in Config : Arrive(t, "reconfigure", cfg)

AttachStep(p) ==
    AttachSkips(p) \/ AttachTests(p) \/ AttachAdds(p) \/ AttachReplays(p)

StopStep(p) == StopReads(p) \/ StopMarks(p) \/ StopCloses(p)

GetStep(p) ==
    \/ FastFinds(p) \/ FastMisses(p) \/ Lock(p) \/ Recheck(p) \/ Evict(p)
    \/ Build(p) \/ StartSucceeds(p) \/ StartFails(p) \/ Register(p) \/ Unlock(p)

Step(t) ==
    \/ AttachStep(t) \/ StopStep(t) \/ GetStep(t)
    \/ Outer(t) \/ Pop(t) \/ Leave(t) \/ Take(t)

StreamStep(c) == StopStep(c) \/ StreamEnds(c)

Next ==
    \/ \E t \in Thread : Arrival(t) \/ Step(t)
    \/ \E c \in Client : StreamStep(c) \/ StreamError(c) \/ StreamEof(c)

Spec == Init /\ [][Next]_vars

\* Threads that can run do run; calls, errors and ends of stream owe nothing.
FairSpec ==
    /\ Spec
    /\ \A t \in Thread : WF_vars(Step(t))
    /\ \A c \in Client : WF_vars(StreamStep(c))

-----------------------------------------------------------------------------
(* Properties.                                                               *)

TypeOK ==
    /\ registry \in Client \cup {None}
    /\ config \in Config
    /\ clientLock \in Thread \cup {None}
    /\ buildLock \in [owner : Thread \cup {None}, depth : Nat]
    /\ buildLock.owner = None <=> buildLock.depth = 0
    /\ built \in 0..MaxCalls
    /\ client \in [Client -> ClientState]
    /\ attached \subseteq Client
    /\ listeners \in [Client -> Nat]
    /\ proc \in [Proc -> Local]
    /\ calls \in 0..MaxCalls
    /\ view \in Client \cup {None}

\* No orphan scrcpy server: one that runs on the device is the registered
\* client's, or a thread still holds it to register or to stop it.
NoOrphanServer ==
    \A c \in Client :
        client[c].server =>
            \/ registry = c
            \/ \E p \in Proc :
                  /\ proc[p].cl = c
                  /\ proc[p].at \in {"start", "register", "read", "mark", "close"}

\* The epoch gate does not cost a tab its stream: when the registered client is
\* alive and its connected broadcast was sent, every tab holds its epoch,
\* however late the disconnects of earlier clients arrive.
StreamingClientIsCurrent ==
    \A c \in Client :
        /\ registry = c
        /\ client[c].alive
        /\ c \in attached
        /\ ~\E p \in Proc : proc[p].cl = c /\ proc[p].at \in {"add", "replay"}
        => view = c

\* Outside the per-device lock, the registered client runs with the parameters
\* last stored for the device.
ConfigHonoured ==
    buildLock = Free /\ registry # None => client[registry].cfg = config

\* Every call returns: no thread waits for ever on the two locks.
CallsReturn == \A t \in Thread : ~At(t, "idle") ~> At(t, "idle")

-----------------------------------------------------------------------------
(* What comments of the source say, and the code does not do.                *)

\* services/scrcpy_lifecycle.py:5-8: the broadcasts let every tab tear down its
\* peer when scrcpy dies, so no tab holds a dead client current.
ViewIsAlive == view # None => client[view].alive

\* services/scrcpy_lifecycle.py:3-4: EVENT_DISCONNECT fires "when the stream loop
\* dies": a tab does not watch an ended stream for ever.
StreamDeathReported ==
    \A c \in Client :
        (At(c, "idle") /\ view = c /\ client[c].alive) ~> view # c
=============================================================================
