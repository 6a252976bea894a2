---------------------------- MODULE PeerSessions ----------------------------
(* The WebRTC peer of one browser tab on one device:                         *)
(* scrcpy/webrtc/peer_manager.py (PeerSession, PeerManager), the session     *)
(* start and the close callback of services/webrtc_session.py, and the       *)
(* asyncio loop of scrcpy/webrtc/async_runner.py on which peer connections   *)
(* live.  Sessions are numbered in the order they are made, scrcpy clients   *)
(* in the order they replace each other.                                     *)
(*                                                                           *)
(* Threads run one call at a time:                                           *)
(*                                                                           *)
(*   offer:    get [-> making] -> wire -> get [-> making] -> negotiate ->    *)
(*             offering -> fetch -> attach                                   *)
(*   close:    pop -> detach -> shut -> closing                              *)
(*   reattach: keys -> fetch -> detach -> attach                             *)
(*                                                                           *)
(* In making, offering and closing a thread waits for a job on the loop,     *)
(* with a timeout.  A peer connection that ends makes the loop detach its    *)
(* session and start a cleaner, a thread that runs close.                    *)
(* aiortc's peer connection is modelled as this code uses it.                *)
EXTENDS Integers

CONSTANTS
    Thread,       \* request threads and reconfigure workers
    MaxCalls,     \* bound on the calls
    MaxSessions,  \* bound on the sessions made
    MaxClients,   \* bound on the scrcpy clients of the device
    None

ASSUME BoundsAssumption ==
    MaxCalls \in Nat /\ MaxSessions \in Nat /\ MaxClients \in Nat \ {0}

Session == 1..MaxSessions
Client == 1..MaxClients

\* The thread _bg_cleanup that the failure or the close of a session starts.
Cleaner == Session \X {"failed", "closed"}
Proc == Thread \cup Cleaner

ASSUME ProcAssumption ==
    /\ Thread \cap Cleaner = {}
    /\ None \notin Proc \cup Session \cup Client

VARIABLES
    registry,     \* PeerManager._sessions at (sid, device)
    managerLock,  \* PeerManager._lock while a session is made under it
    made,         \* how many sessions were made
    pc,           \* connectionState of each session's peer connection
    wired,        \* sessions whose callbacks start_session has set
    late,         \* how many makes run on the loop that nobody waits for
    orphans,      \* the sessions these made, which nobody refers to
    source,       \* PeerSession._scrcpy_client
    listens,      \* the clients that hold a listener of the session
    lock,         \* PeerSession._lock
    jobs,         \* coroutines and events pending on the loop
    loop,         \* the session the loop is detaching, if any
    proc,         \* program counter and locals of each thread
    current,      \* the scrcpy client that is alive
    calls         \* how many calls have arrived

vars == <<registry, managerLock, made, pc, wired, late, orphans, source, listens,
          lock, jobs, loop, proc, current, calls>>
lost == <<late, orphans>>
peer == <<made, pc, wired, late, orphans>>
video == <<source, listens, lock>>
world == <<current, calls>>

-----------------------------------------------------------------------------
Place == {"idle", "get", "making", "wire", "negotiate", "offering", "fetch",
          "attach", "pop", "detach", "shut", "closing", "keys"}

\* The locals of a thread: its call, the session and the client it holds, and
\* where get_or_create and detach return to.
Local == [at : Place, call : {"none", "offer", "close", "reattach"},
          s : Session \cup {None}, cl : Client \cup {None}, back : Place]

Idle == [at |-> "idle", call |-> "none", s |-> None, cl |-> None, back |-> "idle"]

Job == [kind : {"make", "offer", "close", "state"}, s : Session \cup {None},
        by : Proc \cup {None}]

At(p, place) == proc[p].at = place
Goto(p, place) == proc' = [proc EXCEPT ![p].at = place]
Return(p) == proc' = [proc EXCEPT ![p] = Idle]

Init ==
    /\ registry = None
    /\ managerLock = None
    /\ made = 0
    /\ pc = [s \in Session |-> "new"]
    /\ wired = {}
    /\ late = 0
    /\ orphans = {}
    /\ source = [s \in Session |-> None]
    /\ listens = [s \in Session |-> {}]
    /\ lock = [s \in Session |-> None]
    /\ jobs = {}
    /\ loop = None
    /\ proc = [p \in Proc |-> Idle]
    /\ current = 1
    /\ calls = 0

-----------------------------------------------------------------------------
(* Calls arriving.                                                           *)

Arrive(t, call, place, cl) ==
    /\ At(t, "idle")
    /\ calls < MaxCalls
    /\ calls' = calls + 1
    /\ proc' = [proc EXCEPT ![t] = [Idle EXCEPT !.at = place, !.call = call, !.cl = cl,
                                                !.back = "wire"]]
    /\ UNCHANGED <<registry, managerLock, peer, lock, source, jobs, loop>>

\* An offer, with the client that get_client found alive.
OfferArrives(t) ==
    /\ Arrive(t, "offer", "get", current)
    /\ UNCHANGED <<current, listens>>

\* The client is replaced: Client.stop dropped the listeners of the old one.
Replaced ==
    /\ current < MaxClients
    /\ current' = current + 1
    /\ listens' = [s \in Session |-> listens[s] \ {current}]

\* An offer for which get_client built a new client.
OfferRebuilds(t) == Arrive(t, "offer", "get", current + 1) /\ Replaced

\* A reconfigure has replaced the client and moves the sessions to the new one.
ReattachArrives(t) == Arrive(t, "reattach", "keys", current + 1) /\ Replaced

\* webrtc:close or the tab's disconnect, or close_device for a reservation.
CloseArrives(t) ==
    /\ Arrive(t, "close", "pop", None)
    /\ UNCHANGED <<current, listens>>

-----------------------------------------------------------------------------
(* PeerManager.get_or_create, twice per offer.                               *)

GetFinds(p) ==
    /\ At(p, "get")
    /\ managerLock = None
    /\ registry # None
    /\ proc' = [proc EXCEPT ![p].at = proc[p].back, ![p].s = registry]
    /\ UNCHANGED <<registry, managerLock, peer, video, jobs, loop, world>>

\* Mutant: nobody keeps two threads from making a session each.
GetMakes_unlocked(p) ==
    /\ At(p, "get")
    /\ registry = None
    /\ managerLock' = p
    /\ jobs' = jobs \cup {[kind |-> "make", s |-> None, by |-> p]}
    /\ Goto(p, "making")
    /\ UNCHANGED <<registry, peer, video, loop, world>>

\* The session is made on the loop, and the lock is held while waiting for it.
GetMakes(p) ==
    /\ At(p, "get")
    /\ managerLock = None
    /\ registry = None
    /\ managerLock' = p
    /\ jobs' = jobs \cup {[kind |-> "make", s |-> None, by |-> p]}
    /\ Goto(p, "making")
    /\ UNCHANGED <<registry, peer, video, loop, world>>

\* Mutant: the exception leaves without the lock's release.
MakeTimesOut_locked(p) ==
    /\ At(p, "making")
    /\ jobs' = {j \in jobs : j.by # p}
    /\ late' = late + 1
    /\ Return(p)
    /\ UNCHANGED <<registry, managerLock, made, pc, wired, orphans, video, loop, world>>

\* run_sync gives up and the lock is let go.  The coroutine runs on, for nobody.
MakeTimesOut(p) ==
    /\ At(p, "making")
    /\ jobs' = {j \in jobs : j.by # p}
    /\ late' = late + 1
    /\ managerLock' = None
    /\ Return(p)
    /\ UNCHANGED <<registry, made, pc, wired, orphans, video, loop, world>>

\* The callbacks are set on the session of the first get_or_create.
Wire(p) ==
    /\ At(p, "wire")
    /\ wired' = wired \cup {proc[p].s}
    /\ proc' = [proc EXCEPT ![p].at = "get", ![p].back = "negotiate"]
    /\ UNCHANGED <<registry, managerLock, made, pc, lost, video, jobs, loop, world>>

-----------------------------------------------------------------------------
(* Waiting for the loop.                                                     *)

Submit(p, from, kind, to) ==
    /\ At(p, from)
    /\ jobs' = jobs \cup {[kind |-> kind, s |-> proc[p].s, by |-> p]}
    /\ Goto(p, to)
    /\ UNCHANGED <<registry, managerLock, peer, video, loop, world>>

Negotiate(p) == Submit(p, "negotiate", "offer", "offering")
Shut(p) == Submit(p, "shut", "close", "closing")

\* run_sync gives up, and the job runs on.
WaitTimesOut(p) ==
    /\ proc[p].at \in {"offering", "closing"}
    /\ jobs' = {IF j.by = p /\ j.kind # "state" THEN [j EXCEPT !.by = None] ELSE j : j \in jobs}
    /\ Return(p)
    /\ UNCHANGED <<registry, managerLock, peer, video, loop, world>>

-----------------------------------------------------------------------------
(* The video source of a session.                                            *)

\* PeerManager.get, without the lock.
Fetch(p) ==
    /\ At(p, "fetch")
    /\ IF registry = None
       THEN Return(p)
       ELSE proc' = [proc EXCEPT ![p].s = registry, ![p].back = "attach",
                        ![p].at = IF proc[p].call = "offer" THEN "attach" ELSE "detach"]
    /\ UNCHANGED <<registry, managerLock, peer, video, jobs, loop, world>>

\* attach_video_source to a session with no source, or with this one.
Attach(p) ==
    LET s == proc[p].s  c == proc[p].cl IN
    /\ At(p, "attach")
    /\ lock[s] = None
    /\ source[s] \in {None, c}
    /\ source' = [source EXCEPT ![s] = c]
    /\ listens' = [listens EXCEPT ![s] = IF source[s] = c THEN @ ELSE @ \cup {c}]
    /\ Return(p)
    /\ UNCHANGED <<registry, managerLock, peer, lock, jobs, loop, world>>

\* attach_video_source to a session with another source: it calls
\* detach_video_source, which takes the plain Lock that the caller holds.  What
\* follows that call is not modelled, for the thread never gets there.
AttachNests(p) ==
    LET s == proc[p].s IN
    /\ At(p, "attach")
    /\ lock[s] = None
    /\ source[s] \notin {None, proc[p].cl}
    /\ lock' = [lock EXCEPT ![s] = p]
    /\ Goto(p, "detach")
    /\ UNCHANGED <<registry, managerLock, peer, source, listens, jobs, loop, world>>

\* Mutant: the listener stays registered on the client.
Silence_forgetful(s) ==
    /\ lock[s] = None
    /\ source' = [source EXCEPT ![s] = None]
    /\ UNCHANGED <<lock, listens>>

\* detach_video_source.
Silence(s) ==
    /\ lock[s] = None
    /\ listens' = [listens EXCEPT ![s] = @ \ {source[s]}]
    /\ source' = [source EXCEPT ![s] = None]
    /\ UNCHANGED lock

Detach(p) ==
    /\ At(p, "detach")
    /\ Silence(proc[p].s)
    /\ Goto(p, proc[p].back)
    /\ UNCHANGED <<registry, managerLock, peer, jobs, loop, world>>

\* reattach_for_device lists the sessions of the device.
Keys(p) ==
    /\ At(p, "keys")
    /\ managerLock = None
    /\ IF registry = None THEN Return(p) ELSE Goto(p, "fetch")
    /\ UNCHANGED <<registry, managerLock, peer, video, jobs, loop, world>>

\* PeerManager.close takes whatever session is registered now.
Pop(p) ==
    /\ At(p, "pop")
    /\ managerLock = None
    /\ registry' = None
    /\ IF registry = None
       THEN Return(p)
       ELSE proc' = [proc EXCEPT ![p].at = "detach", ![p].s = registry, ![p].back = "shut"]
    /\ UNCHANGED <<managerLock, peer, video, jobs, loop, world>>

-----------------------------------------------------------------------------
(* The loop.  Coroutines interleave at every await, so any pending job may   *)
(* be the next to finish.  The loop is free unless a callback blocks it.     *)

\* PeerSession(): the waiting thread registers it and lets the lock go.
Make(j) ==
    /\ loop = None
    /\ j.kind = "make"
    /\ made < MaxSessions
    /\ made' = made + 1
    /\ registry' = made + 1
    /\ managerLock' = None
    /\ proc' = [proc EXCEPT ![j.by].at = proc[j.by].back, ![j.by].s = made + 1]
    /\ jobs' = jobs \ {j}
    /\ UNCHANGED <<pc, wired, lost, video, loop, world>>

\* PeerSession() for a thread that has given up: nobody gets the session.
MakeLate ==
    /\ loop = None
    /\ late > 0
    /\ made < MaxSessions
    /\ late' = late - 1
    /\ made' = made + 1
    /\ orphans' = orphans \cup {made + 1}
    /\ UNCHANGED <<registry, managerLock, pc, wired, video, jobs, loop, proc, world>>

\* The caller of a job goes on, unless it has given up.
Answer(j, local) ==
    proc' = IF j.by = None THEN proc ELSE [proc EXCEPT ![j.by] = local]

OfferSucceeds(j) ==
    /\ loop = None
    /\ j.kind = "offer"
    /\ pc[j.s] # "closed"
    /\ pc' = [pc EXCEPT ![j.s] = IF @ = "new" THEN "open" ELSE @]
    /\ jobs' = jobs \ {j}
    /\ Answer(j, [proc[j.by] EXCEPT !.at = "fetch"])
    /\ UNCHANGED <<registry, managerLock, made, wired, lost, video, loop, world>>

OfferFails(j) ==
    /\ loop = None
    /\ j.kind = "offer"
    /\ jobs' = jobs \ {j}
    /\ Answer(j, Idle)
    /\ UNCHANGED <<registry, managerLock, peer, video, loop, world>>

StateEvent(s, cause) == [kind |-> "state", s |-> s, by |-> <<s, cause>>]

\* RTCPeerConnection.close: a change of state is reported, once.
Close(j) ==
    /\ loop = None
    /\ j.kind = "close"
    /\ pc' = [pc EXCEPT ![j.s] = "closed"]
    /\ jobs' = (jobs \ {j}) \cup (IF pc[j.s] \in {"new", "open", "failed"}
                                  THEN {StateEvent(j.s, "closed")} ELSE {})
    /\ Answer(j, Idle)
    /\ UNCHANGED <<registry, managerLock, made, wired, lost, video, loop, world>>

\* A negotiated connection fails, or the browser ends it.
PeerFails(s) ==
    /\ pc[s] = "open"
    /\ \/ pc' = [pc EXCEPT ![s] = "failed"] /\ jobs' = jobs \cup {StateEvent(s, "failed")}
       \/ pc' = [pc EXCEPT ![s] = "ended"] /\ jobs' = jobs \cup {StateEvent(s, "closed")}
    /\ UNCHANGED <<registry, managerLock, made, wired, lost, video, loop, proc, world>>

\* _on_state: without _on_closed nothing happens.
StateIgnored(j) ==
    /\ loop = None
    /\ j.kind = "state"
    /\ j.s \notin wired
    /\ jobs' = jobs \ {j}
    /\ UNCHANGED <<registry, managerLock, peer, video, loop, proc, world>>

\* _handle_close enters detach_video_source, on the loop.
StateHandled(j) ==
    /\ loop = None
    /\ j.kind = "state"
    /\ j.s \in wired
    /\ loop' = j.by
    /\ jobs' = jobs \ {j}
    /\ UNCHANGED <<registry, managerLock, peer, video, proc, world>>

\* The listener is gone; the rest is left to a thread that runs close.
LoopDetaches ==
    /\ loop # None
    /\ Silence(loop[1])
    /\ proc' = [proc EXCEPT ![loop] = [Idle EXCEPT !.at = "pop", !.call = "close"]]
    /\ loop' = None
    /\ UNCHANGED <<registry, managerLock, peer, jobs, world>>

-----------------------------------------------------------------------------
Arrival(t) ==
    OfferArrives(t) \/ OfferRebuilds(t) \/ ReattachArrives(t) \/ CloseArrives(t)

Step(p) ==
    \/ GetFinds(p) \/ GetMakes(p) \/ MakeTimesOut(p) \/ Wire(p) \/ Negotiate(p)
    \/ Shut(p) \/ WaitTimesOut(p) \/ Fetch(p) \/ Attach(p) \/ AttachNests(p)
    \/ Detach(p) \/ Keys(p) \/ Pop(p)

Run(j) ==
    \/ Make(j) \/ OfferSucceeds(j) \/ OfferFails(j) \/ Close(j)
    \/ StateIgnored(j) \/ StateHandled(j)

LoopStep == LoopDetaches \/ MakeLate \/ \E j \in jobs : Run(j)

Next ==
    \/ \E t \in Thread : Arrival(t)
    \/ \E p \in Proc : Step(p)
    \/ LoopStep
    \/ \E s \in Session : PeerFails(s)

Spec == Init /\ [][Next]_vars

\* Threads and the loop run when they can; calls and failures owe nothing.
FairSpec == Spec /\ WF_vars(LoopStep) /\ \A p \in Proc : WF_vars(Step(p))

-----------------------------------------------------------------------------
(* Properties.                                                               *)

TypeOK ==
    /\ registry \in Session \cup {None}
    /\ managerLock \in Proc \cup {None}
    /\ \A p \in Proc : managerLock = p <=> At(p, "making")
    /\ made \in 0..MaxSessions
    /\ pc \in [Session -> {"new", "open", "failed", "ended", "closed"}]
    /\ wired \subseteq Session
    /\ late \in Nat
    /\ orphans \subseteq 1..made
    /\ source \in [Session -> Client \cup {None}]
    /\ listens \in [Session -> SUBSET Client]
    /\ lock \in [Session -> Proc \cup {None}]
    /\ jobs \subseteq Job
    /\ loop \in Cleaner \cup {None}
    /\ proc \in [Proc -> Local]
    /\ current \in Client
    /\ calls \in 0..MaxCalls

\* A session's frames come from one client: whatever attaches, detaches and
\* replacements race, no listener is left on a client the session has left.
OneSource == \A s \in Session : listens[s] \subseteq {source[s]}

\* A peer connection that is not registered is closed, or a thread or a job that
\* will close it still holds it.  What can leak is a connection made after its
\* thread gave up, and that one is never negotiated, wired or given a source.
NoLeakedPeer ==
    \A s \in 1..made :
        \/ registry = s
        \/ pc[s] = "closed"
        \/ \E p \in Proc :
              proc[p].s = s /\ proc[p].call = "close" /\ proc[p].at \in {"detach", "shut"}
        \/ \E j \in jobs : j.kind = "close" /\ j.s = s
        \/ s \in orphans /\ pc[s] = "new" /\ s \notin wired /\ source[s] = None

\* A thread whose next step needs no lock, or one that is free.  A thread that
\* waits for the loop can step: run_sync gives up.
CanStep(p) ==
    \/ proc[p].at \in {"making", "wire", "negotiate", "offering", "shut", "closing", "fetch"}
    \/ proc[p].at \in {"get", "keys", "pop"} /\ managerLock = None
    \/ proc[p].at \in {"attach", "detach"} /\ lock[proc[p].s] = None

\* The thread that has the lock of the session waits for it: attach_video_source
\* has called detach_video_source.
Nested(s) ==
    \E p \in Proc : lock[s] = p /\ At(p, "detach") /\ proc[p].s = s /\ proc[p].back = "attach"

\* Threads and the loop hang for one cause only: the lock of a session whose
\* holder waits for it itself.  Every other wait is for a thread that can go on.
OneWayToHang ==
    /\ \A p \in Proc :
          \/ At(p, "idle") \/ CanStep(p)
          \/ /\ proc[p].at \in {"get", "keys", "pop"}
             /\ \E q \in Proc : managerLock = q /\ CanStep(q)
          \/ proc[p].at \in {"attach", "detach"} /\ Nested(proc[p].s)
    /\ loop # None => lock[loop[1]] = None \/ Nested(loop[1])

-----------------------------------------------------------------------------
(* What comments of the source say, and the code does not do.                *)

\* services/webrtc_session.py:106: the detach of _handle_close is "synchronous,
\* safe inside the asyncio loop".
LoopReturns == loop # None ~> loop = None

\* services/webrtc_session.py:114-120: the cleanup of a session that ended
\* removes that session, and not one the tab has opened since.
CleanupIsOwn == \A q \in Cleaner : proc[q].s \in {None, q[1]}

\* services/webrtc_session.py:76-82: a peer that ended is cleaned up, and not
\* kept until the tab's socket disconnects.
LostIsRemoved ==
    \A s \in Session : (registry = s /\ pc[s] \in {"failed", "ended"}) ~> registry # s
=============================================================================
