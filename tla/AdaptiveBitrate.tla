-------------------------- MODULE AdaptiveBitrate --------------------------
(* The adaptive bitrate of one device: the BitrateController of each peer    *)
(* (scrcpy/webrtc/bitrate_controller.py), its switch and its workers         *)
(* (services/adaptive.py, PeerManager.set_adaptive), and the owner's own     *)
(* /reconfigure.                                                             *)
(*                                                                           *)
(* Controllers run on the asyncio loop.  One that decides on a bitrate       *)
(* believes in it at once and hands it to a thread, which reconfigures the   *)
(* device and moves the peers to the new client, one after the other;        *)
(* nothing orders the threads.  reconfigure, which its lock serialises       *)
(* (ScrcpyClients), and the move of one peer (PeerSessions) are one step     *)
(* each here.                                                                *)
EXTENDS Integers, Sequences, FiniteSetsExt

CONSTANTS
    Peer,            \* the peers that watch the device
    Thread,          \* request threads that switch the adaptive mode
    NoPeer,          \* the peer of a thread between two peers
    Wanted,          \* bitrates the owner may ask for
    MaxControllers,  \* bound on the controllers made
    MaxJobs,         \* bound on the reconfiguring threads at a time
    MaxEvents        \* bound on the ticks and requests

ASSUME BitrateAssumption ==
    /\ NoPeer \notin Peer /\ Wanted \subseteq Nat \ {0}
    /\ {MaxControllers, MaxJobs, MaxEvents} \subseteq Nat

VARIABLES
    ctl,      \* the controllers made: current_bps, cooldown, task
    made,     \* how many they are
    ctrl,     \* _bitrate_ctrl of each peer's session, 0 for none
    open,     \* the session of the peer is registered
    thread,   \* the switching requests
    jobs,     \* the threads that reconfigure
    config,   \* the bitrate in _device_config
    client,   \* the client in the registry, 0 if it did not come up
    clients,  \* clients made so far
    source,   \* the client each peer is attached to
    late,     \* the peers moved last to a client that was replaced (history)
    events    \* events so far

vars == <<ctl, made, ctrl, open, thread, jobs, config, client, clients, source,
          late, events>>
controllers == <<ctl, made, ctrl, open, thread>>
device == <<config, client, clients, source, late>>

-----------------------------------------------------------------------------
(* The ladder.                                                               *)

MIN_BITRATE == 500000
MAX_BITRATE == 20000000
LADDER_KBPS == <<500, 800, 1200, 2000, 3000, 5000, 8000, 12000, 16000, 20000>>
Initial == 4000000   \* the bitrate of _DEFAULT_CLIENT_KWARGS

\* The rung so many steps below the last one that is not above kbps.
LadderStepBelow(kbps, steps) ==
    LET rungs == {i \in DOMAIN LADDER_KBPS : LADDER_KBPS[i] <= kbps}
        rung == IF rungs = {} THEN 1 ELSE Max(rungs)
    IN  LADDER_KBPS[Max({1, rung - steps})]

Clamped(b) == Max({MIN_BITRATE, Min({MAX_BITRATE, b})})

Regime == {"HEALTHY", "STEADY", "STRESSED", "CRITICAL"}

\* _decide_target.  The ceiling over the send rate is never below the raise.
Decided(regime, b) ==
    LET kbps == b \div 1000
    IN  CASE regime = "CRITICAL" -> LadderStepBelow(kbps, 2) * 1000
          [] regime = "STRESSED" -> LadderStepBelow(kbps, 1) * 1000
          [] regime = "HEALTHY" -> Clamped(((kbps * 11) \div 10) * 1000)
          [] OTHER -> b

Distance(a, b) == IF a < b THEN b - a ELSE a - b

\* _maybe_apply: at least MIN_CHANGE_RATIO, 12%.
Worth(target, b) == 100 * Distance(target, b) >= 12 * b

-----------------------------------------------------------------------------
(* State.                                                                    *)

Controller == [p : Peer, bps : Nat, cool : BOOLEAN, runs : BOOLEAN]

\* left: the keys still to look up; p: the session in hand; old: the controller
\* whose stop its coroutine waits for.
Idle == [at |-> "idle", op |-> "enable", initial |-> 0, left |-> {}, p |-> NoPeer, old |-> 0]
Request == [at : {"idle", "loop", "run", "stopping"}, op : {"enable", "disable", "close"},
            initial : Nat, left : SUBSET Peer, p : Peer \cup {NoPeer}, old : Nat]

\* A thread that reconfigures, by a controller or by the owner; left: the keys it
\* has still to look up.
Job == [n : Nat, by : {"controller", "owner"}, bps : Nat,
        at : {"reconfigure", "alive", "reattach"}, client : Nat, left : SUBSET Peer]

NewJob(by, b) == [n |-> CHOOSE n \in 1 .. MaxJobs : \A j \in jobs : j.n # n,
                  by |-> by, bps |-> b, at |-> "reconfigure", client |-> 0, left |-> {}]
Room == Cardinality(jobs) < MaxJobs

Init ==
    /\ ctl = <<>> /\ made = 0
    /\ ctrl = [p \in Peer |-> 0] /\ open = Peer
    /\ thread = [t \in Thread |-> Idle]
    /\ jobs = {}
    /\ config = Initial /\ client = 1 /\ clients = 1
    /\ source = [p \in Peer |-> 1]
    /\ late = {} /\ events = 0

Arrives == events < MaxEvents /\ events' = events + 1

-----------------------------------------------------------------------------
(* Switching: set_adaptive, and the close of a session.                      *)

\* A request with keys left goes on with the next; it ends with the last.
Loops(q, left) ==
    IF left = {} THEN Idle
    ELSE [q EXCEPT !.at = "loop", !.left = left, !.p = NoPeer, !.old = 0]

\* The bitrate and the keys of the sessions are read before the first is switched.
SetAdaptive(t, op) ==
    /\ Arrives
    /\ thread[t].at = "idle"
    /\ op \in {"enable", "disable"}
    /\ thread' = [thread EXCEPT ![t] = Loops([Idle EXCEPT !.op = op, !.initial = config], open)]
    /\ UNCHANGED <<ctl, made, ctrl, open, jobs, device>>

\* The session leaves the registry, and its coroutine is still to run.
CloseSession(t, p) ==
    /\ Arrives
    /\ thread[t].at = "idle" /\ p \in open
    /\ open' = open \ {p}
    /\ thread' = [thread EXCEPT ![t] = [Idle EXCEPT !.at = "run", !.op = "close", !.p = p]]
    /\ UNCHANGED <<ctl, made, ctrl, jobs, device>>

\* Each key is looked up again: a session that was closed meanwhile is skipped.
LooksUp(t) ==
    LET q == thread[t]
    IN  \E p \in q.left :
          /\ q.at = "loop"
          /\ thread' = [thread EXCEPT ![t] =
               IF p \in open THEN [q EXCEPT !.at = "run", !.left = q.left \ {p}, !.p = p]
               ELSE Loops(q, q.left \ {p})]
          /\ UNCHANGED <<ctl, made, ctrl, open, jobs, device, events>>

\* What is left to do for the session once the coroutine waits for no controller.
\* It sets the session's controller whatever that is by now.
Finish(t) ==
    LET q == thread[t]
    IN  /\ IF q.op = "enable"
           THEN /\ made < MaxControllers
                /\ made' = made + 1
                /\ ctl' = Append(ctl, [p |-> q.p, bps |-> q.initial, cool |-> FALSE, runs |-> TRUE])
                /\ ctrl' = [ctrl EXCEPT ![q.p] = made']
           ELSE ctrl' = [ctrl EXCEPT ![q.p] = 0] /\ UNCHANGED <<ctl, made>>
        /\ thread' = [thread EXCEPT ![t] = Loops(q, q.left)]

\* Mutant: the controller in place is dropped without a stop.
InPlace_ignored(p) == FALSE
InPlace(p) == ctrl[p] # 0

\* The coroutine for one session: without a controller it does not wait.
Switch(t) ==
    /\ thread[t].at = "run"
    /\ ~InPlace(thread[t].p)
    /\ Finish(t)
    /\ UNCHANGED <<open, jobs, device, events>>

\* BitrateController.stop cancels the task and waits for it.
StopsOld(t) ==
    LET old == ctrl[thread[t].p]
    IN  /\ thread[t].at = "run"
        /\ InPlace(thread[t].p)
        /\ ctl' = [ctl EXCEPT ![old].runs = FALSE]
        /\ thread' = [thread EXCEPT ![t].at = "stopping", ![t].old = old]
        /\ UNCHANGED <<made, ctrl, open, jobs, device, events>>

Stopped(t) ==
    /\ thread[t].at = "stopping"
    /\ Finish(t)
    /\ UNCHANGED <<open, jobs, device, events>>

-----------------------------------------------------------------------------
(* A controller's tick.                                                      *)

\* _tick in a regime that the statistics classify: _decide_target, _maybe_apply.
Tick(i, regime) ==
    LET target == Clamped(Decided(regime, ctl[i].bps))
    IN  /\ Arrives
        /\ ctl[i].runs
        /\ IF Worth(target, ctl[i].bps) /\ ~ctl[i].cool
           THEN /\ Room
                /\ ctl' = [ctl EXCEPT ![i].bps = target, ![i].cool = TRUE]
                /\ jobs' = jobs \cup {NewJob("controller", target)}
           ELSE UNCHANGED <<ctl, jobs>>
        /\ UNCHANGED <<made, ctrl, open, thread, device>>

CooldownEnds(i) ==
    /\ ctl[i].cool
    /\ ctl' = [ctl EXCEPT ![i].cool = FALSE]
    /\ UNCHANGED <<made, ctrl, open, thread, jobs, device, events>>

-----------------------------------------------------------------------------
(* The threads that reconfigure.                                             *)

\* /reconfigure with a bitrate; the controllers are not told.
OwnerAsks(b) ==
    /\ Arrives
    /\ Room
    /\ jobs' = jobs \cup {NewJob("owner", b)}
    /\ UNCHANGED <<controllers, device>>

Move(j, k) == jobs' = (jobs \ {j}) \cup {k}
Ends(j) == jobs' = jobs \ {j}

\* The bitrate is kept also when the new client does not come up.
Reconfigure(j) ==
    /\ j.at = "reconfigure"
    /\ config' = j.bps
    /\ \/ clients' = clients + 1 /\ client' = clients'
       \/ UNCHANGED clients /\ client' = 0
    /\ Move(j, [j EXCEPT !.at = "alive", !.client = client'])
    /\ UNCHANGED <<controllers, source, late, events>>

\* Mutant: no client at all passes for the one in the registry.
Alive_any(c) == client = c
Alive(c) == c # 0 /\ client = c

\* Mutant: only the sessions that have a controller are listed.
Listed_adaptive == {p \in open : ctrl[p] # 0}
Listed == open

\* A client that is alive is what the listed sessions are moved to.
TestAlive(j) ==
    /\ j.at = "alive"
    /\ IF Alive(j.client) /\ Listed # {}
       THEN Move(j, [j EXCEPT !.at = "reattach", !.left = Listed])
       ELSE Ends(j)
    /\ UNCHANGED <<controllers, device, events>>

\* One session after the other, each looked up again before it is moved.
Reattach(j, p) ==
    /\ j.at = "reattach" /\ p \in j.left
    /\ IF p \in open
       THEN /\ source' = [source EXCEPT ![p] = j.client]
            /\ late' = IF client # j.client THEN late \cup {p} ELSE late \ {p}
       ELSE UNCHANGED <<source, late>>
    /\ IF j.left = {p} THEN Ends(j) ELSE Move(j, [j EXCEPT !.left = @ \ {p}])
    /\ UNCHANGED <<controllers, config, client, clients, events>>

-----------------------------------------------------------------------------

Next ==
    \/ \E t \in Thread :
         \/ \E op \in {"enable", "disable"} : SetAdaptive(t, op)
         \/ \E p \in Peer : CloseSession(t, p)
         \/ LooksUp(t) \/ Switch(t) \/ StopsOld(t) \/ Stopped(t)
    \/ \E i \in 1 .. made : CooldownEnds(i) \/ \E r \in Regime : Tick(i, r)
    \/ \E b \in Wanted : OwnerAsks(b)
    \/ \E j \in jobs : Reconfigure(j) \/ TestAlive(j) \/ \E p \in j.left : Reattach(j, p)

Spec == Init /\ [][Next]_vars

-----------------------------------------------------------------------------
(* Properties.                                                               *)

\* Types; a session's controller is one made for its peer, and the bitrates stay
\* within the limits, or what the owner asked for.
TypeOK ==
    /\ made \in 0 .. MaxControllers /\ ctl \in Seq(Controller) /\ Len(ctl) = made
    /\ \A p \in Peer : ctrl[p] # 0 => ctrl[p] <= made /\ ctl[ctrl[p]].p = p
    /\ open \subseteq Peer
    /\ thread \in [Thread -> Request]
    /\ \A j \in jobs : j \in Job
    /\ client \in 0 .. clients /\ source \in [Peer -> 1 .. clients]
    /\ \A b \in {config} \cup {ctl[i].bps : i \in 1 .. made} :
         b \in Wanted \/ (MIN_BITRATE <= b /\ b <= MAX_BITRATE)
    /\ late \subseteq Peer /\ events \in 0 .. MaxEvents

\* A controller that runs and that no close, disable or enable will find: its
\* session has another or none, or is out of the registry with its close past the
\* look at its controller.
Forgotten(i) ==
    /\ ctl[i].runs
    /\ \/ ctrl[ctl[i].p] # i
       \/ ctl[i].p \notin open
          /\ ~\E t \in Thread : /\ thread[t].op = "close" /\ thread[t].at = "run"
                               /\ thread[t].p = ctl[i].p

\* A coroutine was overtaken: while it waited the session got another controller
\* than the one it stops, or it enables a session that was closed under it.
Overtaken(t) ==
    \/ thread[t].at = "stopping" /\ ctrl[thread[t].p] # thread[t].old
    \/ thread[t].op = "enable" /\ thread[t].p \notin open

\* A controller is forgotten in one way only: by the end of a coroutine of its peer
\* that was overtaken.  Enable, disable and close in any other order leave none
\* running behind.
OneWayToForget ==
    [][\A i \in 1 .. made' : Forgotten(i)' /\ ~(i <= made /\ Forgotten(i)) =>
         \E t \in Thread : /\ thread[t].at \in {"run", "stopping"} /\ thread'[t].p # thread[t].p
                           /\ thread[t].p = ctl'[i].p /\ Overtaken(t)]_vars

\* "One controller per peer session." (bitrate_controller.py:74)
OnePerSession ==
    \A i, k \in 1 .. made : i # k /\ ctl[i].p = ctl[k].p => ~(ctl[i].runs /\ ctl[k].runs)

\* What close is for: the controller of a session ends with it.
EndsWithSession == \A i \in 1 .. made : ctl[i].p \notin open => ~Forgotten(i)

\* With no thread at work an open peer watches the client in the registry, unless
\* the thread that moved it last found its client alive, lost it to another
\* reconfigure, and moved the peer to it after all.
PeersFollow ==
    jobs = {} /\ client # 0 => \A p \in open : source[p] = client \/ p \in late

\* "STRESSED -> drop one ladder step (-25%)", "CRITICAL -> drop two"
\* (bitrate_controller.py:11): a controller never raises the bitrate of the stream.
StressLowers ==
    [][\A j \in jobs : Reconfigure(j) /\ j.by = "controller" => config' <= config]_vars

=============================================================================
