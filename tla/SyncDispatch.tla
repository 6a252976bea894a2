---------------------------- MODULE SyncDispatch ----------------------------
(* The mirroring of one master's input to the slaves of its group:           *)
(* services/sync/sync_dispatcher.py, the uiautomator2 calls of               *)
(* u2_executor.py, u2_inspect.py and failure_collector.py, and the           *)
(* connections of u2_pool.py.                                                *)
(*                                                                           *)
(* fanout runs on the asyncio loop and hands everything slow to a worker     *)
(* thread (a job), which drives its slaves in parallel, one task each.  A    *)
(* task asks again whether the slave is still in the group and still the     *)
(* owner's, then acts.  The group and the reservations change meanwhile, as  *)
(* SyncGroups lets them.  The coordinate path, which injects on the loop     *)
(* thread itself, keeps no state; it relies on SyncGroups!GroupBacked.       *)
EXTENDS Integers

CONSTANTS
    Slave,      \* devices that can be a slave of the group
    Master,     \* its master
    Job,        \* worker threads
    NoJob,      \* the holder of a free lock
    MaxEvents   \* bound on the events and requests

ASSUME DispatchAssumption ==
    Master \notin Slave /\ NoJob \notin Job /\ MaxEvents \in Nat

GroupDevice == Slave \cup {Master}

VARIABLES
    on,        \* the group exists and is enabled
    members,   \* its slaves
    mine,      \* the slaves its owner has reserved
    touch,     \* _touch_down: the DOWN of a gesture is remembered
    inflight,  \* _inflight: a semantic tap is being mirrored
    recent,    \* _last_tap is within the throttle interval
    job,       \* what each worker thread mirrors, and its tasks
    lock,      \* u2_pool.device_lock: the job whose task holds it
    pool,      \* u2_pool._devices: the connection of a device, 0 for none
    made,      \* connections made so far
    events     \* events so far

vars == <<on, members, mine, touch, inflight, recent, job, lock, pool, made, events>>
groupState == <<on, members, mine>>
throttle == <<touch, inflight, recent>>
u2 == <<lock, pool, made>>

-----------------------------------------------------------------------------
(* Jobs and tasks.                                                           *)

Place == {"none", "check", "owner", "want", "look", "connect", "rpc", "coord", "done"}

\* conn: the connection a task calls; locked: it holds the lock of its device.
Task == [at : Place, conn : Nat, locked : BOOLEAN]
NoTask == [at |-> "none", conn |-> 0, locked |-> FALSE]

\* tap: _semantic_tap_worker; text: _text_worker; direct: the swipe, keyevent and
\* directional workers, which do not use u2; inspect: a request of the u2 routes.
Kind == {"tap", "text", "direct", "inspect"}

Work == [kind : Kind, phase : {"idle", "start", "build", "drive"},
         slaves : SUBSET Slave, semantic : BOOLEAN, task : [GroupDevice -> Task]]

Idle == [kind |-> "inspect", phase |-> "idle", slaves |-> {}, semantic |-> FALSE,
         task |-> [d \in GroupDevice |-> NoTask]]

Init ==
    /\ on = TRUE
    /\ members = Slave
    /\ mine = Slave
    /\ touch = FALSE
    /\ inflight = FALSE
    /\ recent = FALSE
    /\ job = [j \in Job |-> Idle]
    /\ lock = [d \in GroupDevice |-> NoJob]
    /\ pool = [d \in GroupDevice |-> 0]
    /\ made = 0
    /\ events = 0

-----------------------------------------------------------------------------
(* The group and the reservations change under the workers.                  *)

Switched ==
    /\ on' = ~on
    /\ events < MaxEvents
    /\ events' = events + 1
    /\ UNCHANGED <<members, mine, throttle, job, u2>>

\* The reservation ends, and later the hook takes the slave out of the group.
Lost(d) ==
    /\ d \in mine
    /\ events < MaxEvents
    /\ events' = events + 1
    /\ mine' = mine \ {d}
    /\ UNCHANGED <<on, members, throttle, job, u2>>

Left(d) ==
    /\ d \in members \ mine
    /\ members' = members \ {d}
    /\ UNCHANGED <<on, mine, throttle, job, u2, events>>

-----------------------------------------------------------------------------
(* fanout, fanout_keyevent and fanout_swipe_direction, on the loop or in the *)
(* thread of a request.                                                      *)

Free(j) == job[j].phase = "idle"

\* Mutant: the copy is of all members of the group.
Spawn_all(j, kind) ==
    /\ Free(j)
    /\ events < MaxEvents
    /\ events' = events + 1
    /\ job' = [job EXCEPT ![j] = [Idle EXCEPT !.kind = kind, !.phase = "start",
                                              !.slaves = members \cup {Master}]]

\* A mirrored event of an enabled group starts a worker with a copy of its slaves.
Spawn(j, kind) ==
    /\ Free(j)
    /\ events < MaxEvents
    /\ events' = events + 1
    /\ job' = [job EXCEPT ![j] =
                  [Idle EXCEPT !.kind = kind, !.phase = "start", !.slaves = members]]

\* Semantic mode: the position of a DOWN is kept for the UP to come.
TouchDown ==
    /\ on
    /\ ~touch
    /\ touch' = TRUE
    /\ UNCHANGED <<groupState, inflight, recent, job, u2, events>>

\* An UP far from its DOWN is mirrored as a swipe.
TouchDrag(j) ==
    /\ on
    /\ touch
    /\ touch' = FALSE
    /\ Spawn(j, "direct")
    /\ UNCHANGED <<groupState, inflight, recent, u2>>

\* _allow_semantic_tap.
Allowed == ~inflight /\ ~recent

\* An UP at the place of its DOWN, or without one, is a tap.
TouchTap(j) ==
    /\ on
    /\ Allowed
    /\ touch' = FALSE
    /\ inflight' = TRUE
    /\ recent' = TRUE
    /\ Spawn(j, "tap")
    /\ UNCHANGED <<groupState, u2>>

\* The same UP, throttled: it is dropped.
TouchDropped ==
    /\ on
    /\ ~Allowed
    /\ touch
    /\ touch' = FALSE
    /\ UNCHANGED <<groupState, inflight, recent, job, u2, events>>

IntervalPasses ==
    /\ recent
    /\ recent' = FALSE
    /\ UNCHANGED <<groupState, touch, inflight, job, u2, events>>

\* A text, a quick keyevent or a directional swipe.
Mirror(j, kind) ==
    /\ on
    /\ Spawn(j, kind)
    /\ UNCHANGED <<groupState, throttle, u2>>

\* The ping, hierarchy, inspect and semantic routes: the owner of a device reads
\* its UI on the thread of the request.
Inspect(j, d) ==
    /\ Free(j)
    /\ events < MaxEvents
    /\ events' = events + 1
    /\ job' = [job EXCEPT ![j] = [Idle EXCEPT !.phase = "drive",
                                              !.task[d] = [NoTask EXCEPT !.at = "look"]]]
    /\ UNCHANGED <<groupState, throttle, u2>>

-----------------------------------------------------------------------------
(* The worker.                                                               *)

Begun(j) ==
    [d \in GroupDevice |-> IF d \in job[j].slaves THEN [NoTask EXCEPT !.at = "check"] ELSE NoTask]

\* Mutant: a worker that finds no group returns before its finally.
Released_not(j) == IF job[j].kind = "tap" /\ job[j].phase # "start" THEN FALSE ELSE inflight

\* _release_inflight, in the finally of the tap worker.
Released(j) == IF job[j].kind = "tap" THEN FALSE ELSE inflight

\* A tap looks the group up again; it is over if there is none.
StartGone(j) ==
    /\ job[j].phase = "start"
    /\ job[j].kind = "tap"
    /\ ~on
    /\ job' = [job EXCEPT ![j] = Idle]
    /\ inflight' = Released(j)
    /\ UNCHANGED <<groupState, touch, recent, u2, events>>

\* ... else it reads the UI of the master, without the lock of that device.
StartTap(j) ==
    /\ job[j].phase = "start"
    /\ job[j].kind = "tap"
    /\ on
    /\ job' = [job EXCEPT ![j].phase = "build",
                          ![j].task[Master] = [NoTask EXCEPT !.at = "look"]]
    /\ UNCHANGED <<groupState, throttle, u2, events>>

\* build_tap: a control worth clicking was found under the point, or not.
Built(j) ==
    /\ job[j].phase = "build"
    /\ job[j].task[Master].at = "done"
    /\ \E found \in BOOLEAN :
          job' = [job EXCEPT ![j].phase = "drive", ![j].semantic = found,
                             ![j].task = Begun(j)]
    /\ UNCHANGED <<groupState, throttle, u2, events>>

StartOther(j) ==
    /\ job[j].phase = "start"
    /\ job[j].kind # "tap"
    /\ job' = [job EXCEPT ![j].phase = "drive", ![j].task = Begun(j)]
    /\ UNCHANGED <<groupState, throttle, u2, events>>

\* The pool of the job is left when every task is done.
Ends(j) ==
    /\ job[j].phase = "drive"
    /\ \A d \in GroupDevice : job[j].task[d].at \in {"none", "done"}
    /\ job' = [job EXCEPT ![j] = Idle]
    /\ inflight' = Released(j)
    /\ UNCHANGED <<groupState, touch, recent, u2, events>>

-----------------------------------------------------------------------------
(* A task.                                                                   *)

At(j, d, place) == job[j].task[d].at = place
Become(j, d, task) == job' = [job EXCEPT ![j].task[d] = task]
Goto(j, d, place) == Become(j, d, [job[j].task[d] EXCEPT !.at = place])

\* _slave_still_valid: the group first.
Check(j, d) ==
    /\ At(j, d, "check")
    /\ Goto(j, d, IF on /\ d \in members THEN "owner" ELSE "done")
    /\ UNCHANGED <<groupState, throttle, u2, events>>

\* ... then the reservation, which counts as the owner's when it cannot be read.
\* The click and the text go through u2.
Owner(j, d) ==
    /\ At(j, d, "owner")
    /\ \E valid \in BOOLEAN :
          /\ d \in mine => valid
          /\ Goto(j, d, IF ~valid THEN "done"
                        ELSE IF job[j].kind = "text" \/ job[j].semantic THEN "want" ELSE "coord")
    /\ UNCHANGED <<groupState, throttle, u2, events>>

\* Mutant: execute_text does not take the lock.
Lockable_text(j, d) == lock[d] = NoJob \/ job[j].kind = "text"

\* The lock of the device is free.
Lockable(j, d) == lock[d] = NoJob

\* execute_click and execute_text enter the lock of their device.
Enter(j, d) ==
    /\ At(j, d, "want")
    /\ Lockable(j, d)
    /\ lock' = [lock EXCEPT ![d] = j]
    /\ Become(j, d, [job[j].task[d] EXCEPT !.at = "look", !.locked = TRUE])
    /\ UNCHANGED <<groupState, throttle, pool, made, events>>

\* u2_pool.get: a connection that is there is used.
Look(j, d) ==
    /\ At(j, d, "look")
    /\ Become(j, d, IF pool[d] = 0
                    THEN [job[j].task[d] EXCEPT !.at = "connect"]
                    ELSE [job[j].task[d] EXCEPT !.at = "rpc", !.conn = pool[d]])
    /\ UNCHANGED <<groupState, throttle, u2, events>>

\* The second look of u2_pool.get: a connection made meanwhile is preferred.
Kept(d) == IF pool[d] = 0 THEN made + 1 ELSE pool[d]

Connect(j, d) ==
    /\ At(j, d, "connect")
    /\ made' = made + 1
    /\ pool' = [pool EXCEPT ![d] = Kept(d)]
    /\ Become(j, d, [job[j].task[d] EXCEPT !.at = "rpc", !.conn = Kept(d)])
    /\ UNCHANGED <<groupState, throttle, lock, events>>

\* The task is through with u2: out of the lock to the fallback, or done.
Leave(j, d, place) ==
    /\ lock' = [lock EXCEPT ![d] = IF job[j].task[d].locked THEN NoJob ELSE @]
    /\ Become(j, d, [NoTask EXCEPT !.at = place])

\* The connection fails, or the click, the text or the capture does.
U2Fails(j, d) ==
    /\ At(j, d, "connect") \/ At(j, d, "rpc")
    /\ Leave(j, d, IF job[j].task[d].locked THEN "coord" ELSE "done")
    /\ UNCHANGED <<groupState, throttle, pool, made, events>>

U2Succeeds(j, d) ==
    /\ At(j, d, "rpc")
    /\ Leave(j, d, "done")
    /\ UNCHANGED <<groupState, throttle, pool, made, events>>

\* The drag, keyevent and directional workers act without u2, by the control
\* socket or a shell command; success or not, the task is over.
Direct(j, d) ==
    /\ At(j, d, "coord")
    /\ job[j].kind = "direct"
    /\ Goto(j, d, "done")
    /\ UNCHANGED <<groupState, throttle, u2, events>>

\* _coordinate_tap and _coordinate_text: the fallback of a click or a text.
Coordinate(j, d) ==
    /\ At(j, d, "coord")
    /\ job[j].kind # "direct"
    /\ Goto(j, d, "done")
    /\ UNCHANGED <<groupState, throttle, u2, events>>

\* A tap that failed both ways: failure_collector.capture, without the lock.
Capture(j, d) ==
    /\ At(j, d, "coord")
    /\ job[j].kind = "tap"
    /\ Goto(j, d, "look")
    /\ UNCHANGED <<groupState, throttle, u2, events>>

TaskStep(j, d) ==
    \/ Check(j, d) \/ Owner(j, d) \/ Enter(j, d) \/ Look(j, d) \/ Connect(j, d)
    \/ U2Fails(j, d) \/ U2Succeeds(j, d) \/ Coordinate(j, d) \/ Direct(j, d)
    \/ Capture(j, d)

JobStep(j) ==
    StartGone(j) \/ StartTap(j) \/ Built(j) \/ StartOther(j) \/ Ends(j)

Next ==
    \/ Switched
    \/ \E d \in Slave : Lost(d) \/ Left(d)
    \/ TouchDown \/ TouchDropped \/ IntervalPasses
    \/ \E j \in Job :
        \/ TouchDrag(j) \/ TouchTap(j)
        \/ \E kind \in {"text", "direct"} : Mirror(j, kind)
        \/ \E d \in GroupDevice : Inspect(j, d) \/ TaskStep(j, d)
        \/ JobStep(j)

Spec == Init /\ [][Next]_vars

\* Threads run on.  Nothing is asked of the lock but that it is granted to
\* somebody: the events, and so the tasks that want it, are bounded.
FairSpec ==
    /\ Spec
    /\ \A j \in Job : WF_vars(JobStep(j)) /\ \A d \in GroupDevice : WF_vars(TaskStep(j, d))

-----------------------------------------------------------------------------
(* Properties.                                                               *)

\* Every variable has its type.
TypeOK ==
    /\ on \in BOOLEAN
    /\ members \subseteq Slave
    /\ mine \subseteq Slave
    /\ touch \in BOOLEAN
    /\ inflight \in BOOLEAN
    /\ recent \in BOOLEAN
    /\ job \in [Job -> Work]
    /\ lock \in [GroupDevice -> Job \cup {NoJob}]
    /\ pool \in [GroupDevice -> Nat]
    /\ made \in Nat
    /\ events \in 0..MaxEvents

\* One semantic worker of a master at a time, however fast its user taps: "at
\* most one in-flight worker per master" (sync_dispatcher.py).
OneTapWorker ==
    \A i, j \in Job :
        (/\ i # j /\ ~Free(i) /\ ~Free(j)) => ~(job[i].kind = "tap" /\ job[j].kind = "tap")

\* A click or a text never meets another click or text on the connection of its
\* device.
ActionsSerialised ==
    \A i, j \in Job, d \in GroupDevice :
        (/\ At(i, d, "rpc") /\ At(j, d, "rpc")
         /\ job[i].task[d].locked /\ job[j].task[d].locked) => i = j

\* All callers of a device share the connection the pool keeps, also when several
\* connected at once.
OneConnection ==
    \A j \in Job, d \in GroupDevice : At(j, d, "rpc") => job[j].task[d].conn = pool[d]

\* What the throttle, the device locks and the pool are for, whatever the order of
\* the workers: one tap of a master, one locked action and one connection of a
\* device at a time.
WorkersExclude == OneTapWorker /\ ActionsSerialised /\ OneConnection

\* A tap that is being mirrored is over some time, so the next one can be.
TapsComeBack == inflight ~> ~inflight

\* No two u2 calls run on one device at once: "Per-serial lock to serialise u2 RPC
\* calls to ONE device" (u2_pool.py).
CallsSerialised ==
    \A i, j \in Job, d \in GroupDevice : At(i, d, "rpc") /\ At(j, d, "rpc") => i = j
=============================================================================
