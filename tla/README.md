# Formal models of WebAppFlaskscrcpy

The repository is a Flask + Socket.IO + aiortc server that mirrors Android
devices into browsers: it starts scrcpy servers over adb, forwards their H.264
to WebRTC peers, dispatches input back, lends each device to one user at a time
(reservations), keeps accounts, an adb terminal per tab, takes uploads, adapts
the bitrate, and has an experimental "sync" mode that replays one device's
input on several others.

This directory models the parts of the server whose correctness is a matter of
interleaving: threads, callbacks and the asyncio loop that read and change
shared state. The models are written in TLA+, checked with TLC on small
instances, and every safety property that a passing run checks is proved with
TLAPS for every instance.

    tlc -workers 2 -config Reservations_safety.cfg MCReservations
    tlapm ReservationsProofs.tla

Every proof is checked from nothing in well under five minutes, the eight
modules together in about a quarter of an hour.

`PROJECT.json` lists the components, the runs with what each is expected to
give, a mutation of the code per property that breaks it, the source lines
behind every definition, the finding and the hazards.

Paths below are relative to `src/`.

## 1. Inventory

| Component | State it keeps | Operations | Hard behaviour | What makes it correct |
|---|---|---|---|---|
| Reservations (`services/reservations.py`, `api/reservations.py`) | rows of `device_reservations` | claim, extend, release, lazy reap, sweep, owner gate | each statement is a transaction of its own; teardown runs after the commit | one holder per device; capped leases; every end tears the session down; only what is over or authorised ends |
| Scrcpy clients (`scrcpy/scrcpyclients.py`, `scrcpy/scrcpycore.py`, `services/scrcpy_lifecycle.py`) | `_clients`, `_device_config`, a lock per device, `Client.alive`, listeners, `_attached` | get, peek, reconfigure, stop, stream loop, attach | two locks, one reentrant; stop outside the device lock; a stream thread that stops its own client; tests of `alive` before acts | no scrcpy server without somebody to stop it; stored parameters honoured; tabs follow the client that streams |
| WebRTC peers (`scrcpy/webrtc/peer_manager.py`, `services/webrtc_session.py`, `scrcpy/webrtc/async_runner.py`, `api/webrtc.py`) | registry by (sid, device), the sessions, source and listener of each, two kinds of lock, jobs of the loop | offer, close, reattach, state callbacks, cleaner threads | threads wait with a timeout for coroutines while they hold a lock; callbacks run on the loop; a session can be replaced at every step | no leaked peer connection; one video source per session; nobody waits for ever |
| Video track and stream parser (`scrcpy/webrtc/video_track.py`, `scrcpy/scrcpycore.py`) | buffer, parameter-set cache, listeners, keyframe gate, pts offset, bounded queue | parse, call listeners, push, enqueue, recv | three threads; a full queue drops its oldest packet; device time steps back; a bogus header clears the buffer in the middle of a packet; the track moves to another client | frames in order, each gap a known loss, the gate opened by a keyframe; times strictly rise |
| Server-info cache (`scrcpy/scrcpyclients.py`) | answers with a TTL | read, invalidate | an answer fetched before an invalidation is stored after it | no stale answer after a push |
| Adaptive bitrate (`scrcpy/webrtc/bitrate_controller.py`, `services/adaptive.py`) | a controller per peer, the switch | enable, disable, tick; workers that reconfigure | workers of two peers in no order; enable and disable wait for the old controller | no controller is forgotten while it runs; peers end on the live client |
| Quality controller (`services/quality_controller.py`) | mode per device | enable, sample | never enabled by any caller | - |
| Sync groups (`services/sync/sync_groups.py`, `services/sync/lifecycle.py`, `api/sync.py`) | `_groups` | create, enable, remove slave, batch claim, delete, cascade | batch claim with rollback; a lost master releases the slaves; hooks call each other | a device in one group; members are the owner's |
| Sync dispatcher (`services/sync/sync_dispatcher.py`, `u2_executor.py`, `u2_pool.py`) | in-flight marks, throttle, device locks, connections | mirror a tap, text, key, swipe; the u2 routes | validation before a slow act on another thread; connections made outside the lock | one tap in flight, its mark returns; clicks and texts of a device serialised |
| Sync evidence (`services/sync/failure_collector.py`, `semantic_event_builder.py`, `u2_inspect.py`) | none shared | screenshots, selector scoring | their u2 calls meet the dispatcher's | - |
| Adb terminal (`terminal/adb_shell.py`, `terminal/routes.py`) | shell per tab | open, write, resize, close, pump thread | non-reentrant write lock; published before it is started | no shell is lost but by a close before its start; what the tab reaches is read; events return |
| File transfer (`services/file_transfer.py`, `services/uploads.py`, `services/app_manager.py`) | transfers by id, staged files | push, chunk, end; the form; install with recovery | one loop for all tabs' messages; replaced connections; two installs at once; timeouts | what is reported done is whole; a lost app is reported; every upload settles |
| Accounts (`services/authentication.py`, `api/authentication.py`, `services/rate_limit.py`) | users, sessions, failures in a window | register, login, logout, password, manage | decisions on rows read earlier; failures recorded after the check | old sessions end; a super_admin is left; the lock bites |
| Database (`services/database.py`) | SQLite | connect, seed, wipe, cascade | start-up wipe | no reservation and no session survives a restart |
| Device watcher (`services/device_watch.py`) | last list | poll | calls `stop_client` at any time | gone devices stop |
| Input channel, device tools, start-up | none shared | one command per request | I/O | - |
| Browser UI (`frontend/src`) | peers, epochs, uploads | connect, closed events, freeze monitor | events that carry only the device id | a tab's stream is not torn down by old events |

How they interact. An HTTP or Socket.IO handler runs on a thread of its own and
calls the services directly. `api/webrtc.py` asks Reservations who may control
a device, then `webrtc_session.start_session` asks the client registry for a
client and the peer manager for a session, and hands the SDP to the asyncio
loop. A client calls listeners on its stream thread: lifecycle events go to
all tabs, video packets to every attached session. Messages of the DataChannels
(input, files) are handled on the loop. A reservation that ends stops the
client, closes the peers and tells the sync groups (`_teardown`). The device
watcher stops clients, the adaptive workers reconfigure them and reattach the
peers.

What the rows of `PROJECT.json` under "hazards" have in common: a value is read
under a lock or in a transaction, and used after it.

## 2. Modules

| Module | Models | Run | Proofs |
|---|---|---|---|
| `DeviceLease` | the abstract promise: a device has one holder and becomes free before it changes hands | refinement target of `Reservations` | - |
| `Reservations` (`MCReservations` adds symmetry) | reservations, the routes, the sweeper, account deletion, restarts | `reservations_safety`, `reservations_liveness` | `ReservationsProofs` |
| `ScrcpyClients` | the registry of clients of one device, start and stop of a client, lifecycle events, the tab's epoch | `clients` | `ScrcpyClientsProofs` |
| `PeerSessions` (`MCPeerSessions` adds symmetry) | the peer manager and the asyncio loop for one (sid, device) | `peers` | `PeerSessionsProofs` |
| `SyncGroups` | groups, their routes and the hook of every teardown | `sync_groups`, `sync_rollback` | `SyncProofs` |
| `SyncDispatch` | the throttle, workers, locks and connections that mirror input | `sync_dispatch` | `SyncProofs` |
| `AdbTerminal` | the shell of one tab | `terminal` | `AdbTerminalProofs` |
| `VideoStream` (`MCVideoStream` adds a view) | packets from the socket to the sender of one peer, across a reconfigure | `stream` | `VideoProofs` |
| `Accounts` (`MCAccounts` adds symmetry) | accounts, login sessions, the limiter, restarts | `accounts` | `AccountsProofs` |
| `AdaptiveBitrate` (`MCAdaptiveBitrate` adds symmetry) | the controllers of one device and the workers that reconfigure it | `bitrate` | `VideoProofs` |
| `Uploads` | transfers, forms and installs on one device | `uploads` | `UploadsProofs` |

In all of them a thread is a program counter (the `at` of its record, or `pc`)
and its locals; an action is a stretch of code that no other thread can observe
half done: one SQL statement, one critical section, or one read or write of a
shared field outside of any lock. Where a module takes an operation of another
component as one step, its head comment says which module has the detail.
The two sync modules, and the two about video, are each proved about in one
module that extends both; `SyncGroups` and `VideoStream` therefore prefix the
names the other one has too (`GroupsSpec`, `StreamSpec`).
An operator with `Mutant:` in its comment is a plausible slip in the definition
after it; no specification uses it, it shows that the properties notice.

### 2.1 Reservations

State: `table` is `device_reservations` by primary key (`user`, `exp`), `users`
the accounts, `now` the clock. Each request thread has a place `pc`, its
arguments `req` and, once it decided to delete, the row `seen`. `sweep` is
where the sweeper is. `live` records who started a control session on a device
since it was last torn down, and the history variable `stray` names the devices
whose session no teardown is owed to: its owner's account was deleted (the
cascade tears nothing down), or it started when no reservation was left.

| Action | Code |
|---|---|
| `ClaimArrives`, `ReleaseArrives`, `OfferArrives` | the routes; `claim` clamps the minutes |
| `Held` | `_user_active_device`, and the refusal when another device is held |
| `GetCurrent`, `GetExpired`, `Reap`, `TearDownReaped` | `get` and its lazy reap |
| `InsertSucceeds`, `InsertRefused`, `Extend` | the INSERT and `_extend` |
| `Delete`, `TearDownReleased` | `release` |
| `StartSession`, `StartFails` | what follows `assert_owner` in the offer handler |
| `SweepSelect`, `SweepDelete`, `SweepTearDown` | `sweep` |
| `DeleteUser`, `Restart` | account deletion with its cascade; the wipe at start-up |

A statement commits alone, so threads interleave between any two of them. That
is the code's own granularity: `get_db_connection` opens a connection per call.

### 2.2 ScrcpyClients

One device, because devices share nothing but the short sections of
`_client_lock`. Clients are numbered in the order they are built; the number
stands for the lifecycle epoch. `_client_lock` is a variable only for the one
section that makes several steps (the fast path calls `attach` under it); all
other sections are single actions that need it free. `buildLock` is the per-device RLock,
with its depth.

| Actions | Code |
|---|---|
| `FastFinds`, `FastMisses`, `Lock`, `Recheck`, `Evict`, `Build`, `StartSucceeds`, `StartFails`, `Register`, `Unlock` | `peek_client`, `get_client` |
| `Outer`, `Pop`, `Leave` | `reconfigure` around it |
| `Take` | `stop_client` |
| `StopReads`, `StopMarks`, `StopCloses` | `Client.stop` |
| `AttachTests`, `AttachAdds`, `AttachReplays`, `AttachSkips` | `scrcpy_lifecycle.attach` |
| `StreamError`, `StreamEof`, `StreamEnds` | the stream loop |
| `AfterDisconnect` in `StopMarks`, `AttachReplays` | the epoch gate of the tab |

### 2.3 PeerSessions

One tab on one device. Sessions are numbered in the order they are made. `pc`
is the state of each peer connection, `source` and `listens` are the two halves
of an attached video source (the session's reference, the client's listener
list), `lock` is the session's plain `Lock`, `managerLock` the manager's while
a session is made under it, `jobs` the coroutines and events on the loop, `loop`
the state callback that is running there. A thread that gives up on the making
of a session leaves the coroutine on the loop: `late` counts those, and
`orphans` are the sessions they make, which nobody refers to. A cleaner, `<<s, cause>>`, is the
thread `_bg_cleanup` that the report of that ending starts.

| Actions | Code |
|---|---|
| `GetFinds`, `GetMakes`, `Make`, `MakeTimesOut`, `MakeLate` | `get_or_create`, which waits for the loop under the lock, and the coroutine that goes on after it gave up |
| `Wire` | the callbacks `start_session` sets |
| `Negotiate`, `OfferSucceeds`, `OfferFails` | `handle_offer` and its coroutine |
| `Shut`, `Close` | `PeerSession.close` and its coroutine |
| `WaitTimesOut` | `run_sync` giving up while the coroutine goes on |
| `Fetch`, `Attach`, `AttachNests`, `Detach`, `Silence` | `attach_video`, `attach_video_source`, `detach_video_source` |
| `Keys` | `reattach_for_device` |
| `Pop` | `PeerManager.close` |
| `PeerFails`, `StateIgnored`, `StateHandled`, `LoopDetaches` | connection states and `_handle_close` |
| `OfferRebuilds`, `ReattachArrives` | calls for which the scrcpy client was replaced |

aiortc is external. The model uses what this code relies on: a connection
reports each change of its state once, a close reports "closed", an offer can
fail at any time, and a finished offer opens the connection.

### 2.4 SyncGroups

`holder` is the reservation table without its clock; `groups` the objects made,
`listed` the ones in `_groups`. A thread is the list `todo` of the steps it has
still to take: a release is the DELETE and then the hook, and a hook that finds
a lost master puts the releases of the slaves in front of what its thread was
about to do. That is the code's recursion, without a stack.

| Actions | Code |
|---|---|
| `CreateArrives`, `Ask`, `Create`, `Claim`, `Insert`, `RollBack`, `Drop` | `create_group` of the route, with `sync_groups.create_group` |
| `DeleteArrives`, `Dissolve` | the delete route |
| `SetArrives`, `SetEnabled` | enable and disable |
| `ReleaseArrives`, `Delete`, `Hook` | any release, `_teardown`, `lifecycle.on_device_gone`, `remove_device` |
| `Claimed`, `AccountDeleted` | claims outside of groups; the cascade of an account |

### 2.5 SyncDispatch

A `job` is a worker thread (or the thread of a u2 route), with a task per slave
it drives in parallel. `lock` is `u2_pool.device_lock`, `pool` the cached
connections, `inflight` and `recent` the throttle of taps.

| Actions | Code |
|---|---|
| `TouchDown`, `TouchDrag`, `TouchTap`, `TouchDropped`, `Mirror`, `IntervalPasses` | `fanout`, `fanout_keyevent`, `fanout_swipe_direction`, `_allow_semantic_tap` |
| `StartTap`, `StartGone`, `Built`, `StartOther`, `Ends` | the workers |
| `Check`, `Owner` | `_slave_still_valid`, which lets a slave pass when the lookup of its reservation fails |
| `Enter`, `Look`, `Connect`, `U2Succeeds`, `U2Fails` | `execute_click`, `execute_text`, `u2_pool.get` |
| `Coordinate`, `Direct`, `Capture` | the fallbacks, and `failure_collector` |
| `Inspect` | the u2 routes |
| `Switched`, `Lost`, `Left` | what `SyncGroups` and `Reservations` do meanwhile |

The coordinate path of `fanout` injects on the loop into every member without
asking again. It has no state to model; what makes it right is
`SyncGroups!GroupBacked`.

### 2.6 AdbTerminal

`shell` holds the `AdbShellSession` objects with their transport, flags and
pump; `registered` is the tab's entry; `lock` the write locks.

| Actions | Code |
|---|---|
| `Open`, `Connect`, `GoLive`, `Fit` | `SessionRegistry.open`, `AdbShellSession.start` |
| `Input`, `Resize`, `Write`, `Type`, `Size` | the routes, `write`, `resize`; the lookup is without the registry's lock |
| `Close`, `BeginClose`, `Shut`, `Mark`, `Tell` | `close`, `_mark_closed` |
| `Drops`, `PumpEof`, `PumpLeaves`, `PumpMarks` | the device, and the pump thread |

### 2.7 VideoStream

Two clients, the second of which replaces the first in a reconfigure, and one
peer with its track. A packet is its stream, kind, number and time. `parser` says
whether the first packet on the wire is there without its head: a bogus header
clears the buffer, and what had arrived of the next packet goes with it. The
tail that follows is read as headers; these may look bogus again, or pass for
the header of a frame of any length, which then swallows what comes after. Such
a frame has the number `Junk`. `lost` is the history of what was dropped by the
parser or the decoder, and what the full queue evicted.

| Actions | Code |
|---|---|
| `Emits`, `Garbles` | the device: config, keyframe, deltas, keyframes at any time; an encoder reset; a bad header |
| `Parse`, `Clear`, `Misread` | `_consume_video_packets`: in step, at a bogus header, and out of step |
| `Handle`, `DecodeFails` | `__handle_video_frame`, the stream loop's `except` |
| `Listen` | the listener of `attach_video_source`, with `push_bootstrap` and `push_frame` |
| `Enqueue`, `Recv` | the loop and the sender of the track |
| `Attach`, `Stop`, `Replace` | attach, `Client.stop`, `reconfigure` |

### 2.8 Accounts

`users`, `sessions` are the tables, `hits` and `blocked` the limiter by its key
(the address of the request with the name or the e-mail that was typed, so one
account has several: `Via` are these ways to try it), `pw` numbers the
passwords of an account. `stale` and the `late` of a session are history: the
write, or the insert, relied on a row that had changed since it was read.

| Actions | Code |
|---|---|
| `Register`, `Login`, `Verify`, `Record`, `Unlock`, `Insert`, `Leave` | register, login with its limiter, logout or expiry |
| `HitExpires`, `LockExpires` | the window and the lock of `RateLimiter` |
| `Manage`, `Read`, `Write`, `Revoke`, `Create` | create, delete, enable, disable, update of an account; change of password |
| `Boot` | a restart: `init_db` and an empty memory |

### 2.9 AdaptiveBitrate

`ctl` are the controllers made, `ctrl` the one each session holds, `jobs` the
threads that reconfigure. The ladder, the clamp and the 12% threshold are the
code's arithmetic on integers.

| Actions | Code |
|---|---|
| `SetAdaptive`, `LooksUp` | `PeerManager.set_adaptive`: the keys first, then each of them looked up again |
| `CloseSession` | `PeerManager.close` |
| `Switch`, `StopsOld`, `Stopped` | the coroutine of one session: `enable_adaptive_bitrate`, `disable_adaptive_bitrate`, `BitrateController.stop` |
| `Tick`, `CooldownEnds` | `_tick`, `_decide_target`, `_maybe_apply` |
| `Reconfigure`, `TestAlive`, `Reattach` | the worker of `services/adaptive.py`, and the reconfigure route; the peers are moved one after the other |
| `OwnerAsks` | the route |

### 2.10 Uploads

`tab` is `handleUploadFile` of each upload, `sent` and `replies` the two
directions of its channel, `transfers` the registry, `job` the finaliser of a
staged file, of which there can be one per path: the channel, the form, and the
form with force that follows a mismatch. `loop` is busy while a `file.end`
installs, so no other message is handled.

| Actions | Code |
|---|---|
| `Drop`, `Stream`, `Receive`, `Timeout` | `handleUploadFile`, `uploadViaDataChannel` |
| `HandlePush`, `HandleChunk`, `HandleEnd` | `adb_dispatch.dispatch`, `file_transfer` |
| `StageForm` | `upload_file`, `stage_and_dispatch`; a save that fails may leave its file |
| `CopyFile`, `CopyApk`, `Install`, `Uninstall`, `Clean` | `device.push`, `install_from_local`; a push that fails may leave what it wrote |
| `AnswerOnChannel`, `AnswerForm` | the answers, with the `finally` that unlinks |
| `Disconnect`, `Reconnect` | the tab's connection is replaced; what was in flight is lost |

The last chunk and `file.end` leave the tab in one turn of its event loop, so
one cannot be lost without the other: `DoneIsWhole` rests on that.

## 3. Runs

States are distinct states of the complete search.

| Run | Bounds | States | What it shows |
|---|---|---|---|
| `reservations_safety` | 1 device, 2 users and an administrator, 2 request threads, the sweeper, minutes asked {0, 9} with a cap of 1, clock 0..3 | 1,163,968 | leases capped (`LeaseWithinCap`), exclusive (`ExclusiveLease`, a refinement of `DeviceLease`), every decision to end one authorised (`EndAuthorised`), no session forgotten (`OrphanHasReaper`) |
| `reservations_liveness` | 2 devices, 2 users (one deletable, one administrator), 1 request thread, both values of `allow_multi`, clock 0..2 | 146,444 | what is over goes (`ExpiredIsReaped`), what is orphaned is torn down (`OrphanIsTornDown`) |
| `clients` | 2 threads, 3 calls (so at most 3 clients), 2 configurations | 207,374 | no orphaned server (`NoOrphanServer`), parameters honoured (`ConfigHonoured`), late disconnects cost no tab its stream (`StreamingClientIsCurrent`), every call returns (`CallsReturn`) |
| `peers` | 2 threads, 3 calls, 2 sessions, 2 clients | 644,151 | no leaked connection but one made after its thread gave up, which is never negotiated or fed (`NoLeakedPeer`), no listener left behind (`OneSource`), one cause of a hang only (`OneWayToHang`) |
| `sync_groups` | 2 users (one deletable), 3 devices, 2 threads, 2 groups, 3 requests | 1,424,535 | a device in one group (`OneGroupPerDevice`); members are the owner's or on their way out (`GroupBacked`) |
| `sync_rollback` | the same | violated | the finding of section 4 |
| `sync_dispatch` | a master, 1 slave, 2 workers, 4 events | 327,112 | workers keep out of each other's way (`WorkersExclude`: one tap in flight, clicks and texts of a device serialised, one connection per device); the mark of a tap returns (`TapsComeBack`) |
| `terminal` | 2 devices, 2 sessions, 2 threads, 5 events | 359,095 | what the tab reaches is read (`LiveIsServed`); a shell is lost only by a close that overtook its start (`OneWayToLose`); events return but for the broken pipe (`HandlersReturn`) |
| `stream` | 2 clients, 5 packets, 1 of them bogus, 1 frame made up, 2 on a wire, a queue of 2, times {100, 130} | 2,249,669 | from the keyframe that opened the gate on, each frame is taken in its turn or was dropped or evicted (`Playable`); times rise (`TimesRise`) |
| `accounts` | the two seeds and a user, 2 ways to try an account, 2 threads, 5 requests, 2 failures to a lock | 1,420,550 | old sessions end (`OldSessionsEnd`), a super_admin is left (`BreakGlass`), a lock leaves no room for guesses but those under way (`LockBites`) |
| `bitrate` | 2 peers, 2 switching requests, 3 controllers, 2 workers, 4 events | 2,368,033 | a running controller is forgotten only by a coroutine that was overtaken (`OneWayToForget`); peers follow the client (`PeersFollow`) |
| `uploads` | 2 tabs, 2 chunks, 2 signing keys, 1 lost connection | 464,663 | done means whole (`DoneIsWhole`), a lost app is reported (`LossIsTold`), every upload settles (`UploadSettles`) |

Why the bounds are enough. Every hazard in these components is between two
actors, with the sweeper, a stream thread, a cleaner, a pump or the loop as a
third, and all of these are there in the passing runs. One unit of lease time
and a clock of three let a lease start, expire, be claimed again and expire
again while a thread still carries the first row. Rows of different devices
meet only in the one-device-per-user check and in the set a sweep removes, so
safety uses one device and liveness two. Three calls on one scrcpy device are a
client, its replacement and a call that comes late to either; three calls on a
peer are the session, its end and the next session, with the cleaners those give
rise to on top. Two groups of three devices can ask for the same device, and
three requests let one be created while another is deleted and a lease ends.
Two workers on one slave meet at its lock and its connection; slaves share
nothing. Five events let a shell be opened, replaced, typed into and closed
while the other thread still starts it. Five packets are a config packet, a
keyframe and two deltas with the bogus header among them, or a stream and the
start of its successor; six of them without a bogus header (1,487,908 states)
were checked once, and so were three sessions of a peer (4,186,424). A lock
after two failures leaves a third to come behind it. Five requests are enough
for two logins, a change of password, a demotion and a restart. Two chunks are
a first that can be lost and a last that goes with the end. The proofs remove
the bounds for every safety property; liveness rests on them.

Symmetry: threads are interchangeable and TLC merges them where the MC module
says so, and so are the ways to try an account in `MCAccounts`; devices are
merged only where no temporal property is checked, and nothing is merged in the
runs with liveness. The view of `MCVideoStream` leaves
out what no later step and no property can tell apart: how the bounds were used
up, what is left in the buffers of a stopped client, the content of a packet
whose head is gone, and the flags of the frame taken last, which the properties
read in the step that takes it. `CHECK_DEADLOCK FALSE` is set
because the bounds on calls and time let the models come to rest; the liveness
properties and `OneWayToHang` say what may be at rest.

Fairness. `FairSpec` gives weak fairness to each thread, the sweeper, the pump,
the loop and the tab's own steps: each is scheduled by the operating system or
the browser, and the sweeper's loop catches every exception (`_loop` of
`start_sweeper`). It gives none to users, the clock, restarts, account deletion,
stream errors, ends of stream, failing peers, transports or connections. Lock
acquisition is weakly fair only: a thread can be overtaken at a lock, and
`CallsReturn`, `HandlersReturn` and `TapsComeBack` hold all the same because
calls and events are finite. In `AdbTerminal` the pump is fair only once its
transport is gone, for a recv may block. In `Uploads` the timeout is a timer
that does expire; the form has none, and `UploadSettles` needs the server to
answer it.

Time-outs (`MakeTimesOut`, `WaitTimesOut`, `Timeout`) may happen whenever their
owner waits, which covers every real duration. In `PeerSessions` they are part of a thread's step, so
a waiting thread can always go on: what `OneWayToHang` finds is a wait without a
time-out. It writes out when a thread can step (`CanStep`), from the guards of
the actions, so that it can be proved; ENABLED could not.

## 4. What the code does not do

### 4.1 The finding with a run

`RollbackIsOwn` (`sync_rollback`): when the claim of a slave fails, because
somebody else took it or it left adb after the check, the rollback releases the
master while the group is still registered (`api/sync.py:129`). The teardown of
the master dissolves the group and releases all its slaves by device id
(`services/sync/lifecycle.py:47`), the one of the other user included, and
stops that user's session. The comment above the rollback (line 126) says it is
to "release whatever we grabbed and drop the group".

### 4.2 Known departures

The last section of several modules states what a comment of the source says
and the code does not do. Each is refuted by TLC under the constants of the run
named here, with the property in the place of the run's own (as an INVARIANT or a
PROPERTY; with `FairSpec` and without SYMMETRY for the temporal ones marked f).
Where a property of a run holds only up to one of these, it exempts exactly that
case and shows that there is no other.

| Property | Constants of | What happens |
|---|---|---|
| `Reservations!OneDevicePerUser` | `reservations_liveness`, with Spec | the check for another held device and the INSERT are separate transactions; two requests of one user end with two devices (`services/reservations.py:126`, promised at line 121) |
| `Reservations!OnlyOwnerControls` | `reservations_liveness`, with Spec | the offer handler checks the owner and starts a session later; a release and a claim fit in between (`api/webrtc.py:76`) |
| `Reservations!EndsOnlyAsDocumented` | `reservations_safety` | `get` and `sweep` delete by device id the row they decided on earlier, which may have been extended or claimed again (`services/reservations.py:296`). `EndAuthorised` is what does hold: the decision was right for the row it was taken on |
| `PeerSessions!LoopReturns` (f) | `peers` | `attach_video_source` calls `detach_video_source` while it holds the plain lock that the latter takes; the thread hangs, and the next state event of that session hangs the loop of all sessions (`scrcpy/webrtc/peer_manager.py:252`). `OneWayToHang` shows that this is the only way |
| `PeerSessions!CleanupIsOwn` | `peers` | the cleaner of a closed session closes whatever session is registered when it runs (`services/webrtc_session.py:120`) |
| `PeerSessions!LostIsRemoved` (f) | `peers` | a close between the two `get_or_create` of an offer makes the second build a session without callbacks, which nobody cleans up when its peer fails (`scrcpy/webrtc/peer_manager.py:429`) |
| `ScrcpyClients!ViewIsAlive` | `clients` | `attach` tests `alive`, then broadcasts connected; a stop in between leaves the tab with a dead epoch (`services/scrcpy_lifecycle.py:72`) |
| `ScrcpyClients!StreamDeathReported` (f) | `clients` | at EOF the stream loop leaves without `stop`; the client stays alive in the registry and no tab hears of it (`scrcpy/scrcpycore.py:679`) |
| `SyncDispatch!CallsSerialised` | `sync_dispatch` | reads of the UI, and evidence after a failed tap, call u2 without the device lock that "serialise[s] u2 RPC calls to ONE device" (`u2_pool.py`) |
| `AdbTerminal!NoLostShell` | `terminal`, with Spec | `open` registers a session and starts it afterwards; a close, a disconnect or a second open in between closes it while it is not alive yet, which only tells the tab; `start` then raises the flag without asking, and the shell stays up, in no registry and closed by nobody (`terminal/adb_shell.py:285`), though "Disconnects auto-close the underlying adb shell" (`terminal/routes.py:17`). `OneWayToLose` shows that this is the only way |
| `AdbTerminal!SendersExclude` | `terminal`, with Spec | `start` sends the cached geometry without the write lock (`terminal/adb_shell.py:114`), though `_send_frame` says "Must hold `_write_lock`" (line 124) and "we already serialise via `_write_lock`" (line 130). `SendersDoExclude` shows that it is the only one |
| `AdbTerminal!ReplacementStarts` (f) | `terminal` | an open that replaces a session whose writer met a broken pipe waits for that session's lock for ever (`terminal/adb_shell.py:212`) |
| `VideoStream!KeyframeFirst` | `stream`, with `MaxBogus = 0` | the full queue drops its oldest packet, the bootstrap too, and the sender takes deltas first (`scrcpy/webrtc/video_track.py:182`), though "the bootstrap slot is independent and never gets evicted" (line 177) and "the browser decoder always sees SPS+PPS+IDR before any P-frame" (line 193). A queue of 128 makes it rare, not impossible |
| `VideoStream!InStep` | `stream` | `buf.clear()` drops the head of the packet that is still arriving; nothing looks for the next boundary, and the tail may pass for a frame (`scrcpy/scrcpycore.py:797`), where line 761 lets "the next recv() resync the stream" |
| `VideoStream!TimesNeverFall` | `stream` | the listener of the stopped client may push once more after the new client's bootstrap, which is at time 0 (`scrcpy/scrcpycore.py:958`) |
| `AdaptiveBitrate!OnePerSession` | `bitrate` | two enables that wait for the same stop each start a controller, and the first is overwritten while it runs (`scrcpy/webrtc/peer_manager.py:224`); "One controller per peer session" (`scrcpy/webrtc/bitrate_controller.py:74`) |
| `AdaptiveBitrate!EndsWithSession` | `bitrate` | `set_adaptive` has looked the session up when `close` takes it out; the enable that follows starts a controller on the closed session, which nobody stops (`scrcpy/webrtc/peer_manager.py:455`). `OneWayToForget` shows that a controller is forgotten in these ways only: by a coroutine, an enable or a disable, whose session got another controller while it waited, or that enables a closed session |
| `AdaptiveBitrate!StressLowers` | `bitrate` | a controller keeps the bitrate it believed in when the owner lowers it, and its next step down can raise the stream (`scrcpy/webrtc/bitrate_controller.py:188`) |
| `Uploads!NothingLeftBehind` | `uploads`, with Spec | the save of a form writes a file with `delete=False` before the `try` whose `finally` removes it, and a push of an apk that fails returns before its own (`services/uploads.py:91`, `services/app_manager.py:241`); the file "is unlinked once the installation/push completes (success or failure)" (`services/uploads.py:22`) |

Met on the way, without a property: a healthy link asks for 10% more and a change
under 12% is not applied, so adaptive mode only ever lowers; the login limit is 3 where the comment above it says 5
(`api/authentication.py:24`); two super_admins may demote each other at once, the
`stale` of `BreakGlass`; a password change that lands between a login's check and
its insert leaves that session alive, the `late` of `OldSessionsEnd`; the tab
repeats a mismatched install with force by itself, where `services/uploads.py:69`
and `services/app_manager.py:273` expect a user's confirmation; two such
uploads can each uninstall what the other has just installed; a thread that gives
up on the making of a session leaves a peer connection that nobody closes
(`scrcpy/webrtc/async_runner.py:99`, the `orphans` of `NoLeakedPeer`); a peer moved
last to a client that was replaced after it was tested stays there, the `late` of
`PeersFollow`; `api/webrtc.py:106`
and `terminal/routes.py:103` register a handler for the same event of the
same namespace, of which the Socket.IO library is likely to keep one.

## 5. Proofs

### 5.1 `ReservationsProofs`

From `AccountAssumption` (administrators and deletable accounts are accounts,
`Nobody` is none) and `ClockAssumption` (`MaxMinutes` is positive, `Grace` and
`Horizon` are numbers, clients ask for integers), and `MultiAssumption`, for any
sets of devices, accounts and threads:

| Theorem | Statement | Argument |
|---|---|---|
| `TypeCorrect` | `Spec => []TypeOK` | inductive by itself; a claim's minutes are in range by the lemma `ClampInRange` |
| `CapHolds` | `Spec => []LeaseWithinCap` | rows are written with clamped minutes (`TypeOK`), and the clock only advances |
| `LeaseRefinement` | `Spec => ExclusiveLease` | each step grants a free device, ends a set of leases, or leaves the holders alone (`TableSteps`); `Extend` keeps the user of whatever row it meets |
| `NoForgottenSession` | `Spec => []OrphanHasReaper` | inductive with `TypeOK`: whoever empties a row is at a teardown next, or the device becomes stray |
| `DecisionsAuthorised` | `Spec => EndAuthorised` | by `DecisionOK`: the row remembered at a DELETE was over or the caller's when it was read; over stays over (`ExpiredIsStable`) |

`DecisionOK` is needed because the action property speaks of the row in the
table and the decision was taken on `seen`: only the invariant ties the two.

### 5.2 `PeerSessionsProofs`

From `BoundsAssumption` (the bounds are numbers, there is a client) and
`ProcAssumption` (threads are not cleaners, `None` is nothing else), for any
threads, sessions and clients:

| Theorem | Statement |
|---|---|
| `TypeCorrect` | `Spec => []TypeOK`, with "the manager's lock is held exactly by the thread at `making`" |
| `SourcesAreUnique` | `Spec => []OneSource` |
| `PeersDoNotLeak` | `Spec => []NoLeakedPeer` |
| `SessionsRegisterOnce` | `Spec => RegisteredOnce`: a session enters the registry only where none is, and only as the newest (an action property) |
| `HangsOnlyNested` | `Spec => []OneWayToHang` |

All five follow from one inductive invariant, `Invariant`. Its parts and why
each is there:

- `Locals`: which locals a thread has at each place. A thread at `detach` or
  `shut` of a close has a session; one in an offer or a reattachment has a client.
- `Jobs`: a job's waiter is at the place where it waits, and waits for this
  job (`OneJob`: for no other). Without it a finished job could move a thread
  that is elsewhere, and drop a session that thread was closing.
- `MakesFirst`: while a session is made none is registered, so `Make` overwrites
  no registered session. This is what `PeerManager._lock` is held for.
- `ReportedOnce` with `LoopOK`: a connection that may still end has not called
  for the cleaner of that ending. Without it the loop could restart a cleaner in
  the middle of its close, which would leak the session it had popped.
- `OneSource` itself, and `Accounted`, which is `NoLeakedPeer` without what it says
  of an orphan.

`PeersDoNotLeak` adds `Unclaimed`: the sessions not made yet, and the orphans, are
`Free`, that is, in nobody's locals, jobs, events or registry, and as they were
made. A step of a thread or of the loop is about a session it holds or the
registered one, so it leaves a free one free (`StepLeavesFree`,
`LoopLeavesFree`).

`HangsOnlyNested` adds `LocksNested`: whoever keeps the lock of a session across
steps is the thread at `detach` that waits for it. Only `AttachNests` takes the
lock and keeps it (`LockTaken`), and nobody moves a thread that waits there
(`WaiterStays`). The manager's lock is another matter: `TypeOK` puts its holder
at `making`, and from there a thread can give up.

The proof has a lemma per action. Steps of a thread that waits for no job share
the lemma `WalkInv`, whose hypotheses are what such a step must respect: it
keeps the locals consistent and does not forget a session it is closing.

### 5.3 `ScrcpyClientsProofs`

From `CallsAssumption` (`MaxCalls` is a number), `ConfigAssumption` (the default
configuration is one) and `ProcAssumption` (threads are not numbers of clients,
`None` is neither), for any threads, calls and configurations:

| Theorem | Statement |
|---|---|
| `TypeCorrect` | `Spec => []TypeOK` |
| `ServersAreOwned` | `Spec => []NoOrphanServer` |
| `TabsFollow` | `Spec => []StreamingClientIsCurrent` |
| `ParametersHonoured` | `Spec => []ConfigHonoured` |
| `BuildersExclude` | two threads are never both inside the per-device RLock |
| `ClientsAreNotReplaced` | `Spec => ClientNeverReplaced`: the registry is emptied, or an empty entry gets the client made last (an action property) |

The inductive invariant, part by part:

- `Locals`: the place of a thread determines which call it serves, where it goes
  back to and whether it has a client; a stream thread knows only its own.
- `LockOK`: the RLock's depth is the depth its owner has by its place
  (`Depth`: once for a reconfigure, once for the `get_client` inside), and 0 for
  everybody else. `SectionOK` says the same of `_client_lock` in the fast path.
- `Claims`: what a place relies on since it read the registry. From `build` to
  `register` nobody is registered; the client that `get_client` evicts is still
  registered or gone, never replaced. Only `stop_client` may act in between, and
  it only empties the entry; that is why stopping outside the device lock is safe.
- `Private`: no other thread has the client that is being started, so nobody
  stops it before it is registered; its stream thread has not begun.
- `Unbuilt`, `Counted`: clients with numbers not given out yet have no server and
  no thread, and each call builds one at most, so numbers suffice. `Counted`
  needs the cardinality of the set of calls that may still build.
- `Newest`: the client a thread is making or starting is the one made last, so
  what it registers cannot be an older client.
- `Honoured`: the registered client has the stored configuration, lock or no
  lock; `ConfigHonoured` follows.

### 5.4 `SyncProofs`

Groups. From `SyncAssumption` (administrators and removable accounts are
accounts, `Nobody` and `None` are nothing else, a request asks for finitely many
slaves, the bounds are numbers), for any devices, users, threads and groups:

| Theorem | Statement |
|---|---|
| `GroupsTypeCorrect` | `GroupsSpec => []GroupsTypeOK` |
| `GroupsAreDisjoint` | `GroupsSpec => []OneGroupPerDevice` |
| `MembersAreBacked` | `GroupsSpec => []GroupBacked` |
| `GroupsOnlyShrink` | `GroupsSpec => [][MembershipShrinks]_groupsVars`: no step puts a device into a group that exists, changes its owner or brings a dissolved group back |

The invariant is `GroupsInvariant`:

- `RegistryTyped` says what a thread still has to do. Its steps are all of one
  phase (asking, claiming, tearing down, ...), each DELETE has its hook right
  behind it (`HooksFollow`), and the group it is about was made, by itself if it
  creates one (`GroupKnown`). A type alone would let a thread drop a group in the
  middle of its claims.
- `Separate`: the members of a group differ, and no two groups share one.
- `Backed`: a member that its owner does not hold is accounted for by some thread,
  which owes the hook, or is still making the group and will claim the device or
  drop the group (`Accounts`). The hook is what makes this hard: it takes a
  master's group out and puts the releases of the slaves in front of what its
  thread was about to do, so it must be shown to lose none of its own steps.

The hook chooses an order for the slaves it releases (`SetToSeq`; the code has
one, and no property depends on it) and takes a member out with `RemoveFirst`.
What the proofs need of both is a lemma each: which elements the result has, and
that it repeats none.

Dispatcher. From `DispatchAssumption` (the master is no slave, `NoJob` is no
worker), for any slaves, workers and events:

| Theorem | Statement |
|---|---|
| `TypeCorrect` | `Spec => []TypeOK` |
| `WorkersDoExclude` | `Spec => []WorkersExclude` (one tap, serialised actions, one connection) |
| `LocksComeBack` | `Spec => []LockHeldInside`: a device lock is held only by a worker inside its section |

`FlagUp` (a tap worker keeps the in-flight flag up) with `OneTapping` make the
throttle work; `LockOK` says that lock and task know of each other; `PoolOK` that
a connection in use is the pooled one, since a connection that is in the pool
stays there.

### 5.5 `AccountsProofs`

From `AccountsAssumption` (the seeds are two accounts, threads are finitely many,
a lock takes at least one failure), for any accounts, threads and limits:

| Theorem | Statement |
|---|---|
| `TypeCorrect` | `Spec => []TypeOK`, with "a session's account exists" |
| `OldSessionsDoEnd` | `Spec => []OldSessionsEnd` |
| `GlassHolds` | `Spec => []BreakGlass` |
| `LockDoesBite` | `Spec => []LockBites` |
| `ChangesAreAuthorised` | `Spec => [][EditsAuthorised]_vars`: a role, an activation or an account changes only while another active account outranks it, or by a write on a role that had changed since its read |

`Requests` carries what a management request was permitted for from its read to
its write. With it, `BreakGlass` is inductive: a write that is not stale finds the
role it read, and whoever may demote or deactivate a super_admin is another active
one.
`PastIsLocked` gives `LockBites` its start, for each key of the limiter: a lock begins with no failures past
it, and from then on a failure past the lock uses up a thread that was beyond
the check (an argument about cardinalities, for any finite set of threads).
`Counted` leaves a token for every login at its insert.

### 5.6 `AdbTerminalProofs`

From `TerminalAssumption` (the two placeholders are no device and no handler,
the bounds are numbers), for any sessions, handlers and devices:

| Theorem | Statement |
|---|---|
| `TypeCorrect` | `Spec => []TypeOK` |
| `LiveAreServed` | `Spec => []LiveIsServed` |
| `ShellsAreLostOneWay` | `Spec => OneWayToLose` (an action property) |
| `SendersDoExclude` | `Spec => []OnlyStartOverlaps`: two handlers are sending on one shell only if exactly one of them is its `start` |
| `ShellsStayDown` | `Spec => [][NoRevival]_vars`: a shell that ran and went down never comes up again |

`Followed` says that every session made is registered, about to be closed, or its
tab was told. `OneStarter` (one handler at most has yet to start a session) and
`NotYetAlive` (until then it is not alive) are needed for `LiveHasPump`: a shell
without a pump is alive only while its one starter is at `fit`, right before it
starts the pump, or its tab was told. `LiveAreServed` must rule out that last
case for a registered session. It does with `Closings`: what somebody closes is
out of the registry (`ClosedAreGone`), one handler closes it (`OneCloser`), and
a session whose tab was told has had its pump and is down, or its close is over
and it is registered no more (`ToldAreOver`). `ShellsAreLostOneWay` (lemma
`LosesOnce`): nothing but its start brings a shell up, and one that is up leaves
the registry only for the handler that closes it, which leaves it down; so a shell
that gets lost does so at a start, and by `Followed` its tab was told before. `SendersHold` ties the places of a write to the lock. `NotPumped`
gives `ShellsStayDown`: a session that some handler has still to start has no pump
yet, and `start` sets its flag without asking whether a close came first.

### 5.7 `UploadsProofs`

From `UploadsAssumption` (there is a chunk, `file` and `none` are no signing
keys), for any uploads, chunks, keys and lost connections:

| Theorem | Statement |
|---|---|
| `TypeCorrect` | `Spec => []TypeOK` |
| `DoneIsAllOfIt` | `Spec => []DoneIsWhole` |
| `LossIsReported` | `Spec => []LossIsTold` |

The invariant speaks of the messages under way, since the answer a tab hears was
decided on what the server knew two queues ago. It is written as a predicate
`UpOK` over the values of one upload, so an action changes one instance of it:

- `PushOnce`, `EndOnce`: a tab asks once, is told `ready` once, sends its
  `file.end` once; the end, its finaliser and the verdict are three stages of one
  token.
- `EndAfterAll`: the last chunk is right before the `file.end`; when the end is at
  the head, either every chunk has been taken or an error is on its way.
- `CutIsTold`: a file finalised although a chunk is missing belongs to a tab that
  waits no more, has the error under way, or has lost the connection.
- `OkIsWhole`: before an `ok` for a cut file there is an `error`, so the tab has
  settled as failed by the time it reads the `ok`. This is the crux of
  `DoneIsWhole`: the code does finalise cut files and answers `ok`.
- `FormOK`, `ApkOK`, `LoopOK`, `Told`: which finaliser can be where, and for whom.

### 5.8 `VideoProofs`

Bitrate. From `BitrateAssumption` (`NoPeer` is no peer, the owner asks for positive
numbers, the bounds are numbers), for any peers, requests, controllers and
workers:

| Theorem | Statement |
|---|---|
| `TypeCorrect` | `Spec => []TypeOK`, with the limits of every bitrate |
| `ForgottenOneWay` | `Spec => OneWayToForget` (an action property) |
| `PeersDoFollow` | `Spec => []PeersFollow` |

- `Bitrates`: what is in use is clamped or the owner's; from the ladder's lemmas
  (`LastRung`, `StepBelowIs`, `ClampedIs`, `DecidedIs`), which say that every
  step of the ladder ends on a rung.
- `Own`, `StoppedStay`: a session's controller is one of its peer, and a controller
  whose stop is waited for does not run. With them a step is the end of a coroutine
  whenever it leaves a controller forgotten (`FinishForgets`): one that was not
  overtaken finds no controller but the one it has stopped.
- `Followed`: the thread that made the client in the registry still has to test
  it or to move this peer (`Owed`), or the peer is on it, or `late`.
  `PeersFollow` is the case in which no thread is left.

`NumberIsFree` shows, by the pigeonhole principle, that a number for a new worker
exists whenever there is `Room`; the `CHOOSE` in `NewJob` is never empty.

Stream. From `StreamAssumption` (times are positive, the queue has room for a
packet, the bounds are numbers), for any times and lengths of wire and queue:

| Theorem | Statement |
|---|---|
| `StreamTypeCorrect` | `StreamSpec => []StreamTypeOK` |
| `StreamPlayable` | `StreamSpec => Playable` (an action property) |
| `StreamTimesRise` | `StreamSpec => TimesRise` (an action property) |

A packet of a client is on the socket or parsed (`Upstream`), in the listener's
call, on its way to the sender (`Line`: the queue and what was handed to the
loop), or with the sender (`out`). The invariant says of each of these what the
packet behind it may be:

- `LineRises`, `UpstreamRises`, `Follows`: numbers rise from the sender back to
  the device, made-up frames aside.
- `TimesOK`: what waits in the line is later than what the sender has, and not
  later than the clock of the monotonic guard; only a bootstrap has time 0.
  `StreamTimesRise` follows, with `LineRises`, at the step of the sender, for
  made-up frames too.
- `Attaching`, `Caching`, `Gate`: a client is called for only while it is
  attached, its cache has the keyframe of the call, nothing is pushed before the
  gate is open, and then nothing older than what opened it.
- `KeysOK`, `ParamsFirst`: what opened the gate is a keyframe, and a keyframe
  comes with its parameter sets unless these were dropped.
- `UpstreamWhole`, `Whole`: behind a frame that is there, and from the one that
  opened the gate on, every number is there too or in `lost`, as far as somebody
  will still push it (`Due`: the client is listened to, or a later frame is in
  the line).

### 5.9 Only model-checked

TLC found each invariant above to hold with the constants of the component's
run before it was proved. These stay with TLC:

- Liveness under fairness (`ExpiredIsReaped`, `OrphanIsTornDown`, `CallsReturn`,
  `TapsComeBack`, `HandlersReturn`, `UploadSettles`): beyond the prover.
- That `CanStep` of `PeerSessions` agrees with ENABLED: it was compared with it on
  every state of the run, and is written in terms of the guards for the proof.
- The properties of section 4: they do not hold.

## 6. What the models leave out

- Broadcast payloads, logging and user names. Broadcasts matter only in
  `ScrcpyClients`, where a tab's epoch depends on them.
- Reservations: SQLite's busy time-outs and failing statements other than the two
  constraint violations of an INSERT. The grace period is a constant, 0 in the
  runs and any number in the proofs.
- A teardown is one step. Its parts (stop the client, close the peers) are
  the operations of other modules; their interleaving with a new session is
  planned as `DeviceControl`.
- ScrcpyClients: the control socket, adb failures other than "the start fails",
  several devices.
- PeerSessions: several tabs and devices share the loop, and so does everything
  a blocked loop blocks; the model has one (sid, device). ICE candidates have no
  state in the manager. What follows the nested detach in `attach_video_source`
  is unreachable and left out. The DataChannel callbacks keep the client of the
  time of the offer (`services/webrtc_session.py:139`); the input that then goes
  to a stopped client is planned with `DeviceControl`.
- VideoStream: one reconfigure; session packets, whose resolution nothing here
  reads; the bytes of a packet, which is whole, or without its head, or junk. What
  junk can do is left open: any kind, any time, any length.
- Accounts: names, e-mail addresses and validators, hashing. A restart comes
  between any two statements, and the limiter's window is one that passes a hit
  at a time.
- AdaptiveBitrate: the statistics are the four classes they fall into.
- Uploads: one device and one package. `file.cancel` has no sender. A write that
  fails leaves the file without the chunk, whatever part of it reached the disk.
  A file whose removal failed is not followed. Who may upload is the
  gate of `Reservations`; a message on the channel passes no gate.
- The server-info cache (a reader that asked the device before a push may store
  its answer after it, `scrcpy/scrcpyclients.py:149`) and the tab's map of
  peers (`webrtc:closed` names only the device,
  `frontend/src/composables/useWebRTC.js:117`) are hazards without a model yet.
- The quality controller is never enabled by any code of the repository.
- Data-only and I/O components: see the notes in `PROJECT.json`.

## 7. Plan

1. `DeviceControl`, the composition: one client registry, two peers, the
   reservation's teardown, and the workers that reconfigure and reattach.
   Abstract specification: input and video of a session go to the client that
   is alive.
2. `ServerInfoCache` and `BrowserPeer`, one small module each.
