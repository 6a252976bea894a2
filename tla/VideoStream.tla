---------------------------- MODULE VideoStream ----------------------------
(* The video of one peer, from the scrcpy socket to the decoder: the parser  *)
(* and the parameter-set cache of scrcpy/scrcpycore.py, the listener that    *)
(* attach_video_source of scrcpy/webrtc/peer_manager.py registers, and the   *)
(* track of scrcpy/webrtc/video_track.py.                                    *)
(*                                                                           *)
(* A reconfigure stops client 1, starts client 2 and moves the peer, with    *)
(* the same track, over to it.  A stream thread per client parses and calls  *)
(* the listeners; the asyncio loop enqueues what they push, and the sender   *)
(* of the peer takes it from the queue.                                      *)
(*                                                                           *)
(* A session packet of the stream sets the resolution, which nothing here    *)
(* reads, so the encoder sends none.                                         *)
(*                                                                           *)
(* Init, Next, Spec, vars and TypeOK have a prefix, so that the theorems on  *)
(* the video of a peer can extend this module together with AdaptiveBitrate. *)
EXTENDS Integers, Sequences

CONSTANTS
    Micros,     \* device timestamps of a frame, in microseconds
    Cap,        \* maxsize of the track's queue
    MaxPackets, \* bound on the packets the encoders of both clients send
    MaxWire,    \* bound on the packets that wait on a client's socket
    MaxBogus,   \* bound on the packets with a bogus header
    MaxJunk     \* bound on the frames the parser makes up

ASSUME StreamAssumption ==
    /\ Micros \subseteq Nat \ {0}
    /\ Cap \in Nat \ {0} /\ {MaxPackets, MaxWire, MaxBogus, MaxJunk} \subseteq Nat

VARIABLES
    encoder,    \* what the device sent on each client's socket so far
    wire,       \* the packets on the socket and in buf
    parser,     \* torn: the first of them is there without its head
    running,    \* Client.alive
    listens,    \* the peer's listener is registered on the client
    cache,      \* the parameter sets are cached, and the last keyframe
    ready,      \* the packets of the batch still to be handled
    call,       \* the packet the thread is about to call the listener with
    seen,       \* attach_idr_seen of the listener on each client: 0 for False, else the
                \* number of the keyframe that was seen
    attached,   \* the client the peer is attached to, 0 before the first
    clock,      \* _pts_offset and _last_pts of the track
    soon,       \* packets call_soon_threadsafe has scheduled on the loop
    queue,      \* the track's queue
    out,        \* the last frame of each client the sender took, and its last time
    lost        \* the frames of the client that were dropped or evicted, 0 for a
                \* config packet (history)

streamVars == <<encoder, wire, parser, running, listens, cache, ready, call, seen, attached,
                clock, soon, queue, out, lost>>

Client == {1, 2}
stream == <<encoder, wire, parser, running>>
track == <<soon, queue, out>>

-----------------------------------------------------------------------------
(* Packets.                                                                  *)

\* n numbers the displayable frames of a stream; a config packet has no time.  Junk
\* is the number of a frame the device never sent; only it may have both flags.
Junk == -1
Kind == {"config", "key", "delta", "both"}
Frame == [kind : Kind \cup {"bogus"}, n : Nat \cup {Junk}, us : Nat]
None == [kind |-> "none", n |-> 0, us |-> 0]

IsKey(f) == f.kind \in {"key", "both"}
IsConfig(f) == f.kind \in {"config", "both"}

\* What is gone with these packets.
Number(f) == IF f.kind = "config" THEN 0 ELSE f.n
Gone(packets) == {Number(packets[i]) : i \in DOMAIN packets} \ {Junk}

\* A packet of the track: c the stream it is from, params the parameter sets are
\* in it.
Packet == [c : Client, kind : {"key", "delta"}, n : Nat \cup {Junk}, params : BOOLEAN,
           pts : Nat]
NonePacket(c) == [c |-> c, kind |-> "delta", n |-> 0, params |-> FALSE, pts |-> -1]

StreamInit ==
    /\ encoder = [c \in Client |-> [sent |-> 0, bogus |-> 0, n |-> 0, next |-> {"config"}]]
    /\ wire = [c \in Client |-> <<>>]
    /\ parser = [c \in Client |-> [torn |-> FALSE, junk |-> 0]]
    /\ running = [c \in Client |-> c = 1]
    /\ listens = [c \in Client |-> FALSE]
    /\ cache = [c \in Client |-> [params |-> FALSE, key |-> 0]]
    /\ ready = [c \in Client |-> <<>>]
    /\ call = [c \in Client |-> None]
    /\ seen = [c \in Client |-> 0]
    /\ attached = 0
    /\ clock = [offset |-> 0, last |-> -1]
    /\ soon = <<>> /\ queue = <<>>
    /\ out = [c \in Client |-> NonePacket(c)]
    /\ lost = [c \in Client |-> {}]

-----------------------------------------------------------------------------
(* The device.  A stream starts with a config packet and a keyframe; more    *)
(* keyframes follow at will, and a reset of the encoder starts over.  The    *)
(* clock of the frames may step back.                                        *)

MaySend(c) ==
    /\ running[c] /\ Len(wire[c]) < MaxWire
    /\ encoder[1].sent + encoder[2].sent < MaxPackets

After(kind) == IF kind = "config" THEN {"key"} ELSE {"delta", "key", "config"}

Emits(c) ==
    /\ MaySend(c)
    /\ \E kind \in encoder[c].next :
         LET n == encoder[c].n + IF kind = "config" THEN 0 ELSE 1
         IN  /\ encoder' = [encoder EXCEPT ![c].sent = @ + 1, ![c].n = n,
                                           ![c].next = After(kind)]
             /\ \E us \in IF kind = "config" THEN {0} ELSE Micros :
                  wire' = [wire EXCEPT ![c] = Append(@, [kind |-> kind, n |-> n, us |-> us])]
    /\ UNCHANGED <<parser, running, listens, cache, ready, call, seen, attached, clock,
                   track, lost>>

\* A header whose size is zero or over the cap.
Garbles(c) ==
    /\ MaySend(c)
    /\ encoder[1].bogus + encoder[2].bogus < MaxBogus
    /\ encoder' = [encoder EXCEPT ![c].sent = @ + 1, ![c].bogus = @ + 1]
    /\ wire' = [wire EXCEPT ![c] = Append(@, [kind |-> "bogus", n |-> Junk, us |-> 0])]
    /\ UNCHANGED <<parser, running, listens, cache, ready, call, seen, attached, clock,
                   track, lost>>

-----------------------------------------------------------------------------
(* The stream thread of a client: a recv, and _consume_video_packets on what *)
(* is in the buffer.  A recv ends anywhere, so the last packet it brings may *)
(* be there in part.                                                         *)

Parses(c) == running[c] /\ ready[c] = <<>> /\ call[c] = None

IsBogus(f) == f.kind = "bogus"
First(c, k) == SubSeq(wire[c], 1, k)
Drops(c, k) == wire' = [wire EXCEPT ![c] = SubSeq(@, k + 1, Len(@))]
Loses(c, k) == lost' = [lost EXCEPT ![c] = @ \cup Gone(First(c, k))]

\* The complete packets, in order; what is there of the next one stays.
Parse(c) ==
    /\ Parses(c) /\ ~parser[c].torn
    /\ \E k \in 1 .. Len(wire[c]) :
         /\ ~\E i \in 1 .. k : IsBogus(wire[c][i])
         /\ ready' = [ready EXCEPT ![c] = First(c, k)]
         /\ Drops(c, k)
    /\ UNCHANGED <<encoder, parser, running, listens, cache, call, seen, attached, clock,
                   track, lost>>

\* The bytes that follow a head that was dropped are read as headers, and may well
\* look bogus.
Looks(c, k) == parser[c].torn \/ \E i \in 1 .. k : IsBogus(wire[c][i])

\* A bogus header clears the buffer: k packets, and of the next what is there.
Clear(c) ==
    /\ Parses(c)
    /\ \E k \in 0 .. Len(wire[c]), cut \in {0, 1} :
         /\ k + cut \in 1 .. Len(wire[c])
         /\ Looks(c, k + cut)
         /\ Drops(c, k)
         /\ Loses(c, k + cut)
         /\ parser' = [parser EXCEPT ![c].torn = cut = 1]
    /\ UNCHANGED <<encoder, running, listens, cache, ready, call, seen, attached, clock, track>>

\* Or they pass for the header of a frame of any length.  The parser is in step again
\* only when that ends between two packets, and those that follow may be there too.
Misread(c) ==
    /\ Parses(c) /\ parser[c].torn
    /\ parser[1].junk + parser[2].junk < MaxJunk
    /\ \E k \in 0 .. Len(wire[c]), cut \in {0, 1}, kind \in Kind, us \in Micros \cup {0} :
         /\ k + cut \in 1 .. Len(wire[c])
         /\ Loses(c, k + cut)
         /\ parser' = [parser EXCEPT ![c].torn = cut = 1, ![c].junk = @ + 1]
         /\ \E m \in k .. Len(wire[c]) :
              /\ cut = 1 => m = k
              /\ ~\E i \in k + 1 .. m : IsBogus(wire[c][i])
              /\ ready' = [ready EXCEPT ![c] =
                   <<[kind |-> kind, n |-> Junk, us |-> us]>> \o SubSeq(wire[c], k + 1, m)]
              /\ Drops(c, m)
    /\ UNCHANGED <<encoder, running, listens, cache, call, seen, attached, clock, track>>

\* __update_h264_bootstrap_cache: a keyframe carries no parameter sets; in junk the
\* scan may find some.
Found(params, f) ==
    IF ~IsKey(f) /\ ~IsConfig(f) THEN {params}
    ELSE IF f.n = Junk THEN {params, TRUE}
    ELSE {params \/ IsConfig(f)}

\* __handle_video_frame: the cache first, then a snapshot of the listeners.
Handle(c) ==
    LET f == Head(ready[c])
    IN  /\ ready[c] # <<>> /\ call[c] = None
        /\ \E params \in Found(cache[c].params, f) :
             cache' = [cache EXCEPT ![c] =
                [params |-> params, key |-> IF f.kind = "key" THEN f.n ELSE @.key]]
        /\ ready' = [ready EXCEPT ![c] = Tail(@)]
        /\ call' = [call EXCEPT ![c] = IF listens[c] THEN f ELSE None]
        /\ UNCHANGED <<stream, listens, seen, attached, clock, track, lost>>

\* The decoder of the snapshots fails on a frame: the rest of the batch is gone.
DecodeFails(c) ==
    /\ ready[c] # <<>> /\ call[c] = None
    /\ ready' = [ready EXCEPT ![c] = <<>>]
    /\ lost' = [lost EXCEPT ![c] = @ \cup Gone(ready[c])]
    /\ UNCHANGED <<stream, listens, cache, call, seen, attached, clock, track>>

-----------------------------------------------------------------------------
(* The listener and the track.                                               *)

\* Microseconds to 90 kHz; int() cuts toward zero.
Ticks(us) == IF us < 0 THEN -((-us * 90) \div 1000) ELSE (us * 90) \div 1000

\* Mutant: the guard against equal and falling times is left out.
Rising_unguarded(pts, last) == IF pts <= 0 THEN 1 ELSE pts
Rising(pts, last) ==
    LET positive == IF pts <= 0 THEN 1 ELSE pts
    IN  IF positive <= last THEN last + 1 ELSE positive

Offset(us) == IF clock.last = -1 THEN us ELSE clock.offset

\* push_bootstrap: parameter sets and keyframe, at time 0.  What junk opens the gate
\* with counts as junk.
PushBootstrap(c, f) ==
    /\ soon' = Append(soon, [c |-> c, kind |-> "key", params |-> TRUE, pts |-> 0,
                             n |-> IF f.n = Junk THEN Junk ELSE cache[c].key])
    /\ UNCHANGED clock

\* push_frame: a packet without a time, a config packet, is skipped.
PushFrame(c, f) ==
    IF f.us = 0 THEN UNCHANGED <<soon, clock>>
    ELSE LET pts == Rising(Ticks(f.us - Offset(f.us)), clock.last)
         IN  /\ clock' = [offset |-> Offset(f.us), last |-> pts]
             /\ soon' = Append(soon,
                  [c |-> c, kind |-> IF IsKey(f) THEN "key" ELSE "delta", n |-> f.n,
                   pts |-> pts, params |-> IsKey(f) /\ cache[c].params])

\* Mutant: the gate lets every frame through.
Gated_open(c, f) == FALSE
Gated(c, f) == seen[c] = 0 /\ ~IsKey(f)

\* _listener: nothing before the first keyframe after the attach; that one goes out
\* as the bootstrap, or as a frame when no parameter sets are cached.
Listen(c) ==
    LET f == call[c]
        opens == seen[c] = 0 /\ IsKey(f)
    IN  /\ f # None
        /\ call' = [call EXCEPT ![c] = None]
        /\ seen' = [seen EXCEPT ![c] = IF opens THEN f.n ELSE @]
        /\ IF Gated(c, f) THEN UNCHANGED <<soon, clock>>
           ELSE IF opens /\ cache[c].params /\ cache[c].key # 0 THEN PushBootstrap(c, f)
           ELSE PushFrame(c, f)
        /\ UNCHANGED <<stream, listens, cache, ready, attached, queue, out, lost>>

\* Mutant: the queue has no bound.
Enqueued_grows(q, p) == Append(q, p)

\* _enqueue: a full queue drops its oldest packet.
Enqueued(q, p) == Append(IF Len(q) = Cap THEN Tail(q) ELSE q, p)

Enqueue ==
    /\ soon # <<>>
    /\ soon' = Tail(soon)
    /\ queue' = Enqueued(queue, Head(soon))
    /\ lost' = [c \in Client |-> IF Len(queue) = Cap /\ Head(queue).c = c
                                 THEN lost[c] \cup ({Head(queue).n} \ {Junk}) ELSE lost[c]]
    /\ UNCHANGED <<stream, listens, cache, ready, call, seen, attached, clock, out>>

Recv ==
    /\ queue # <<>>
    /\ out' = [out EXCEPT ![Head(queue).c] =
         IF Head(queue).n = Junk THEN [@ EXCEPT !.pts = Head(queue).pts] ELSE Head(queue)]
    /\ queue' = Tail(queue)
    /\ UNCHANGED <<stream, listens, cache, ready, call, seen, attached, clock, soon, lost>>

-----------------------------------------------------------------------------
(* Attaching, and the reconfigure that replaces client 1.                    *)

\* The peer is the listener of client c alone.
ListensOnly(c) == [d \in Client |-> d = c]

\* A listener is new with each attach, and with it its gate.
Attach(c) ==
    /\ attached < c /\ running[c]
    /\ attached' = c
    /\ listens' = ListensOnly(c)
    /\ UNCHANGED <<stream, cache, ready, call, seen, clock, track, lost>>

\* Client.stop clears alive first and the listeners last.
Stop ==
    /\ running[1]
    /\ running' = [running EXCEPT ![1] = FALSE]
    /\ UNCHANGED <<encoder, wire, parser, listens, cache, ready, call, seen, attached, clock, track, lost>>

Replace ==
    /\ ~running[1] /\ ~running[2]
    /\ listens' = [listens EXCEPT ![1] = FALSE]
    /\ running' = [running EXCEPT ![2] = TRUE]
    /\ UNCHANGED <<encoder, wire, parser, cache, ready, call, seen, attached, clock, track, lost>>

-----------------------------------------------------------------------------

StreamNext ==
    \/ \E c \in Client :
         Emits(c) \/ Garbles(c) \/ Parse(c) \/ Clear(c) \/ Misread(c)
         \/ Handle(c) \/ DecodeFails(c) \/ Listen(c) \/ Attach(c)
    \/ Enqueue \/ Recv \/ Stop \/ Replace

StreamSpec == StreamInit /\ [][StreamNext]_streamVars

-----------------------------------------------------------------------------
(* Properties.                                                               *)

\* Types; the listener is registered on the attached client alone, and the queue
\* holds no more than it may.
StreamTypeOK ==
    /\ \A c \in Client :
         /\ encoder[c].sent \in 0 .. MaxPackets /\ parser[c].junk \in 0 .. MaxJunk
         /\ wire[c] \in Seq(Frame) /\ ready[c] \in Seq(Frame)
         /\ parser[c].torn => wire[c] # <<>>
         /\ cache[c].params \in BOOLEAN /\ cache[c].key \in Junk .. encoder[c].n
         /\ call[c] \in Frame \cup {None}
         /\ seen[c] \in Junk .. encoder[c].n /\ lost[c] \subseteq 0 .. encoder[c].n
         /\ out[c].n \in 0 .. encoder[c].n
         /\ listens[c] => attached = c
    /\ running \in [Client -> BOOLEAN]
    /\ attached \in 0 .. 2
    /\ clock.offset \in Nat /\ clock.last \in Nat \cup {-1}
    /\ soon \in Seq(Packet) /\ queue \in Seq(Packet) /\ Len(queue) <= Cap

\* The frame the sender is to take next: the one that opened the gate, and then the
\* one after the last.
Since(c) == IF out[c].n = 0 THEN seen[c] ELSE out[c].n + 1

\* What the sender takes of a stream can be played.  The gate is opened by a keyframe,
\* and from that one on each frame is taken in its turn, or is one that the parser
\* dropped or the queue evicted: none is repeated, swapped or missing without a trace,
\* whatever else was lost before.  A keyframe comes with its parameter sets unless they
\* were dropped.  Only where the first frame is, is open when junk opened the gate.
Playable ==
    [][\A c \in Client : out'[c].n # out[c].n =>
         /\ out'[c].n > out[c].n
         /\ Since(c) # Junk => /\ Since(c) \in 1 .. out'[c].n
                               /\ Since(c) .. out'[c].n - 1 \subseteq lost[c]
         /\ out'[c].n = seen[c] => out'[c].kind = "key"
         /\ out'[c].kind = "key" => out'[c].params \/ 0 \in lost[c]]_streamVars

\* Within a stream the times rise strictly, also when the clock of the device
\* steps back, so that no two frames share an access unit.
TimesRise ==
    [][\A c \in Client : out'[c] # out[c] => out'[c].pts > out[c].pts]_streamVars

\* "the browser decoder always sees SPS+PPS+IDR before any P-frame"
\* (video_track.py:193): what is taken first of a stream is a keyframe.
KeyframeFirst ==
    [][\A c \in Client : out[c].n = 0 /\ out'[c].n # 0 => out'[c].kind = "key"]_streamVars

\* "let the next recv() resync the stream" (scrcpycore.py:761): only packets that the
\* device sent are handed on.
InStep == \A c \in Client : \A i \in DOMAIN ready[c] : ready[c][i].n # Junk

\* "_last_pts ... 90 kHz, monotonic guard" (video_track.py:73): the times of the
\* packets one peer is sent never fall.
TimesNeverFall ==
    [][\A c \in Client : out'[c] # out[c] =>
         \A d \in Client : out'[c].pts >= out[d].pts]_streamVars

============================================================================
