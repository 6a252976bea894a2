------------------------- MODULE PeerSessionsProofs -------------------------
(* Theorems of PeerSessions, for every value of its constants.               *)
(*                                                                           *)
(* That no listener is left behind and no peer connection leaks depends on   *)
(* who may touch a session when: which locals a thread has at each place,    *)
(* which thread waits for which job, and that each ending of a connection is *)
(* reported once.  Invariant collects these facts; it is inductive.          *)
EXTENDS PeerSessions, TLAPS

\* What a thread holds at each place of its call.
LocalOK(l) ==
    /\ l.at \in {"wire", "negotiate", "offering", "attach", "detach", "shut", "closing"}
          => l.s \in Session
    /\ l.at \in {"get", "making"} => l.call = "offer" /\ l.back \in {"wire", "negotiate"}
    /\ l.at \in {"wire", "negotiate", "offering"} => l.call = "offer"
    /\ l.at \in {"keys", "fetch", "attach"} => l.call \in {"offer", "reattach"}
    /\ l.at = "attach" => l.back = "attach"
    /\ l.at = "detach" => \/ l.back = "attach" /\ l.call \in {"offer", "reattach"}
                          \/ l.back = "shut" /\ l.call = "close"
    /\ l.at \in {"pop", "shut", "closing"} => l.call = "close"
    /\ l.call \in {"offer", "reattach"} => l.cl \in Client

Locals == \A p \in Proc : LocalOK(proc[p])

\* Each pending job has its session, and the thread that waits for it.
JobOK(j) ==
    /\ j.kind = "make" => j.s = None /\ j.by \in Proc /\ At(j.by, "making")
    /\ j.kind \in {"offer", "close"} => j.s \in Session
    /\ j.kind = "offer" /\ j.by # None
          => j.by \in Proc /\ At(j.by, "offering") /\ proc[j.by].s = j.s
    /\ j.kind = "close" /\ j.by # None
          => j.by \in Proc /\ At(j.by, "closing") /\ proc[j.by].s = j.s
    /\ j.kind = "state" => /\ j.by \in Cleaner /\ j.by[1] = j.s
                           /\ At(j.by, "idle") /\ loop # j.by

Jobs == \A j \in jobs : JobOK(j)

LoopOK == loop # None => At(loop, "idle")

\* The cleaner q has not been called for.
Quiet(q) ==
    /\ \A j \in jobs : j.kind = "state" => j.by # q
    /\ loop # q
    /\ At(q, "idle")

\* Each ending of a peer connection is reported once.
ReportedOnce ==
    \A s \in Session :
        /\ pc[s] \in {"new", "open"} => Quiet(<<s, "failed">>)
        /\ pc[s] \in {"new", "open", "failed"} => Quiet(<<s, "closed">>)

\* While a session is made, none is registered.
MakesFirst == managerLock # None => registry = None

\* A session that was made is registered, closed, about to be closed, or made for
\* nobody.
Accounted ==
    \A s \in 1..made :
        \/ registry = s
        \/ pc[s] = "closed"
        \/ \E p \in Proc :
              proc[p].s = s /\ proc[p].call = "close" /\ proc[p].at \in {"detach", "shut"}
        \/ \E j \in jobs : j.kind = "close" /\ j.s = s
        \/ s \in orphans

Invariant ==
    /\ TypeOK
    /\ Locals
    /\ Jobs
    /\ LoopOK
    /\ ReportedOnce
    /\ MakesFirst
    /\ OneSource
    /\ Accounted

\* A step moves the thread p to the place at, with the locals given.
Moved(p, at, call, s, cl, back) ==
    /\ proc' \in [Proc -> Local]
    /\ proc'[p].at = at
    /\ proc'[p].call = call
    /\ proc'[p].s = s
    /\ proc'[p].cl = cl
    /\ proc'[p].back = back
    /\ \A q \in Proc : q # p => proc'[q] = proc[q]

-----------------------------------------------------------------------------
(* How the expressions of the actions change proc.                           *)

LEMMA IdleType == Idle \in Local
BY DEF Idle, Local, Place

LEMMA GotoMoves ==
    ASSUME proc \in [Proc -> Local], NEW p \in Proc, NEW place \in Place, Goto(p, place)
    PROVE  Moved(p, place, proc[p].call, proc[p].s, proc[p].cl, proc[p].back)
BY DEF Goto, Moved, Local

LEMMA ReturnMoves ==
    ASSUME proc \in [Proc -> Local], NEW p \in Proc, Return(p)
    PROVE  Moved(p, "idle", "none", None, None, "idle")
BY IdleType DEF Return, Moved, Idle

\* A thread finds a session, and goes on with it.
LEMMA SessionMoves ==
    ASSUME proc \in [Proc -> Local], NEW p \in Proc, NEW place \in Place, NEW s \in Session,
           proc' = [proc EXCEPT ![p].at = place, ![p].s = s]
    PROVE  Moved(p, place, proc[p].call, s, proc[p].cl, proc[p].back)
BY DEF Moved, Local

LEMMA BackMoves ==
    ASSUME proc \in [Proc -> Local], NEW p \in Proc, NEW place \in Place, NEW back \in Place,
           proc' = [proc EXCEPT ![p].at = place, ![p].back = back]
    PROVE  Moved(p, place, proc[p].call, proc[p].s, proc[p].cl, back)
BY DEF Moved, Local

LEMMA SessionBackMoves ==
    ASSUME proc \in [Proc -> Local], NEW p \in Proc, NEW place \in Place, NEW back \in Place,
           NEW s \in Session,
           \/ proc' = [proc EXCEPT ![p].at = place, ![p].s = s, ![p].back = back]
           \/ proc' = [proc EXCEPT ![p].s = s, ![p].back = back, ![p].at = place]
    PROVE  Moved(p, place, proc[p].call, s, proc[p].cl, back)
BY DEF Moved, Local

-----------------------------------------------------------------------------
(* Steps of one thread that waits for no job.                                *)

\* The thread p holds a session that it is going to close.
Closes(p, s) ==
    proc[p].s = s /\ proc[p].call = "close" /\ proc[p].at \in {"detach", "shut"}

\* Nothing on the loop is about the thread p.
Unnamed(p) ==
    /\ \A j \in jobs : j.by # p
    /\ loop # p
    /\ proc[p].at # "making"
    /\ \A q \in Cleaner : Quiet(q) => q # p

LEMMA UnnamedWalker ==
    ASSUME Invariant, NEW p \in Proc,
           ~(proc[p].at \in {"idle", "making", "offering", "closing"})
    PROVE  Unnamed(p)
<1>1. \A j \in jobs : j.by # p
  BY ProcAssumption DEF Invariant, Jobs, JobOK, At, TypeOK, Job
<1> QED
  BY <1>1, ProcAssumption DEF Unnamed, Invariant, LoopOK, Quiet, At

LEMMA UnnamedArrival ==
    ASSUME Invariant, NEW t \in Thread, At(t, "idle")
    PROVE  Unnamed(t)
<1>1. t \in Proc /\ t \notin Cleaner /\ t # None
  BY ProcAssumption DEF Proc
<1>2. \A j \in jobs : j.by # t
  BY <1>1 DEF Invariant, Jobs, JobOK, At, TypeOK, Job
<1> QED
  BY <1>1, <1>2 DEF Unnamed, Invariant, TypeOK, At

\* Such a thread walks from one place to another, and leaves the loop and the
\* peer connections alone.
LEMMA Walks ==
    ASSUME Invariant, NEW p \in Proc, Unnamed(p),
           NEW at, NEW call, NEW s, NEW cl, NEW back,
           Moved(p, at, call, s, cl, back),
           LocalOK([at |-> at, call |-> call, s |-> s, cl |-> cl, back |-> back]),
           at \notin {"making", "offering", "closing"},
           UNCHANGED <<managerLock, made, pc, jobs, loop>>
    PROVE  /\ (\A q \in Proc : managerLock = q <=> At(q, "making"))'
           /\ Locals'
           /\ Jobs'
           /\ LoopOK'
           /\ ReportedOnce'
<1> USE DEF Invariant
<1>1. /\ \A q \in Proc : q # p => proc'[q] = proc[q]
      /\ proc'[p].at = at
  BY DEF Moved
<1>2. (\A q \in Proc : managerLock = q <=> At(q, "making"))'
  BY <1>1 DEF TypeOK, At, Unnamed
<1>3. Locals'
  BY <1>1 DEF Locals, Moved, LocalOK
<1>4. ASSUME NEW j \in jobs
      PROVE  JobOK(j)'
  <2>1. JobOK(j) /\ j \in Job /\ j.by # p
    BY DEF Jobs, TypeOK, Unnamed
  <2> QED
    BY <1>1, <2>1 DEF JobOK, At, Proc
<1>5. LoopOK'
  BY <1>1 DEF LoopOK, At, TypeOK, Proc, Unnamed
<1>6. ASSUME NEW q \in Cleaner, Quiet(q)
      PROVE  Quiet(q)'
  BY <1>1, <1>6 DEF Quiet, At, Proc, Unnamed
<1>7. ReportedOnce'
  BY <1>6 DEF ReportedOnce, Cleaner
<1> QED
  BY <1>2, <1>3, <1>4, <1>5, <1>7 DEF Jobs

\* The connection of the session x is closed, somebody is about to close it, or it
\* was made for nobody.
Ending(x) ==
    \/ pc[x] = "closed"
    \/ \E p \in Proc : Closes(p, x)
    \/ \E j \in jobs : j.kind = "close" /\ j.s = x
    \/ x \in orphans

LEMMA SessionsMade == ASSUME TypeOK PROVE 1..made \subseteq Session
BY BoundsAssumption DEF TypeOK, Session

\* No connection leaks while those that end go on ending.
LEMMA NoneLost ==
    ASSUME Invariant, \A x \in Session : Ending(x) => Ending(x)', UNCHANGED <<registry, made>>
    PROVE  Accounted'
<1>1. \A x \in 1..made : registry = x \/ Ending(x)
  BY DEF Invariant, Accounted, Ending, Closes
<1>2. \A x \in 1..made : registry = x \/ Ending(x)'
  BY <1>1, SessionsMade DEF Invariant
<1> QED
  BY <1>2 DEF Accounted, Ending, Closes

\* A step of one thread that does not drop what it closes.
LEMMA EndingWalks ==
    ASSUME NEW p \in Proc, NEW at, NEW call, NEW s, NEW cl, NEW back,
           Moved(p, at, call, s, cl, back),
           \A x \in Session : Closes(p, x) => Closes(p, x)',
           {j \in jobs : j.kind = "close"} \subseteq jobs',
           UNCHANGED <<pc, orphans>>
    PROVE  \A x \in Session : Ending(x) => Ending(x)'
<1> SUFFICES ASSUME NEW x \in Session, Ending(x)
             PROVE  Ending(x)'
  OBVIOUS
<1>1. ASSUME NEW q \in Proc, Closes(q, x)
      PROVE  Closes(q, x)'
  BY <1>1 DEF Closes, Moved
<1> QED
  BY <1>1 DEF Ending

-----------------------------------------------------------------------------
(* The steps of a thread, one lemma for each.                                *)

\* A thread that waits for no job walks on, and may change the video source.
LEMMA WalkInv ==
    ASSUME Invariant, NEW p \in Proc, Unnamed(p),
           NEW at, NEW call, NEW s, NEW cl, NEW back,
           Moved(p, at, call, s, cl, back),
           LocalOK([at |-> at, call |-> call, s |-> s, cl |-> cl, back |-> back]),
           at \notin {"making", "offering", "closing"},
           \A x \in Session : Closes(p, x) => Closes(p, x)',
           UNCHANGED <<registry, managerLock, made, pc, late, orphans, jobs, loop>>,
           wired' \subseteq Session,
           source' \in [Session -> Client \cup {None}],
           listens' \in [Session -> SUBSET Client],
           lock' \in [Session -> Proc \cup {None}],
           current' \in Client,
           calls' \in 0..MaxCalls,
           OneSource'
    PROVE  Invariant'
<1>1. /\ (\A q \in Proc : managerLock = q <=> At(q, "making"))'
      /\ Locals' /\ Jobs' /\ LoopOK' /\ ReportedOnce'
  BY Walks
<1>2. Accounted'
  BY EndingWalks, NoneLost
<1>3. TypeOK'
  BY <1>1 DEF TypeOK, Invariant, Moved
<1> QED
  BY <1>1, <1>2, <1>3 DEF Invariant, MakesFirst

LEMMA GetFindsInv ==
    ASSUME Invariant, NEW p \in Proc, GetFinds(p)
    PROVE  Invariant'
<1>1. LocalOK(proc[p]) /\ proc[p] \in Local /\ proc[p].at = "get"
  BY DEF Invariant, Locals, GetFinds, At, TypeOK
<1>2. registry \in Session
  BY DEF GetFinds, Invariant, TypeOK
<1>3. Moved(p, proc[p].back, proc[p].call, registry, proc[p].cl, proc[p].back)
  BY <1>1, <1>2, SessionMoves DEF GetFinds, Invariant, TypeOK, Local
<1>4. /\ LocalOK([at |-> proc[p].back, call |-> proc[p].call, s |-> registry,
                  cl |-> proc[p].cl, back |-> proc[p].back])
      /\ proc[p].back \notin {"making", "offering", "closing"}
      /\ \A x \in Session : ~Closes(p, x)
  BY <1>1, <1>2 DEF LocalOK, Closes
<1> QED
  BY <1>1, <1>3, <1>4, UnnamedWalker, WalkInv DEF world, GetFinds, Invariant, TypeOK, OneSource, peer, video

LEMMA WireInv ==
    ASSUME Invariant, NEW p \in Proc, Wire(p)
    PROVE  Invariant'
<1>1. LocalOK(proc[p]) /\ proc[p] \in Local /\ proc[p].at = "wire"
  BY DEF Invariant, Locals, Wire, At, TypeOK
<1>2. Moved(p, "get", proc[p].call, proc[p].s, proc[p].cl, "negotiate")
  BY BackMoves DEF Wire, Invariant, TypeOK, Place
<1>3. /\ LocalOK([at |-> "get", call |-> proc[p].call, s |-> proc[p].s,
                  cl |-> proc[p].cl, back |-> "negotiate"])
      /\ proc[p].s \in Session
      /\ \A x \in Session : ~Closes(p, x)
  BY <1>1 DEF LocalOK, Closes
<1>4. wired' \subseteq Session
  BY <1>3 DEF Wire, Invariant, TypeOK
<1> QED
  BY <1>1, <1>2, <1>3, <1>4, UnnamedWalker, WalkInv DEF world, Wire, Invariant, TypeOK, OneSource, video, lost

LEMMA FetchInv ==
    ASSUME Invariant, NEW p \in Proc, Fetch(p)
    PROVE  Invariant'
<1>1. LocalOK(proc[p]) /\ proc[p] \in Local /\ proc[p].at = "fetch"
  BY DEF Invariant, Locals, Fetch, At, TypeOK
<1>2. \A x \in Session : ~Closes(p, x)
  BY <1>1 DEF LocalOK, Closes
<1>3. ASSUME NEW at, NEW call, NEW s, NEW cl, NEW back, Moved(p, at, call, s, cl, back),
             LocalOK([at |-> at, call |-> call, s |-> s, cl |-> cl, back |-> back]),
             at \in {"idle", "attach", "detach"}
      PROVE  Invariant'
  BY <1>1, <1>2, <1>3, UnnamedWalker, WalkInv DEF world, Fetch, Invariant, TypeOK, OneSource, peer, video
<1>4. CASE registry = None
  <2>1. Moved(p, "idle", "none", None, None, "idle")
    BY <1>4, ReturnMoves DEF Fetch, Invariant, TypeOK
  <2>2. LocalOK([at |-> "idle", call |-> "none", s |-> None, cl |-> None, back |-> "idle"])
    BY DEF LocalOK
  <2> QED
    BY <1>3, <2>1, <2>2
<1>5. CASE registry # None
  <2> DEFINE to == IF proc[p].call = "offer" THEN "attach" ELSE "detach"
  <2>1. registry \in Session
    BY <1>5 DEF Invariant, TypeOK
  <2>2. Moved(p, to, proc[p].call, registry, proc[p].cl, "attach")
    BY <1>5, <2>1, SessionBackMoves DEF Fetch, Invariant, TypeOK, Place
  <2>3. LocalOK([at |-> to, call |-> proc[p].call, s |-> registry, cl |-> proc[p].cl,
                 back |-> "attach"])
    BY <1>1, <2>1 DEF LocalOK
  <2> QED
    BY <1>3, <2>2, <2>3
<1> QED
  BY <1>4, <1>5

LEMMA AttachInv ==
    ASSUME Invariant, NEW p \in Proc, Attach(p)
    PROVE  Invariant'
<1>1. LocalOK(proc[p]) /\ proc[p] \in Local /\ proc[p].at = "attach"
  BY DEF Invariant, Locals, Attach, At, TypeOK
<1>2. Moved(p, "idle", "none", None, None, "idle")
  BY ReturnMoves DEF Attach, Invariant, TypeOK
<1>3. /\ LocalOK([at |-> "idle", call |-> "none", s |-> None, cl |-> None, back |-> "idle"])
      /\ \A x \in Session : ~Closes(p, x)
      /\ proc[p].s \in Session
      /\ proc[p].cl \in Client
  BY <1>1 DEF LocalOK, Closes
<1>4. /\ source' \in [Session -> Client \cup {None}]
      /\ listens' \in [Session -> SUBSET Client]
  BY <1>3 DEF Attach, Invariant, TypeOK
\* A session without a source has no listeners, for None is no client.
<1>5. OneSource'
  <2> SUFFICES ASSUME NEW s \in Session
               PROVE  listens'[s] \subseteq {source'[s]}
    BY DEF OneSource
  <2>1. listens[s] \subseteq {source[s]} /\ listens[s] \subseteq Client
    BY DEF Invariant, OneSource, TypeOK
  <2>2. CASE s # proc[p].s
    BY <2>1, <2>2 DEF Attach, Invariant, TypeOK
  <2>3. CASE s = proc[p].s /\ source[s] = proc[p].cl
    BY <2>1, <2>3 DEF Attach, Invariant, TypeOK
  <2>4. CASE s = proc[p].s /\ source[s] = None
    <3>1. listens[s] = {}
      BY <2>1, <2>4, ProcAssumption
    <3>2. proc[p].cl # None
      BY <1>3, ProcAssumption
    <3> QED
      BY <2>4, <3>1, <3>2 DEF Attach, Invariant, TypeOK
  <2> QED
    BY <2>2, <2>3, <2>4 DEF Attach
<1> QED
  BY <1>1, <1>2, <1>3, <1>4, <1>5, UnnamedWalker, WalkInv DEF world, Attach, Invariant, TypeOK, peer

LEMMA AttachNestsInv ==
    ASSUME Invariant, NEW p \in Proc, AttachNests(p)
    PROVE  Invariant'
<1>1. LocalOK(proc[p]) /\ proc[p] \in Local /\ proc[p].at = "attach"
  BY DEF Invariant, Locals, AttachNests, At, TypeOK
<1>2. Moved(p, "detach", proc[p].call, proc[p].s, proc[p].cl, proc[p].back)
  BY GotoMoves DEF AttachNests, Invariant, TypeOK, Place
<1>3. /\ LocalOK([at |-> "detach", call |-> proc[p].call, s |-> proc[p].s,
                  cl |-> proc[p].cl, back |-> proc[p].back])
      /\ \A x \in Session : ~Closes(p, x)
      /\ proc[p].s \in Session
  BY <1>1 DEF LocalOK, Closes
<1>4. lock' \in [Session -> Proc \cup {None}]
  BY <1>3 DEF AttachNests, Invariant, TypeOK
<1> QED
  BY <1>1, <1>2, <1>3, <1>4, UnnamedWalker, WalkInv DEF world, AttachNests, Invariant, TypeOK, OneSource, peer

\* detach_video_source takes the listener and the source away together.
LEMMA SilenceOK ==
    ASSUME TypeOK, OneSource, NEW s \in Session, Silence(s)
    PROVE  /\ source' \in [Session -> Client \cup {None}]
           /\ listens' \in [Session -> SUBSET Client]
           /\ OneSource'
           /\ UNCHANGED lock
<1>1. /\ source' \in [Session -> Client \cup {None}]
      /\ listens' \in [Session -> SUBSET Client]
  BY DEF Silence, TypeOK
<1>2. \A x \in Session : listens'[x] \subseteq {source'[x]}
  BY DEF Silence, TypeOK, OneSource
<1> QED
  BY <1>1, <1>2 DEF OneSource, Silence

LEMMA DetachInv ==
    ASSUME Invariant, NEW p \in Proc, Detach(p)
    PROVE  Invariant'
<1>1. LocalOK(proc[p]) /\ proc[p] \in Local /\ proc[p].at = "detach"
  BY DEF Invariant, Locals, Detach, At, TypeOK
<1>2. Moved(p, proc[p].back, proc[p].call, proc[p].s, proc[p].cl, proc[p].back)
  BY <1>1, GotoMoves DEF Detach, Invariant, TypeOK, Local
<1>3. /\ LocalOK([at |-> proc[p].back, call |-> proc[p].call, s |-> proc[p].s,
                  cl |-> proc[p].cl, back |-> proc[p].back])
      /\ proc[p].back \in {"attach", "shut"}
      /\ proc[p].s \in Session
  BY <1>1 DEF LocalOK
<1>4. \A x \in Session : Closes(p, x) => Closes(p, x)'
  BY <1>1, <1>2 DEF LocalOK, Closes, Moved
<1>5. /\ source' \in [Session -> Client \cup {None}]
      /\ listens' \in [Session -> SUBSET Client]
      /\ OneSource'
      /\ UNCHANGED lock
  BY <1>3, SilenceOK DEF Detach, Invariant
<1> QED
  BY <1>1, <1>2, <1>3, <1>4, <1>5, UnnamedWalker, WalkInv DEF world, Detach, Invariant, TypeOK, peer

LEMMA KeysInv ==
    ASSUME Invariant, NEW p \in Proc, Keys(p)
    PROVE  Invariant'
<1>1. LocalOK(proc[p]) /\ proc[p] \in Local /\ proc[p].at = "keys"
  BY DEF Invariant, Locals, Keys, At, TypeOK
<1>2. \A x \in Session : ~Closes(p, x)
  BY <1>1 DEF LocalOK, Closes
<1>3. ASSUME NEW at, NEW call, NEW s, NEW cl, NEW back, Moved(p, at, call, s, cl, back),
             LocalOK([at |-> at, call |-> call, s |-> s, cl |-> cl, back |-> back]),
             at \in {"idle", "fetch"}
      PROVE  Invariant'
  BY <1>1, <1>2, <1>3, UnnamedWalker, WalkInv DEF world, Keys, Invariant, TypeOK, OneSource, peer, video
<1>4. CASE registry = None
  <2>1. Moved(p, "idle", "none", None, None, "idle")
    BY <1>4, ReturnMoves DEF Keys, Invariant, TypeOK
  <2>2. LocalOK([at |-> "idle", call |-> "none", s |-> None, cl |-> None, back |-> "idle"])
    BY DEF LocalOK
  <2> QED
    BY <1>3, <2>1, <2>2
<1>5. CASE registry # None
  <2>1. Moved(p, "fetch", proc[p].call, proc[p].s, proc[p].cl, proc[p].back)
    BY <1>5, GotoMoves DEF Keys, Invariant, TypeOK, Place
  <2>2. LocalOK([at |-> "fetch", call |-> proc[p].call, s |-> proc[p].s,
                 cl |-> proc[p].cl, back |-> proc[p].back])
    BY <1>1 DEF LocalOK
  <2> QED
    BY <1>3, <2>1, <2>2
<1> QED
  BY <1>4, <1>5

\* What leaves the registry is what the thread is going to close.
LEMMA PopInv ==
    ASSUME Invariant, NEW p \in Proc, Pop(p)
    PROVE  Invariant'
<1>1. LocalOK(proc[p]) /\ proc[p] \in Local /\ proc[p].at = "pop" /\ proc[p].call = "close"
  BY DEF Invariant, Locals, LocalOK, Pop, At, TypeOK
<1>2. \A x \in Session : ~Closes(p, x)
  BY <1>1 DEF Closes
<1>3. CASE registry = None
  <2>1. Moved(p, "idle", "none", None, None, "idle")
    BY <1>3, ReturnMoves DEF Pop, Invariant, TypeOK
  <2>2. LocalOK([at |-> "idle", call |-> "none", s |-> None, cl |-> None, back |-> "idle"])
    BY DEF LocalOK
  <2> QED
    BY <1>1, <1>2, <1>3, <2>1, <2>2, UnnamedWalker, WalkInv
       DEF Pop, Invariant, TypeOK, OneSource, peer, video, world
<1>4. CASE registry # None
  <2>1. registry \in Session
    BY <1>4 DEF Invariant, TypeOK
  <2>2. Moved(p, "detach", proc[p].call, registry, proc[p].cl, "shut")
    BY <1>4, <2>1, SessionBackMoves DEF Pop, Invariant, TypeOK, Place
  <2>3. LocalOK([at |-> "detach", call |-> proc[p].call, s |-> registry,
                 cl |-> proc[p].cl, back |-> "shut"])
    BY <1>1, <2>1 DEF LocalOK
  <2>4. /\ (\A q \in Proc : managerLock = q <=> At(q, "making"))'
        /\ Locals' /\ Jobs' /\ LoopOK' /\ ReportedOnce'
    BY <1>1, <2>2, <2>3, UnnamedWalker, Walks DEF Pop, peer
  <2>5. \A x \in Session : Ending(x) => Ending(x)'
    BY <1>2, <2>2, EndingWalks DEF Pop, peer
  <2>6. \A x \in Session : x = registry => Closes(p, x)'
    BY <1>1, <2>2 DEF Closes, Moved
  <2>7. Accounted'
    <3>1. \A x \in 1..made : registry = x \/ Ending(x)
      BY DEF Invariant, Accounted, Ending, Closes
    <3>2. \A x \in 1..made : Ending(x)'
      BY <2>5, <2>6, <3>1, SessionsMade DEF Invariant, Ending
    <3> QED
      BY <3>2 DEF Accounted, Ending, Closes, Pop, peer
  <2>8. TypeOK'
    BY <2>2, <2>4 DEF TypeOK, Invariant, Moved, Pop, peer, video, world
  <2> QED
    BY <2>4, <2>7, <2>8 DEF Invariant, MakesFirst, OneSource, Pop, video
<1> QED
  BY <1>3, <1>4

-----------------------------------------------------------------------------
(* Steps that put a job on the loop or take one off.                         *)

\* A new job for a thread that was unnamed; the others are as they were.
LEMMA GetMakesInv ==
    ASSUME Invariant, NEW p \in Proc, GetMakes(p)
    PROVE  Invariant'
<1> DEFINE job == [kind |-> "make", s |-> None, by |-> p]
<1>1. LocalOK(proc[p]) /\ proc[p] \in Local /\ proc[p].at = "get"
  BY DEF Invariant, Locals, GetMakes, At, TypeOK
<1>2. Moved(p, "making", proc[p].call, proc[p].s, proc[p].cl, proc[p].back)
  BY GotoMoves DEF GetMakes, Invariant, TypeOK, Place
<1>3. Unnamed(p)
  BY <1>1, UnnamedWalker
<1>4. jobs' = jobs \cup {job} /\ job \in Job
  BY DEF GetMakes, Job
<1>5. (\A q \in Proc : managerLock = q <=> At(q, "making"))'
  <2>1. \A q \in Proc : ~At(q, "making")
    BY ProcAssumption DEF Invariant, TypeOK, GetMakes
  <2> QED
    BY <1>2, <2>1 DEF At, GetMakes, Moved
<1>6. Locals'
  BY <1>1, <1>2 DEF Invariant, Locals, Moved, LocalOK
<1>7. Jobs'
  <2>1. ASSUME NEW j \in jobs
        PROVE  JobOK(j)'
    <3>1. JobOK(j) /\ j \in Job /\ j.by # p
      BY <1>3 DEF Invariant, Jobs, TypeOK, Unnamed
    <3> QED
      BY <1>2, <3>1 DEF JobOK, At, Moved, Proc, GetMakes
  <2>2. JobOK(job)'
    BY <1>2 DEF JobOK, At, Moved
  <2> QED
    BY <1>4, <2>1, <2>2 DEF Jobs
<1>8. LoopOK'
  BY <1>2, <1>3 DEF Invariant, LoopOK, At, TypeOK, Proc, Unnamed, Moved, GetMakes
<1>9. ReportedOnce'
  <2>1. ASSUME NEW q \in Cleaner, Quiet(q)
        PROVE  Quiet(q)'
    BY <1>2, <1>3, <1>4, <2>1 DEF Quiet, At, Proc, Unnamed, Moved, GetMakes
  <2> QED
    BY <2>1 DEF Invariant, ReportedOnce, Cleaner, GetMakes, peer
<1>10. Accounted'
  <2>1. \A x \in Session : ~Closes(p, x)
    BY <1>1 DEF Closes
  <2> QED
    BY <1>2, <1>4, <2>1, EndingWalks, NoneLost DEF GetMakes, peer
<1>11. TypeOK'
  BY <1>2, <1>4, <1>5 DEF TypeOK, Invariant, Moved, GetMakes, peer, video, world
<1> QED
  BY <1>5, <1>6, <1>7, <1>8, <1>9, <1>10, <1>11
     DEF Invariant, MakesFirst, OneSource, GetMakes, video

LEMMA JobEquality ==
    ASSUME NEW j \in Job, NEW k \in Job, j.kind = k.kind, j.s = k.s, j.by = k.by
    PROVE  j = k
<1>1. /\ j = [kind |-> j.kind, s |-> j.s, by |-> j.by]
      /\ k = [kind |-> k.kind, s |-> k.s, by |-> k.by]
  BY DEF Job
<1> QED
  BY <1>1

\* A thread waits for one job.
LEMMA OneJob ==
    ASSUME Invariant, NEW j \in jobs, NEW k \in jobs, j.kind # "state",
           j.by # None, k.by = j.by
    PROVE  k = j
<1>1. JobOK(j) /\ JobOK(k) /\ j \in Job /\ k \in Job
  BY DEF Invariant, Jobs, TypeOK
<1>2. j.kind = k.kind /\ j.s = k.s
  BY <1>1 DEF JobOK, At, Job
<1> QED
  BY <1>1, <1>2, JobEquality

\* The thread p leaves the place where it waited for the loop, and its job is
\* gone or runs for nobody.
LEMMA Stops ==
    ASSUME Invariant, NEW p \in Proc,
           proc[p].at \in {"making", "offering", "closing"},
           NEW at, NEW call, NEW s, NEW cl, NEW back,
           Moved(p, at, call, s, cl, back),
           LocalOK([at |-> at, call |-> call, s |-> s, cl |-> cl, back |-> back]),
           at \notin {"making", "offering", "closing"},
           managerLock' = IF proc[p].at = "making" THEN None ELSE managerLock,
           \A k \in jobs' : k \in jobs /\ k.by # p,
           UNCHANGED <<pc, loop>>
    PROVE  /\ (\A q \in Proc : managerLock = q <=> At(q, "making"))'
           /\ Locals'
           /\ Jobs'
           /\ LoopOK'
           /\ ReportedOnce'
<1>1. /\ \A q \in Proc : q # p => proc'[q] = proc[q]
      /\ proc'[p].at = at
  BY DEF Moved
<1>2. (\A q \in Proc : managerLock = q <=> At(q, "making"))'
  BY <1>1, ProcAssumption DEF Invariant, TypeOK, At
<1>3. Locals'
  BY <1>1 DEF Invariant, Locals, Moved, LocalOK
<1>4. ASSUME NEW k \in jobs'
      PROVE  JobOK(k)'
  <2>1. k \in jobs /\ JobOK(k) /\ k \in Job /\ k.by # p
    BY DEF Invariant, Jobs, TypeOK
  <2> QED
    BY <1>1, <2>1 DEF JobOK, At, Proc
<1>5. LoopOK'
  BY <1>1 DEF Invariant, LoopOK, At, TypeOK, Proc
<1>6. ASSUME NEW q \in Cleaner, Quiet(q)
      PROVE  Quiet(q)'
  BY <1>1, <1>6 DEF Quiet, At, Proc
<1>7. ReportedOnce'
  BY <1>6 DEF Invariant, ReportedOnce, Cleaner
<1> QED
  BY <1>2, <1>3, <1>4, <1>5, <1>7 DEF Jobs

LEMMA MakeTimesOutInv ==
    ASSUME Invariant, NEW p \in Proc, MakeTimesOut(p)
    PROVE  Invariant'
<1>1. proc[p].at = "making" /\ p # None
  BY ProcAssumption DEF MakeTimesOut, At
<1>2. Moved(p, "idle", "none", None, None, "idle")
  BY ReturnMoves DEF MakeTimesOut, Invariant, TypeOK
<1>3. LocalOK([at |-> "idle", call |-> "none", s |-> None, cl |-> None, back |-> "idle"])
  BY DEF LocalOK
<1>4. /\ (\A q \in Proc : managerLock = q <=> At(q, "making"))'
      /\ Locals' /\ Jobs' /\ LoopOK' /\ ReportedOnce'
  BY <1>1, <1>2, <1>3, Stops DEF MakeTimesOut, peer
<1>5. Accounted'
  <2>1. \A j \in jobs : j.kind = "close" => j.by # p
    BY <1>1 DEF Invariant, Jobs, JobOK, At
  <2>2. \A x \in Session : ~Closes(p, x)
    BY <1>1 DEF Closes
  <2> QED
    BY <1>2, <2>1, <2>2, EndingWalks, NoneLost DEF MakeTimesOut, peer
<1>6. TypeOK'
  BY <1>2, <1>4 DEF TypeOK, Invariant, Moved, MakeTimesOut, peer, video, world
<1> QED
  BY <1>4, <1>5, <1>6 DEF Invariant, MakesFirst, OneSource, MakeTimesOut, video

\* Waiting threads that give up leave their job behind, with nobody to answer.
LEMMA WaitTimesOutInv ==
    ASSUME Invariant, NEW p \in Proc, WaitTimesOut(p)
    PROVE  Invariant'
<1> DEFINE left(j) == IF j.by = p /\ j.kind # "state" THEN [j EXCEPT !.by = None] ELSE j
<1>1. proc[p].at \in {"offering", "closing"} /\ p # None
  BY ProcAssumption DEF WaitTimesOut, At
<1>2. Moved(p, "idle", "none", None, None, "idle")
  BY ReturnMoves DEF WaitTimesOut, Invariant, TypeOK
<1>3. jobs' = {left(j) : j \in jobs}
  BY DEF WaitTimesOut
<1>4. ASSUME NEW j \in jobs
      PROVE  /\ left(j) \in Job
             /\ left(j).kind = j.kind
             /\ left(j).s = j.s
             /\ left(j).by = IF j.by = p /\ j.kind # "state" THEN None ELSE j.by
  BY DEF Invariant, TypeOK, Job
<1> HIDE DEF left
<1>5. (\A q \in Proc : managerLock = q <=> At(q, "making"))'
  BY <1>1, <1>2 DEF Invariant, TypeOK, At, Moved, WaitTimesOut
<1>6. Locals'
  BY <1>2 DEF Invariant, Locals, Moved, LocalOK
<1>7. Jobs'
  <2>1. ASSUME NEW j \in jobs
        PROVE  JobOK(left(j))'
    <3>1. JobOK(j) /\ j \in Job
      BY DEF Invariant, Jobs, TypeOK
    <3> QED
      BY <1>1, <1>2, <1>4, <3>1, ProcAssumption
         DEF JobOK, At, Moved, Proc, WaitTimesOut
  <2> QED
    BY <1>3, <2>1 DEF Jobs
<1>8. LoopOK'
  BY <1>1, <1>2 DEF Invariant, LoopOK, At, TypeOK, Proc, Moved, WaitTimesOut
<1>9. ReportedOnce'
  <2>1. ASSUME NEW q \in Cleaner, Quiet(q)
        PROVE  Quiet(q)'
    BY <1>1, <1>2, <1>3, <1>4, <2>1 DEF Quiet, At, Proc, Moved, WaitTimesOut
  <2> QED
    BY <2>1 DEF Invariant, ReportedOnce, Cleaner, WaitTimesOut, peer
<1>10. Accounted'
  <2>1. ASSUME NEW x \in Session, Ending(x)
        PROVE  Ending(x)'
    <3>1. \A q \in Proc : Closes(q, x) => Closes(q, x)'
      BY <1>1, <1>2 DEF Closes, Moved
    <3>2. \A j \in jobs : j.kind = "close" /\ j.s = x
             => \E k \in jobs' : k.kind = "close" /\ k.s = x
      BY <1>3, <1>4
    <3> QED
      BY <2>1, <3>1, <3>2 DEF Ending, WaitTimesOut, peer
  <2> QED
    BY <2>1, NoneLost DEF WaitTimesOut, peer
<1>11. TypeOK'
  <2>1. jobs' \subseteq Job
    BY <1>3, <1>4
  <2> QED
    BY <1>2, <1>5, <2>1 DEF TypeOK, Invariant, Moved, WaitTimesOut, peer, video, world
<1> QED
  BY <1>5, <1>6, <1>7, <1>8, <1>9, <1>10, <1>11
     DEF Invariant, MakesFirst, OneSource, WaitTimesOut, video

\* The offer and the close of a session are handed to the loop.
LEMMA SubmitInv ==
    ASSUME Invariant, NEW p \in Proc, Negotiate(p) \/ Shut(p)
    PROVE  Invariant'
<1> DEFINE kind == IF Shut(p) THEN "close" ELSE "offer"
           to == IF Shut(p) THEN "closing" ELSE "offering"
           job == [kind |-> kind, s |-> proc[p].s, by |-> p]
<1>1. /\ LocalOK(proc[p]) /\ proc[p] \in Local
      /\ Shut(p) => proc[p].at = "shut"
      /\ ~Shut(p) => proc[p].at = "negotiate"
  BY DEF Invariant, Locals, Negotiate, Shut, Submit, At, TypeOK
<1>2. Submit(p, proc[p].at, kind, to)
  BY <1>1 DEF Negotiate, Shut, Submit, At
<1>3. Moved(p, to, proc[p].call, proc[p].s, proc[p].cl, proc[p].back)
  BY <1>2, GotoMoves DEF Submit, Invariant, TypeOK, Place
<1>4. Unnamed(p)
  BY <1>1, UnnamedWalker
<1>5. jobs' = jobs \cup {job} /\ job \in Job
  BY <1>1, <1>2 DEF Submit, Job, LocalOK
<1>6. UNCHANGED <<registry, managerLock, peer, video, loop, world>>
  BY <1>2 DEF Submit
<1>7. (\A q \in Proc : managerLock = q <=> At(q, "making"))'
  BY <1>1, <1>3, <1>6 DEF Invariant, TypeOK, At, Moved
<1>8. Locals'
  BY <1>1, <1>3 DEF Invariant, Locals, Moved, LocalOK
<1>9. Jobs'
  <2>1. ASSUME NEW j \in jobs
        PROVE  JobOK(j)'
    <3>1. JobOK(j) /\ j \in Job /\ j.by # p
      BY <1>4 DEF Invariant, Jobs, TypeOK, Unnamed
    <3> QED
      BY <1>3, <1>6, <3>1 DEF JobOK, At, Moved, Proc
  <2>2. ASSUME NEW k, k = job
        PROVE  JobOK(k)'
    <3>1. k.kind = kind /\ k.s = proc[p].s /\ k.by = p
      BY <2>2
    <3>2. proc'[p].at = to /\ proc'[p].s = proc[p].s
      BY <1>3 DEF Moved
    <3> QED
      BY <1>1, <3>1, <3>2 DEF JobOK, At, LocalOK
  <2> QED
    BY <1>5, <2>1, <2>2 DEF Jobs
<1>10. LoopOK'
  BY <1>3, <1>4, <1>6 DEF Invariant, LoopOK, At, TypeOK, Proc, Unnamed, Moved
<1>11. ReportedOnce'
  <2>1. ASSUME NEW q \in Cleaner, Quiet(q)
        PROVE  Quiet(q)'
    BY <1>3, <1>4, <1>5, <1>6, <2>1 DEF Quiet, At, Proc, Unnamed, Moved
  <2> QED
    BY <1>6, <2>1 DEF Invariant, ReportedOnce, Cleaner, peer
\* The session that the thread was going to close is now the job's to close.
<1>12. Accounted'
  <2>1. ASSUME NEW x \in Session, Ending(x)
        PROVE  Ending(x)'
    <3>1. \A q \in Proc : q # p /\ Closes(q, x) => Closes(q, x)'
      BY <1>3 DEF Closes, Moved
    <3>2. Closes(p, x) => job.kind = "close" /\ job.s = x
      BY <1>1 DEF Closes
    <3> QED
      BY <1>5, <1>6, <2>1, <3>1, <3>2 DEF Ending, peer
  <2> QED
    BY <1>6, <2>1, NoneLost DEF peer
<1>13. TypeOK'
  BY <1>3, <1>5, <1>6, <1>7 DEF TypeOK, Invariant, Moved, peer, video, world
<1> QED
  BY <1>6, <1>7, <1>8, <1>9, <1>10, <1>11, <1>12, <1>13
     DEF Invariant, MakesFirst, OneSource, video

-----------------------------------------------------------------------------
(* The steps of the loop.                                                    *)

\* The session made is registered, and its maker goes on with it.
LEMMA MakeInv ==
    ASSUME Invariant, NEW j \in jobs, Make(j)
    PROVE  Invariant'
<1> DEFINE p == j.by
<1>1. JobOK(j) /\ p \in Proc /\ proc[p].at = "making" /\ p # None
  BY ProcAssumption DEF Invariant, Jobs, JobOK, Make, At
<1>2. LocalOK(proc[p]) /\ proc[p] \in Local /\ proc[p].back \in {"wire", "negotiate"}
  BY <1>1 DEF Invariant, Locals, TypeOK, LocalOK
<1>3. made + 1 \in Session /\ registry = None /\ managerLock = p
  BY <1>1, BoundsAssumption DEF Make, Session, Invariant, TypeOK, MakesFirst, At
<1>4. Moved(p, proc[p].back, proc[p].call, made + 1, proc[p].cl, proc[p].back)
  BY <1>1, <1>2, <1>3, SessionMoves DEF Make, Invariant, TypeOK, Place
<1>5. LocalOK([at |-> proc[p].back, call |-> proc[p].call, s |-> made + 1,
               cl |-> proc[p].cl, back |-> proc[p].back])
  BY <1>1, <1>2, <1>3 DEF LocalOK
<1>6. \A k \in jobs' : k \in jobs /\ k.by # p
  BY <1>1, OneJob DEF Make
<1>7. /\ (\A q \in Proc : managerLock = q <=> At(q, "making"))'
      /\ Locals' /\ Jobs' /\ LoopOK' /\ ReportedOnce'
  BY <1>1, <1>2, <1>4, <1>5, <1>6, Stops DEF Make
<1>8. Accounted'
  <2>1. \A x \in Session : ~Closes(p, x)
    BY <1>1 DEF Closes
  <2>2. {k \in jobs : k.kind = "close"} \subseteq jobs'
    BY DEF Make
  <2>3. \A x \in Session : Ending(x) => Ending(x)'
    BY <1>1, <1>4, <2>1, <2>2, EndingWalks DEF Make, lost
  <2>4. \A x \in 1..made : Ending(x)
    BY <1>3, ProcAssumption, SessionsMade DEF Invariant, Accounted, Ending, Closes
  <2>5. \A x \in 1..made' : registry' = x \/ Ending(x)'
    <3>1. made \in Nat /\ made' = made + 1 /\ registry' = made + 1
      BY BoundsAssumption DEF Make, Invariant, TypeOK
    <3> QED
      BY <2>3, <2>4, <3>1, SessionsMade DEF Invariant
  <2> QED
    BY <2>5 DEF Accounted, Ending, Closes
<1>9. TypeOK'
  <2>1. made' \in 0..MaxSessions
    BY BoundsAssumption DEF Make, Invariant, TypeOK
  <2> QED
    BY <1>3, <1>4, <1>6, <1>7, <2>1 DEF TypeOK, Invariant, Moved, Make, video, lost, world
<1> QED
  BY <1>7, <1>8, <1>9 DEF Invariant, MakesFirst, OneSource, Make, video

\* A session made for nobody is counted among the orphans, and nothing else moves.
LEMMA MakeLateInv ==
    ASSUME Invariant, MakeLate
    PROVE  Invariant'
<1>1. /\ UNCHANGED <<registry, managerLock, pc, wired, video, jobs, loop, proc, world>>
      /\ late' \in Nat
      /\ made \in Nat /\ made' = made + 1 /\ made' \in 0..MaxSessions
      /\ orphans' = orphans \cup {made'}
      /\ orphans \subseteq 1..made
  BY BoundsAssumption DEF MakeLate, Invariant, TypeOK
<1>2. orphans' \subseteq 1..made'
  BY <1>1
<1>3. TypeOK'
  BY <1>1, <1>2 DEF Invariant, TypeOK, At, video, world
<1>4. Accounted'
  <2> SUFFICES ASSUME NEW x \in 1..made', x # made'
               PROVE  registry = x \/ Ending(x)'
    BY <1>1 DEF Accounted, Ending, Closes
  <2>1. x \in 1..made
    BY <1>1
  <2>2. registry = x \/ Ending(x)
    BY <2>1 DEF Invariant, Accounted, Ending, Closes
  <2> QED
    BY <1>1, <2>2 DEF Ending, Closes
<1> QED
  BY <1>1, <1>3, <1>4 DEF Invariant, Locals, Jobs, JobOK, LoopOK, ReportedOnce, Quiet,
     MakesFirst, OneSource, At, video, world

\* An offer or a close is answered, and its caller is free or fetches next.
LEMMA AnswerOK ==
    ASSUME Invariant, NEW j \in jobs, j.kind \in {"offer", "close"},
           \/ Answer(j, Idle)
           \/ j.kind = "offer" /\ Answer(j, [proc[j.by] EXCEPT !.at = "fetch"]),
           UNCHANGED <<managerLock, loop>>
    PROVE  /\ proc' \in [Proc -> Local]
           /\ (\A q \in Proc : managerLock = q <=> At(q, "making"))'
           /\ Locals'
           /\ LoopOK'
           /\ \A k \in jobs : k # j => JobOK(k)'
           /\ \A q \in Proc : At(q, "idle") => At(q, "idle")'
           /\ \A q \in Proc, x \in Session : Closes(q, x) => Closes(q, x)'
<1>1. CASE j.by = None
  <2>1. UNCHANGED proc
    BY <1>1 DEF Answer
  <2> QED
    BY <2>1 DEF Invariant, TypeOK, Locals, LocalOK, LoopOK, Jobs, JobOK, At, Closes
<1>2. CASE j.by # None
  <2> DEFINE p == j.by
  <2>1. /\ p \in Proc
        /\ proc[p].at \in {"offering", "closing"}
        /\ j.kind = "offer" => proc[p].at = "offering"
    BY <1>2 DEF Invariant, Jobs, JobOK, At
  <2>2. LocalOK(proc[p]) /\ proc[p] \in Local
    BY <2>1 DEF Invariant, Locals, TypeOK
  <2>3. PICK l \in Local : /\ proc' = [proc EXCEPT ![p] = l]
                           /\ LocalOK(l)
                           /\ l.at \in {"idle", "fetch"}
    <3>1. CASE Answer(j, Idle)
      <4>1. Idle \in Local /\ LocalOK(Idle) /\ Idle.at = "idle"
        BY IdleType DEF Idle, LocalOK
      <4> QED
        BY <1>2, <3>1, <4>1 DEF Answer
    <3>2. CASE j.kind = "offer" /\ Answer(j, [proc[j.by] EXCEPT !.at = "fetch"])
      <4> DEFINE l == [proc[p] EXCEPT !.at = "fetch"]
      <4>1. l \in Local /\ LocalOK(l) /\ l.at = "fetch"
        BY <2>1, <2>2, <3>2 DEF Local, LocalOK, Place
      <4> QED
        BY <1>2, <3>2, <4>1 DEF Answer
    <3> QED
      BY <3>1, <3>2
  <2>4. /\ proc' \in [Proc -> Local]
        /\ proc'[p] = l
        /\ \A q \in Proc : q # p => proc'[q] = proc[q]
    BY <2>1, <2>3 DEF Invariant, TypeOK
  <2>5. (\A q \in Proc : managerLock = q <=> At(q, "making"))'
    BY <2>1, <2>3, <2>4 DEF Invariant, TypeOK, At
  <2>6. Locals'
    BY <2>3, <2>4 DEF Invariant, Locals, LocalOK
  <2>7. LoopOK'
    BY <2>1, <2>4 DEF Invariant, LoopOK, At, TypeOK, Proc
  <2>8. ASSUME NEW k \in jobs, k # j
        PROVE  JobOK(k)'
    <3>1. JobOK(k) /\ k \in Job /\ k.by # p
      BY <1>2, <2>8, OneJob DEF Invariant, Jobs, TypeOK
    <3> QED
      BY <2>4, <3>1 DEF JobOK, At, Proc
  <2>9. \A q \in Proc : At(q, "idle") => At(q, "idle")'
    BY <2>1, <2>4 DEF At
  <2>10. \A q \in Proc, x \in Session : Closes(q, x) => Closes(q, x)'
    BY <2>1, <2>4 DEF Closes
  <2> QED
    BY <2>4, <2>5, <2>6, <2>7, <2>8, <2>9, <2>10
<1> QED
  BY <1>1, <1>2

\* Whether it fails or succeeds, an offer closes nothing and reports nothing.
LEMMA OfferInv ==
    ASSUME Invariant, NEW j \in jobs, OfferSucceeds(j) \/ OfferFails(j)
    PROVE  Invariant'
<1>1. /\ j.kind = "offer"
      /\ jobs' = jobs \ {j}
      /\ UNCHANGED <<registry, managerLock, made, wired, lost, video, loop, world>>
  BY DEF OfferSucceeds, OfferFails, peer, lost
<1>2. /\ proc' \in [Proc -> Local]
      /\ (\A q \in Proc : managerLock = q <=> At(q, "making"))'
      /\ Locals'
      /\ LoopOK'
      /\ \A k \in jobs : k # j => JobOK(k)'
      /\ \A q \in Proc : At(q, "idle") => At(q, "idle")'
      /\ \A q \in Proc, x \in Session : Closes(q, x) => Closes(q, x)'
  BY <1>1, AnswerOK DEF OfferSucceeds, OfferFails
<1>3. /\ pc' \in [Session -> {"new", "open", "failed", "ended", "closed"}]
      /\ \A x \in Session : pc'[x] # pc[x] => pc[x] = "new" /\ pc'[x] = "open"
  <2>1. j.s \in Session /\ pc \in [Session -> {"new", "open", "failed", "ended", "closed"}]
    BY <1>1 DEF Invariant, TypeOK, Jobs, JobOK
  <2>2. CASE OfferSucceeds(j)
    BY <2>1, <2>2 DEF OfferSucceeds
  <2>3. CASE OfferFails(j)
    BY <2>1, <2>3 DEF OfferFails, peer
  <2> QED
    BY <2>2, <2>3
<1>4. Jobs'
  BY <1>1, <1>2 DEF Jobs
<1>5. ReportedOnce'
  <2>1. ASSUME NEW q \in Cleaner, Quiet(q)
        PROVE  Quiet(q)'
    BY <1>1, <1>2, <2>1 DEF Quiet, Proc
  <2> QED
    BY <1>3, <2>1 DEF Invariant, ReportedOnce, Cleaner
<1>6. Accounted'
  <2>1. \A x \in Session : Ending(x) => Ending(x)'
    BY <1>1, <1>2, <1>3 DEF Ending, lost
  <2> QED
    BY <1>1, <2>1, NoneLost
<1>7. TypeOK'
  BY <1>1, <1>2, <1>3 DEF TypeOK, Invariant, video, lost, world
<1> QED
  BY <1>1, <1>2, <1>4, <1>5, <1>6, <1>7 DEF Invariant, MakesFirst, OneSource, video


\* The close of a connection is reported to a cleaner that nobody called yet.
LEMMA CloseInv ==
    ASSUME Invariant, NEW j \in jobs, Close(j)
    PROVE  Invariant'
<1> DEFINE event == StateEvent(j.s, "closed")
<1>1. /\ j.kind = "close"
      /\ j.s \in Session
      /\ UNCHANGED <<registry, managerLock, made, wired, lost, video, loop, world>>
  BY DEF Close, Invariant, Jobs, JobOK
<1>2. /\ proc' \in [Proc -> Local]
      /\ (\A q \in Proc : managerLock = q <=> At(q, "making"))'
      /\ Locals'
      /\ LoopOK'
      /\ \A k \in jobs : k # j => JobOK(k)'
      /\ \A q \in Proc : At(q, "idle") => At(q, "idle")'
      /\ \A q \in Proc, x \in Session : Closes(q, x) => Closes(q, x)'
  BY <1>1, AnswerOK DEF Close
<1>3. /\ pc' \in [Session -> {"new", "open", "failed", "ended", "closed"}]
      /\ pc'[j.s] = "closed"
      /\ \A x \in Session : x # j.s => pc'[x] = pc[x]
  BY <1>1 DEF Invariant, TypeOK, Close
<1>4. /\ \A k \in jobs' : \/ k \in jobs /\ k # j
                          \/ k = event /\ pc[j.s] \in {"new", "open", "failed"}
      /\ \A k \in jobs : k # j => k \in jobs'
  BY DEF Close
<1>5. event \in Job
  BY <1>1 DEF StateEvent, Job, Cleaner, Proc
<1>6. Jobs'
  <2>1. ASSUME NEW k, k = event, pc[j.s] \in {"new", "open", "failed"}
        PROVE  JobOK(k)'
    <3> DEFINE q == <<j.s, "closed">>
    <3>1. k.kind = "state" /\ k.s = j.s /\ k.by = q /\ q \in Cleaner /\ q[1] = j.s
      BY <1>1, <2>1 DEF StateEvent, Cleaner
    <3>2. At(q, "idle") /\ loop # q
      BY <1>1, <2>1 DEF Invariant, ReportedOnce, Quiet
    <3>3. At(q, "idle")'
      BY <1>2, <3>1, <3>2 DEF Proc
    <3> HIDE DEF q
    <3> QED
      BY <1>1, <3>1, <3>2, <3>3 DEF JobOK, At
  <2> QED
    BY <1>2, <1>4, <2>1 DEF Jobs
<1>7. ReportedOnce'
  <2>1. ASSUME NEW q \in Cleaner, Quiet(q), q[1] # j.s
        PROVE  Quiet(q)'
    <3>1. event.by # q
      BY <2>1 DEF StateEvent
    <3> QED
      BY <1>1, <1>2, <1>4, <2>1, <3>1 DEF Quiet, Proc
  <2> QED
    BY <1>3, <2>1 DEF Invariant, ReportedOnce, Cleaner
<1>8. Accounted'
  <2>1. \A x \in Session : Ending(x) => Ending(x)'
    BY <1>1, <1>2, <1>3, <1>4 DEF Ending, lost
  <2> QED
    BY <1>1, <2>1, NoneLost
<1>9. TypeOK'
  <2>1. jobs' \subseteq Job
    BY <1>4, <1>5 DEF Invariant, TypeOK
  <2> QED
    BY <1>1, <1>2, <1>3, <2>1 DEF TypeOK, Invariant, video, lost, world
<1> QED
  BY <1>1, <1>2, <1>6, <1>7, <1>8, <1>9 DEF Invariant, MakesFirst, OneSource, video

\* A state is handled once, and then the loop is about its cleaner.
LEMMA StateInv ==
    ASSUME Invariant, NEW j \in jobs, StateIgnored(j) \/ StateHandled(j)
    PROVE  Invariant'
<1>1. /\ j.kind = "state"
      /\ loop = None
      /\ loop' \in {loop, j.by}
      /\ jobs' = jobs \ {j}
      /\ UNCHANGED <<registry, managerLock, peer, video, proc, world>>
  BY DEF StateIgnored, StateHandled
<1>2. JobOK(j) /\ j \in Job /\ j.by \in Cleaner /\ At(j.by, "idle")
  BY <1>1 DEF Invariant, Jobs, TypeOK, JobOK
<1>3. Jobs'
  <2>1. ASSUME NEW k \in jobs, k # j
        PROVE  JobOK(k)'
    <3>1. JobOK(k) /\ k \in Job
      BY DEF Invariant, Jobs, TypeOK
    <3>2. k.kind = "state" => k.by # j.by
      BY <1>1, <1>2, <2>1, <3>1, JobEquality DEF JobOK
    <3> QED
      BY <1>1, <3>1, <3>2 DEF JobOK, At
  <2> QED
    BY <1>1, <2>1 DEF Jobs
<1>4. LoopOK'
  BY <1>1, <1>2 DEF LoopOK, At
<1>5. ReportedOnce'
  <2>1. ASSUME NEW q \in Cleaner, Quiet(q)
        PROVE  Quiet(q)'
    BY <1>1, <2>1 DEF Quiet, At
  <2> QED
    BY <1>1, <2>1 DEF Invariant, ReportedOnce, Cleaner, peer
<1>6. Accounted'
  <2>1. \A x \in Session : Ending(x) => Ending(x)'
    BY <1>1 DEF Ending, Closes, peer
  <2> QED
    BY <1>1, <2>1, NoneLost DEF peer
<1>7. TypeOK'
  BY <1>1, <1>2 DEF TypeOK, Invariant, At, peer, video, world
<1> QED
  BY <1>1, <1>3, <1>4, <1>5, <1>6, <1>7
     DEF Invariant, Locals, MakesFirst, OneSource, peer, video

\* The loop leaves the rest to the cleaner.
LEMMA LoopDetachesInv ==
    ASSUME Invariant, LoopDetaches
    PROVE  Invariant'
<1> DEFINE p == loop
           l == [Idle EXCEPT !.at = "pop", !.call = "close"]
<1>1. /\ p \in Cleaner /\ p \in Proc /\ p[1] \in Session
      /\ proc[p].at = "idle"
  BY DEF LoopDetaches, Invariant, TypeOK, LoopOK, At, Proc, Cleaner
<1>2. /\ UNCHANGED <<registry, managerLock, peer, jobs, world>>
      /\ loop' = None
  BY DEF LoopDetaches
<1>3. l \in Local /\ LocalOK(l) /\ l.at = "pop"
  BY DEF Idle, Local, Place, LocalOK
<1>4. /\ proc' \in [Proc -> Local]
      /\ proc'[p] = l
      /\ \A q \in Proc : q # p => proc'[q] = proc[q]
  BY <1>1, <1>3 DEF LoopDetaches, Invariant, TypeOK
<1>5. /\ source' \in [Session -> Client \cup {None}]
      /\ listens' \in [Session -> SUBSET Client]
      /\ OneSource'
      /\ UNCHANGED lock
  BY <1>1, SilenceOK DEF LoopDetaches, Invariant
<1>6. (\A q \in Proc : managerLock = q <=> At(q, "making"))'
  BY <1>1, <1>2, <1>3, <1>4 DEF Invariant, TypeOK, At
<1>7. Locals'
  BY <1>3, <1>4, ZenonT(60) DEF Invariant, Locals, LocalOK
<1>8. Jobs'
  <2>1. ASSUME NEW j \in jobs
        PROVE  JobOK(j)'
    <3>1. JobOK(j) /\ j \in Job /\ j.by # p
      BY <1>1, ProcAssumption DEF LoopDetaches, Invariant, Jobs, TypeOK, JobOK, At, Job
    <3>2. j.by \in Cleaner => j.by # None /\ j.by \in Proc
      BY ProcAssumption DEF Proc
    <3> QED
      BY <1>2, <1>4, <3>1, <3>2 DEF JobOK, At, Proc
  <2> QED
    BY <1>2, <2>1 DEF Jobs
<1>9. ReportedOnce'
  <2>1. ASSUME NEW q \in Cleaner, Quiet(q)
        PROVE  Quiet(q)'
    <3>1. q \in Proc /\ q # None
      BY ProcAssumption DEF Proc
    <3> QED
      BY <1>2, <1>4, <2>1, <3>1 DEF Quiet, At
  <2> QED
    BY <1>2, <2>1 DEF Invariant, ReportedOnce, Cleaner, peer
<1>10. Accounted'
  <2>1. \A x \in Session : Ending(x) => Ending(x)'
    BY <1>1, <1>2, <1>4 DEF Ending, Closes, peer
  <2> QED
    BY <1>2, <2>1, NoneLost DEF peer
<1>11. TypeOK'
  BY <1>2, <1>4, <1>5, <1>6 DEF TypeOK, Invariant, peer, world
<1> QED
  BY <1>2, <1>4, <1>5, <1>6, <1>7, <1>8, <1>9, <1>10, <1>11
     DEF Invariant, LoopOK, MakesFirst

\* A connection that is open has not failed or ended before.
LEMMA PeerFailsInv ==
    ASSUME Invariant, NEW s \in Session, PeerFails(s)
    PROVE  Invariant'
<1>1. PICK cause \in {"failed", "closed"} :
         /\ pc' = [pc EXCEPT ![s] = IF cause = "failed" THEN "failed" ELSE "ended"]
         /\ jobs' = jobs \cup {StateEvent(s, cause)}
  BY DEF PeerFails
<1> DEFINE q == <<s, cause>>
           event == StateEvent(s, cause)
<1>2. /\ pc[s] = "open"
      /\ UNCHANGED <<registry, managerLock, made, wired, lost, video, loop, proc, world>>
  BY DEF PeerFails
<1>3. /\ event \in Job /\ event.kind = "state" /\ event.s = s /\ event.by = q
      /\ q \in Cleaner /\ q[1] = s /\ q[2] = cause
  BY DEF StateEvent, Job, Cleaner, Proc
<1>4. Quiet(q)
  BY <1>2 DEF Invariant, ReportedOnce
<1>5. /\ pc' \in [Session -> {"new", "open", "failed", "ended", "closed"}]
      /\ pc'[s] = IF cause = "failed" THEN "failed" ELSE "ended"
      /\ \A x \in Session : x # s => pc'[x] = pc[x]
  BY <1>1 DEF Invariant, TypeOK
<1> HIDE DEF q, event
<1>6. Jobs'
  <2>1. ASSUME NEW k \in jobs
        PROVE  JobOK(k)'
    BY <1>2 DEF Invariant, Jobs, JobOK, At
  <2>2. ASSUME NEW k, k = event
        PROVE  JobOK(k)'
    BY <1>2, <1>3, <1>4, <2>2 DEF JobOK, Quiet, At
  <2> QED
    BY <1>1, <2>1, <2>2 DEF Jobs, event
<1>7. ReportedOnce'
  <2>1. ASSUME NEW r \in Cleaner, Quiet(r), r # q
        PROVE  Quiet(r)'
    BY <1>1, <1>2, <1>3, <2>1 DEF Quiet, At, event
  <2>2. ASSUME NEW x \in Session, x # s, NEW c \in {"failed", "closed"}, Quiet(<<x, c>>)
        PROVE  Quiet(<<x, c>>)'
    BY <1>3, <2>1, <2>2 DEF Cleaner
  <2>3. cause = "failed" => Quiet(<<s, "closed">>)'
    <3>1. Quiet(<<s, "closed">>)
      BY <1>2 DEF Invariant, ReportedOnce
    <3> QED
      BY <1>3, <2>1, <3>1 DEF Cleaner
  <2> QED
    BY <1>5, <2>2, <2>3 DEF Invariant, ReportedOnce
<1>8. Accounted'
  <2>1. \A x \in Session : Ending(x) => Ending(x)'
    BY <1>1, <1>2, <1>5 DEF Ending, lost, Closes
  <2> QED
    BY <1>2, <2>1, NoneLost
<1>9. TypeOK'
  <2>1. jobs' \subseteq Job
    BY <1>1, <1>3 DEF Invariant, TypeOK, event
  <2> QED
    BY <1>2, <1>5, <2>1 DEF TypeOK, Invariant, At, video, lost, world
<1> QED
  BY <1>2, <1>6, <1>7, <1>8, <1>9
     DEF Invariant, Locals, LoopOK, MakesFirst, OneSource, At, video

-----------------------------------------------------------------------------
(* Calls arriving, and the theorems.                                         *)

\* A client that is replaced takes its listeners with it.
LEMMA ArrivalInv ==
    ASSUME Invariant, NEW t \in Thread, Arrival(t)
    PROVE  Invariant'
<1>1. At(t, "idle") /\ t \in Proc
  BY DEF Arrival, Arrive, OfferArrives, OfferRebuilds, ReattachArrives, CloseArrives, Proc
<1>2. ASSUME NEW call \in {"offer", "reattach", "close"}, NEW place \in {"get", "keys", "pop"},
             NEW cl \in Client \cup {None},
             Arrive(t, call, place, cl),
             \/ call = "offer" /\ place = "get" /\ cl # None
             \/ call = "reattach" /\ place = "keys" /\ cl # None
             \/ call = "close" /\ place = "pop",
             UNCHANGED <<current, listens>> \/ Replaced
      PROVE  Invariant'
  <2> DEFINE l == [Idle EXCEPT !.at = place, !.call = call, !.cl = cl, !.back = "wire"]
  <2>1. /\ l \in Local
        /\ l.at = place /\ l.call = call /\ l.s = None /\ l.cl = cl /\ l.back = "wire"
    BY <1>2 DEF Idle, Local, Place
  <2>2. Moved(t, place, call, None, cl, "wire")
    <3>1. proc' = [proc EXCEPT ![t] = l]
      BY <1>2 DEF Arrive
    <3> HIDE DEF l
    <3> QED
      BY <1>1, <2>1, <3>1 DEF Moved, Invariant, TypeOK
  <2>3. LocalOK([at |-> place, call |-> call, s |-> None, cl |-> cl, back |-> "wire"])
    BY <1>2 DEF LocalOK
  <2>4. \A x \in Session : ~Closes(t, x)
    BY <1>1 DEF Closes, At
  <2>5. /\ current' \in Client
        /\ listens' \in [Session -> SUBSET Client]
        /\ \A x \in Session : listens'[x] \subseteq listens[x]
    BY <1>2, BoundsAssumption DEF Replaced, Invariant, TypeOK, Client
  <2>6. /\ calls' \in 0..MaxCalls
        /\ UNCHANGED <<registry, managerLock, made, pc, wired, late, orphans, lock, source,
                       jobs, loop>>
    BY <1>2, BoundsAssumption DEF Arrive, Invariant, TypeOK, peer
  <2>7. OneSource'
    BY <2>5, <2>6 DEF Invariant, OneSource
  <2> QED
    BY <1>1, <2>2, <2>3, <2>4, <2>5, <2>6, <2>7, UnnamedArrival, WalkInv
       DEF Invariant, TypeOK
<1>3. current \in Client /\ current # None
  BY ProcAssumption DEF Invariant, TypeOK
<1>4. Replaced => current + 1 \in Client /\ current + 1 # None
  BY <1>3, BoundsAssumption, ProcAssumption DEF Replaced, Client
<1> QED
  BY <1>2, <1>3, <1>4
     DEF Arrival, OfferArrives, OfferRebuilds, ReattachArrives, CloseArrives

LEMMA InitInv == ASSUME Init PROVE Invariant
<1>1. TypeOK
  BY IdleType, BoundsAssumption, ProcAssumption
     DEF Init, TypeOK, At, Idle, Client
<1>2. Locals
  BY DEF Init, Locals, LocalOK, Idle
<1>3. ReportedOnce
  <2>1. \A q \in Cleaner : Quiet(q)
    BY ProcAssumption DEF Init, Quiet, At, Idle, Proc
  <2> QED
    BY <2>1 DEF ReportedOnce, Cleaner
<1>4. Jobs /\ LoopOK /\ MakesFirst /\ OneSource
  BY DEF Init, Jobs, LoopOK, MakesFirst, OneSource
<1>5. Accounted
  BY DEF Init, Accounted
<1> QED
  BY <1>1, <1>2, <1>3, <1>4, <1>5 DEF Invariant

LEMMA NextInv ==
    ASSUME Invariant, [Next]_vars
    PROVE  Invariant'
<1>1. ASSUME NEW t \in Thread, Arrival(t)
      PROVE  Invariant'
  BY <1>1, ArrivalInv
<1>2. ASSUME NEW p \in Proc, Step(p)
      PROVE  Invariant'
  BY <1>2, GetFindsInv, GetMakesInv, MakeTimesOutInv, WireInv, SubmitInv, WaitTimesOutInv,
     FetchInv, AttachInv, AttachNestsInv, DetachInv, KeysInv, PopInv DEF Step
<1>3. ASSUME LoopStep
      PROVE  Invariant'
  BY <1>3, LoopDetachesInv, MakeInv, MakeLateInv, OfferInv, CloseInv, StateInv DEF LoopStep, Run
<1>4. ASSUME NEW s \in Session, PeerFails(s)
      PROVE  Invariant'
  BY <1>4, PeerFailsInv
<1>5. CASE UNCHANGED vars
  BY <1>5 DEF vars, peer, video, world, Invariant, TypeOK, Locals, LocalOK, Jobs, JobOK,
     LoopOK, ReportedOnce, Quiet, MakesFirst, OneSource, Accounted, At
<1> QED
  BY <1>1, <1>2, <1>3, <1>4, <1>5 DEF Next

LEMMA Inductive == Spec => []Invariant
BY InitInv, NextInv, PTL DEF Spec

\* Every variable keeps its type, and the manager's lock is held exactly by the
\* thread that waits for a session to be made (PeerManager.get_or_create).
THEOREM TypeCorrect == Spec => []TypeOK
BY Inductive, PTL DEF Invariant

\* However attaches, detaches, reattachments and replaced clients interleave, no
\* listener of a session is left on a client that the session has left
\* (attach_video_source, detach_video_source).
THEOREM SourcesAreUnique == Spec => []OneSource
BY Inductive, PTL DEF Invariant

\* A session enters the registry only where none is, and it is the newest one made:
\* get_or_create overwrites no session, and one that was taken out stays out.
RegisteredOnce ==
    [][registry' # registry => registry' = None \/ (registry = None /\ registry' > made)]_vars

LEMMA RegistrySteps ==
    ASSUME Invariant, [Next]_vars
    PROVE  registry' # registry => registry' = None \/ (registry = None /\ registry' > made)
<1> DEFINE Steps == registry' # registry
                    => registry' = None \/ (registry = None /\ registry' > made)
<1>1. ASSUME NEW t \in Thread, Arrival(t)
      PROVE  Steps
  <2>1. \A call, place, cl : Arrive(t, call, place, cl) => registry' = registry
    BY Zenon DEF Arrive
  <2> QED
    BY <1>1, <2>1 DEF Arrival, OfferArrives, OfferRebuilds, ReattachArrives, CloseArrives
<1>2. ASSUME NEW p \in Proc, Step(p)
      PROVE  Steps
  <2>1. \A from, kind, to : Submit(p, from, kind, to) => registry' = registry
    BY Zenon DEF Submit
  <2>2. Negotiate(p) \/ Shut(p) => Steps
    BY <2>1 DEF Negotiate, Shut
  <2>3. GetFinds(p) \/ GetMakes(p) \/ MakeTimesOut(p) \/ Wire(p) \/ WaitTimesOut(p) => Steps
    BY DEF GetFinds, GetMakes, MakeTimesOut, Wire, WaitTimesOut
  <2>4. Fetch(p) \/ Attach(p) \/ AttachNests(p) \/ Detach(p) \/ Keys(p) \/ Pop(p) => Steps
    BY DEF Fetch, Attach, AttachNests, Detach, Keys, Pop
  <2> QED
    BY <1>2, <2>2, <2>3, <2>4 DEF Step
<1>3. ASSUME NEW j \in jobs, Run(j)
      PROVE  Steps
  <2>1. CASE Make(j)
    <3>1. JobOK(j)
      BY DEF Invariant, Jobs
    <3>2. j.by \in Proc /\ proc[j.by].at = "making"
      BY <2>1, <3>1 DEF JobOK, Make, At
    <3>3. registry = None
      BY <3>2, ProcAssumption DEF Invariant, TypeOK, MakesFirst, At
    <3>4. registry' = made + 1 /\ made \in Nat
      BY <2>1, BoundsAssumption DEF Make, Invariant, TypeOK
    <3> QED
      BY <3>3, <3>4
  <2>2. CASE ~Make(j)
    BY <1>3, <2>2 DEF Run, OfferSucceeds, OfferFails, Close, StateIgnored, StateHandled
  <2> QED
    BY <2>1, <2>2
<1>4. ASSUME LoopDetaches \/ MakeLate \/ \E s \in Session : PeerFails(s)
      PROVE  Steps
  BY <1>4 DEF LoopDetaches, MakeLate, PeerFails
<1>5. CASE UNCHANGED vars
  BY <1>5 DEF vars
<1> QED
  BY <1>1, <1>2, <1>3, <1>4, <1>5 DEF Next, LoopStep

\* PeerManager.get_or_create, which makes a session on another thread while it holds
\* the lock, also when it gives up the wait: no session is replaced by another, and
\* none comes back.
THEOREM SessionsRegisterOnce == Spec => RegisteredOnce
<1>1. Invariant /\ [Next]_vars
      => (registry' # registry => registry' = None \/ (registry = None /\ registry' > made))
  BY RegistrySteps
<1> QED
  BY Inductive, <1>1, PTL DEF Spec, RegisteredOnce

-----------------------------------------------------------------------------
(* What nobody refers to.                                                    *)

\* The session x is not registered, no thread, job or event holds it, and its
\* connection is as it was made.
Free(x) ==
    /\ registry # x
    /\ \A p \in Proc : proc[p].s # x
    /\ \A j \in jobs : j.s # x
    /\ loop # None => loop[1] # x
    /\ pc[x] = "new"
    /\ x \notin wired
    /\ source[x] = None

\* So are the sessions not made yet, and those made for nobody.
Unclaimed == \A x \in Session : x > made \/ x \in orphans => Free(x)

LEMMA NoneIsNoSession == None \notin Session
BY ProcAssumption

\* Whatever a thread does, it is about its own session or the registered one.
LEMMA StepLeavesFree ==
    ASSUME Invariant, NEW p \in Proc, Step(p), NEW x \in Session, Free(x)
    PROVE  Free(x)'
<1>1. /\ proc \in [Proc -> Local]
      /\ jobs \subseteq Job
      /\ source \in [Session -> Client \cup {None}]
      /\ proc[p].s # x
  BY DEF Invariant, TypeOK, Free
\* The threads: each holds what it held, the registered session or none.
<1>2. \A place : Goto(p, place) => \A q \in Proc : proc'[q].s = proc[q].s
  BY <1>1 DEF Goto, Local
<1>3. Return(p) => \A q \in Proc : proc'[q].s \in {proc[q].s, None}
  BY <1>1 DEF Return, Idle
<1>4. \A q \in Proc : proc'[q].s # x
  <2>1. \A from, kind, to : Submit(p, from, kind, to) => \E place : Goto(p, place)
    BY DEF Submit
  <2>2. CASE \E place : Goto(p, place)
    BY <1>2, <2>2 DEF Free
  <2>3. CASE Return(p)
    BY <1>3, <2>3, NoneIsNoSession DEF Free
  <2>4. CASE GetFinds(p) \/ Wire(p) \/ Fetch(p) \/ Pop(p)
    <3>1. CASE GetFinds(p)
      BY <1>1, <3>1 DEF GetFinds, Free, Local
    <3>2. CASE Wire(p)
      BY <1>1, <3>2 DEF Wire, Free, Local
    <3>3. CASE Fetch(p)
      BY <1>1, <2>3, <3>3 DEF Fetch, Free, Local
    <3>4. CASE Pop(p)
      BY <1>1, <2>3, <3>4 DEF Pop, Free, Local
    <3> QED
      BY <2>4, <3>1, <3>2, <3>3, <3>4
  <2>5. CASE GetMakes(p) \/ AttachNests(p) \/ Detach(p)
    BY <2>2, <2>5 DEF GetMakes, AttachNests, Detach
  <2>6. CASE MakeTimesOut(p) \/ WaitTimesOut(p) \/ Attach(p)
    BY <2>3, <2>6 DEF MakeTimesOut, WaitTimesOut, Attach
  <2>7. CASE Keys(p)
    BY <2>2, <2>3, <2>7 DEF Keys
  <2> QED
    BY <2>1, <2>2, <2>4, <2>5, <2>6, <2>7 DEF Step, Negotiate, Shut
\* The loop: a new job is about the session of its thread.
<1>5. \A j \in jobs' : j.s # x
  <2>1. \A from, kind, to : Submit(p, from, kind, to) => \A j \in jobs' : j.s # x
    BY <1>1 DEF Submit, Free
  <2>2. GetMakes(p) => \A j \in jobs' : j.s # x
    BY NoneIsNoSession DEF GetMakes, Free
  <2>3. MakeTimesOut(p) => \A j \in jobs' : j.s # x
    BY DEF MakeTimesOut, Free
  <2>4. WaitTimesOut(p) => \A j \in jobs' : j.s # x
    BY <1>1 DEF WaitTimesOut, Free, Job
  <2>5. GetFinds(p) \/ Wire(p) \/ Fetch(p) \/ Attach(p) \/ AttachNests(p) \/ Detach(p)
           \/ Keys(p) \/ Pop(p) => jobs' = jobs
    BY DEF GetFinds, Wire, Fetch, Attach, AttachNests, Detach, Keys, Pop
  <2> QED
    BY <2>1, <2>2, <2>3, <2>4, <2>5 DEF Step, Negotiate, Shut, Free
\* The session itself.
<1>6. source'[x] = source[x]
  <2>1. \A from, kind, to : Submit(p, from, kind, to) => source' = source
    BY Zenon DEF Submit, video
  <2>2. Attach(p) \/ AttachNests(p) => source'[x] = source[x]
    BY <1>1 DEF Attach, AttachNests
  <2>3. Detach(p) => source'[x] = source[x]
    BY <1>1 DEF Detach, Silence
  <2>4. GetFinds(p) \/ GetMakes(p) \/ MakeTimesOut(p) \/ Wire(p) \/ WaitTimesOut(p) \/ Fetch(p)
           \/ Keys(p) \/ Pop(p) => source' = source
    BY DEF GetFinds, GetMakes, MakeTimesOut, Wire, WaitTimesOut, Fetch, Keys, Pop, video
  <2> QED
    BY <2>1, <2>2, <2>3, <2>4 DEF Step, Negotiate, Shut
<1>7. /\ registry' \in {registry, None}
      /\ UNCHANGED <<pc, loop>>
      /\ wired' \subseteq wired \cup {proc[p].s}
  <2>1. \A from, kind, to : Submit(p, from, kind, to) => UNCHANGED <<registry, pc, loop, wired>>
    BY Zenon DEF Submit, peer
  <2>2. GetFinds(p) \/ GetMakes(p) \/ MakeTimesOut(p) \/ WaitTimesOut(p)
        => UNCHANGED <<registry, pc, loop, wired>>
    BY DEF GetFinds, GetMakes, MakeTimesOut, WaitTimesOut, peer
  <2>3. Fetch(p) \/ Attach(p) \/ AttachNests(p) \/ Detach(p) \/ Keys(p)
        => UNCHANGED <<registry, pc, loop, wired>>
    BY DEF Fetch, Attach, AttachNests, Detach, Keys, peer
  <2>4. Pop(p) => registry' = None /\ UNCHANGED <<pc, loop, wired>>
    BY DEF Pop, peer
  <2>5. Wire(p) => UNCHANGED <<registry, pc, loop>> /\ wired' = wired \cup {proc[p].s}
    BY DEF Wire
  <2> QED
    BY <2>1, <2>2, <2>3, <2>4, <2>5 DEF Step, Negotiate, Shut
<1> QED
  BY <1>1, <1>4, <1>5, <1>6, <1>7, NoneIsNoSession DEF Free

\* So does the loop, but for the session that it makes.
LEMMA LoopLeavesFree ==
    ASSUME Invariant, LoopStep, NEW x \in Session, Free(x), registry' # x
    PROVE  Free(x)'
<1>1. proc \in [Proc -> Local] /\ jobs \subseteq Job /\ source \in [Session -> Client \cup {None}]
  BY DEF Invariant, TypeOK
<1>2. CASE LoopDetaches
  <2>1. loop \in Proc /\ loop[1] # x
    BY <1>2 DEF LoopDetaches, Free, Invariant, TypeOK, Proc
  <2>2. \A q \in Proc : proc'[q].s # x
    BY <1>1, <1>2, <2>1, NoneIsNoSession DEF LoopDetaches, Free, Idle
  <2>3. source'[x] = source[x]
    BY <1>1, <1>2, <2>1 DEF LoopDetaches, Silence
  <2> QED
    BY <1>2, <2>2, <2>3 DEF LoopDetaches, Free, peer
<1>3. CASE MakeLate
  BY <1>3 DEF MakeLate, Free, video
<1>4. ASSUME NEW j \in jobs, Run(j)
      PROVE  Free(x)'
  <2>1. JobOK(j) /\ j \in Job /\ j.s # x
    BY DEF Invariant, Jobs, TypeOK, Free
  <2>2. CASE Make(j)
    BY <1>1, <2>1, <2>2 DEF Make, Free, video
  <2>3. ASSUME NEW l, Answer(j, l), l \in {Idle, [proc[j.by] EXCEPT !.at = "fetch"]},
               j.kind \in {"offer", "close"}
        PROVE  \A q \in Proc : proc'[q].s # x
    <3>1. j.by # None => j.by \in Proc
      BY <2>1, <2>3 DEF JobOK
    <3>2. j.by # None => l.s # x
      BY <1>1, <2>3, <3>1, NoneIsNoSession DEF Idle, Free, Local
    <3> QED
      BY <1>1, <2>3, <3>1, <3>2 DEF Answer, Free
  <2>4. CASE OfferSucceeds(j) \/ OfferFails(j)
    <3>1. \A q \in Proc : proc'[q].s # x
      BY <2>3, <2>4 DEF OfferSucceeds, OfferFails
    <3>2. pc'[x] = pc[x]
      BY <2>1, <2>4 DEF OfferSucceeds, OfferFails, peer, Invariant, TypeOK
    <3> QED
      BY <2>4, <3>1, <3>2 DEF OfferSucceeds, OfferFails, Free, peer, video
  <2>5. CASE Close(j)
    <3>1. \A q \in Proc : proc'[q].s # x
      BY <2>3, <2>5 DEF Close
    <3>2. pc'[x] = pc[x]
      BY <2>1, <2>5 DEF Close, Invariant, TypeOK
    <3>3. \A k \in jobs' : k.s # x
      BY <2>1, <2>5 DEF Close, StateEvent, Free
    <3> QED
      BY <2>5, <3>1, <3>2, <3>3 DEF Close, Free, video
  <2>6. CASE StateIgnored(j) \/ StateHandled(j)
    <3>1. j.by[1] = j.s
      BY <2>1, <2>6 DEF StateIgnored, StateHandled, JobOK
    <3> QED
      BY <2>1, <2>6, <3>1 DEF StateIgnored, StateHandled, Free, peer, video
  <2> QED
    BY <1>4, <2>2, <2>4, <2>5, <2>6 DEF Run
<1> QED
  BY <1>2, <1>3, <1>4 DEF LoopStep

LEMMA StaysFree ==
    ASSUME Invariant, [Next]_vars, NEW x \in Session, Free(x), registry' # x
    PROVE  Free(x)'
<1>1. ASSUME NEW t \in Thread, Arrival(t)
      PROVE  Free(x)'
  <2>1. ASSUME NEW call, NEW place, NEW cl, Arrive(t, call, place, cl)
        PROVE  Free(x)'
    BY <2>1, NoneIsNoSession DEF Arrive, Free, Idle, peer, Invariant, TypeOK
  <2> QED
    BY <1>1, <2>1 DEF Arrival, OfferArrives, OfferRebuilds, ReattachArrives, CloseArrives
<1>2. ASSUME NEW s \in Session, PeerFails(s)
      PROVE  Free(x)'
  <2>1. s # x
    BY <1>2 DEF PeerFails, Free
  <2>2. \A k \in jobs' : k.s # x
    BY <1>2, <2>1 DEF PeerFails, StateEvent, Free
  <2>3. pc'[x] = pc[x]
    BY <1>2, <2>1 DEF PeerFails, Invariant, TypeOK
  <2> QED
    BY <1>2, <2>2, <2>3 DEF PeerFails, Free, video
<1>3. CASE UNCHANGED vars
  BY <1>3 DEF vars, Free
<1> QED
  BY <1>1, <1>2, <1>3, StepLeavesFree, LoopLeavesFree DEF Next

\* What is claimed was made, and not for nobody.
LEMMA Claims ==
    ASSUME Invariant, [Next]_vars
    PROVE  /\ made' >= made
           /\ orphans' \subseteq orphans \cup ((made + 1)..made')
           /\ registry' = registry \/ registry' = None \/
                 (registry' = made + 1 /\ made' = made + 1 /\ orphans' = orphans)
<1> DEFINE Goal == /\ made' >= made
                   /\ orphans' \subseteq orphans \cup ((made + 1)..made')
                   /\ registry' = registry \/ registry' = None \/
                         (registry' = made + 1 /\ made' = made + 1 /\ orphans' = orphans)
<1>1. made \in Nat
  BY DEF Invariant, TypeOK
<1>2. UNCHANGED <<made, orphans>> /\ registry' \in {registry, None} => Goal
  BY <1>1
<1>3. ASSUME NEW j \in jobs, Make(j)
      PROVE  Goal
  BY <1>1, <1>3 DEF Make, lost
<1>4. ASSUME MakeLate
      PROVE  Goal
  <2>1. /\ made' = made + 1 /\ registry' = registry
        /\ orphans' = orphans \cup {made + 1}
    BY <1>4 DEF MakeLate
  <2> QED
    BY <1>1, <2>1
<1>5. ASSUME NEW t \in Thread, Arrival(t)
      PROVE  UNCHANGED <<made, orphans, registry>>
  <2>1. \A call, place, cl : Arrive(t, call, place, cl) => UNCHANGED <<made, orphans, registry>>
    BY Zenon DEF Arrive, peer
  <2> QED
    BY <1>5, <2>1 DEF Arrival, OfferArrives, OfferRebuilds, ReattachArrives, CloseArrives
<1>6. ASSUME NEW p \in Proc, Step(p)
      PROVE  UNCHANGED <<made, orphans>> /\ registry' \in {registry, None}
  <2>1. \A from, kind, to : Submit(p, from, kind, to) => UNCHANGED <<made, orphans, registry>>
    BY Zenon DEF Submit, peer
  <2>2. GetFinds(p) \/ GetMakes(p) \/ MakeTimesOut(p) \/ Wire(p) \/ WaitTimesOut(p)
        => UNCHANGED <<made, orphans, registry>>
    BY DEF GetFinds, GetMakes, MakeTimesOut, Wire, WaitTimesOut, peer, lost
  <2>3. Fetch(p) \/ Attach(p) \/ AttachNests(p) \/ Detach(p) \/ Keys(p) \/ Pop(p)
        => UNCHANGED <<made, orphans>> /\ registry' \in {registry, None}
    BY DEF Fetch, Attach, AttachNests, Detach, Keys, Pop, peer
  <2> QED
    BY <1>6, <2>1, <2>2, <2>3 DEF Step, Negotiate, Shut
<1>7. ASSUME LoopDetaches \/ (\E j \in jobs : Run(j) /\ ~Make(j)) \/ (\E s \in Session : PeerFails(s))
      PROVE  UNCHANGED <<made, orphans, registry>>
  BY <1>7 DEF LoopDetaches, Run, OfferSucceeds, OfferFails, Close, StateIgnored, StateHandled,
     PeerFails, peer, lost
<1>8. CASE UNCHANGED vars
  BY <1>2, <1>8 DEF vars
<1> QED
  BY <1>2, <1>3, <1>4, <1>5, <1>6, <1>7, <1>8 DEF Next, LoopStep

LEMMA UnclaimedInv ==
    ASSUME Invariant, Unclaimed, [Next]_vars
    PROVE  Unclaimed'
<1> SUFFICES ASSUME NEW x \in Session, x > made' \/ x \in orphans'
             PROVE  Free(x)'
  BY DEF Unclaimed
<1>1. made \in Nat /\ made' \in Nat /\ orphans \subseteq 1..made /\ x \in Nat
  BY NextInv DEF Invariant, TypeOK, Session
<1>2. x > made \/ x \in orphans
  BY <1>1, Claims
<1>3. Free(x)
  BY <1>2 DEF Unclaimed
<1>4. registry' # x
  BY <1>1, <1>3, Claims, NoneIsNoSession DEF Free
<1> QED
  BY <1>3, <1>4, StaysFree

\* A session that is not registered is closed, or its close is under way, even
\* after time-outs of the threads that wait for the loop (PeerManager.close).  The
\* one kind of connection that leaks, made after its thread gave up, stays as it
\* was made: nobody can negotiate it or give it a source.
THEOREM PeersDoNotLeak == Spec => []NoLeakedPeer
<1>1. Init => Unclaimed
  BY NoneIsNoSession DEF Init, Unclaimed, Free, Idle
<1>2. Invariant /\ Unclaimed /\ [Next]_vars => Unclaimed'
  BY UnclaimedInv
<1>3. Invariant /\ Unclaimed => NoLeakedPeer
  BY SessionsMade DEF Invariant, Accounted, Unclaimed, Free, NoLeakedPeer
<1> QED
  BY Inductive, <1>1, <1>2, <1>3, PTL DEF Spec

-----------------------------------------------------------------------------
(* Who may wait for whom.                                                    *)

\* The lock of a session is held across steps only by a thread that waits for it.
LocksNested == \A s \in Session : lock[s] # None => Nested(s)

\* A step of one thread, or of the loop, moves only that thread.
LEMMA StepsMoveOne ==
    ASSUME Invariant, NEW p \in Proc, NEW q \in Proc, q # p, Step(q)
    PROVE  proc'[p] = proc[p]
<1>1. proc \in [Proc -> Local]
  BY DEF Invariant, TypeOK
<1>2. GetFinds(q) \/ GetMakes(q) \/ MakeTimesOut(q) \/ Wire(q) \/ WaitTimesOut(q)
      => proc'[p] = proc[p]
  BY <1>1 DEF GetFinds, GetMakes, MakeTimesOut, Wire, WaitTimesOut, Goto, Return
<1>3. Negotiate(q) \/ Shut(q) => proc'[p] = proc[p]
  BY <1>1 DEF Negotiate, Shut, Submit, Goto
<1>4. Fetch(q) \/ Attach(q) \/ AttachNests(q) => proc'[p] = proc[p]
  BY <1>1 DEF Fetch, Attach, AttachNests, Goto, Return
<1>5. Detach(q) \/ Keys(q) \/ Pop(q) => proc'[p] = proc[p]
  BY <1>1 DEF Detach, Keys, Pop, Goto, Return
<1> QED
  BY <1>2, <1>3, <1>4, <1>5 DEF Step

\* A thread that waits for the lock of a session is moved by nobody.
LEMMA WaiterStays ==
    ASSUME Invariant, [Next]_vars, NEW p \in Proc, At(p, "detach"), lock[proc[p].s] # None
    PROVE  proc'[p] = proc[p]
<1>1. proc \in [Proc -> Local] /\ proc[p].at = "detach"
  BY DEF Invariant, TypeOK, At
<1>2. ASSUME NEW t \in Thread, Arrival(t)
      PROVE  proc'[p] = proc[p]
  <2>1. proc[t].at = "idle"
    BY <1>2 DEF Arrival, OfferArrives, OfferRebuilds, ReattachArrives, CloseArrives, Arrive, At
  <2>2. \A call, place, cl : Arrive(t, call, place, cl) => proc'[p] = proc[p]
    BY <1>1, <2>1 DEF Arrive
  <2> QED
    BY <1>2, <2>2 DEF Arrival, OfferArrives, OfferRebuilds, ReattachArrives, CloseArrives
<1>3. ASSUME NEW q \in Proc, Step(q)
      PROVE  proc'[p] = proc[p]
  <2>1. CASE q # p
    BY <1>3, <2>1, StepsMoveOne
  <2>2. ~Step(p)
    <3>1. ~Detach(p)
      BY DEF Detach, Silence
    <3>2. \A to, kind : ~Submit(p, "negotiate", kind, to) /\ ~Submit(p, "shut", kind, to)
      BY <1>1 DEF Submit, At
    <3> QED
      BY <1>1, <3>1, <3>2 DEF Step, GetFinds, GetMakes, MakeTimesOut, Wire, Negotiate, Shut,
         WaitTimesOut, Fetch, Attach, AttachNests, Keys, Pop, At
  <2> QED
    BY <1>3, <2>1, <2>2
<1>4. ASSUME NEW j \in jobs, Run(j)
      PROVE  proc'[p] = proc[p]
  <2>1. JobOK(j) /\ j \in Job
    BY DEF Invariant, Jobs, TypeOK
  <2>2. CASE Make(j)
    <3>1. j.by # p
      BY <1>1, <2>1, <2>2 DEF Make, JobOK, At
    <3> QED
      BY <1>1, <2>2, <3>1 DEF Make
  <2>3. ASSUME NEW l, Answer(j, l), j.kind \in {"offer", "close"}
        PROVE  proc'[p] = proc[p]
    <3>1. j.by # p
      BY <1>1, <2>1, <2>3, ProcAssumption DEF JobOK, At
    <3> QED
      BY <1>1, <2>3, <3>1 DEF Answer
  <2>4. OfferSucceeds(j) \/ OfferFails(j) \/ Close(j) => proc'[p] = proc[p]
    BY <2>3 DEF OfferSucceeds, OfferFails, Close
  <2>5. StateIgnored(j) \/ StateHandled(j) => proc'[p] = proc[p]
    BY DEF StateIgnored, StateHandled
  <2> QED
    BY <1>4, <2>2, <2>4, <2>5 DEF Run
<1>5. ASSUME LoopDetaches
      PROVE  proc'[p] = proc[p]
  <2>1. loop # p
    BY <1>1, <1>5 DEF LoopDetaches, Invariant, LoopOK, At
  <2> QED
    BY <1>1, <1>5, <2>1 DEF LoopDetaches
<1>6. ASSUME MakeLate \/ \E s \in Session : PeerFails(s)
      PROVE  proc'[p] = proc[p]
  BY <1>6 DEF MakeLate, PeerFails
<1>7. CASE UNCHANGED vars
  BY <1>7 DEF vars
<1> QED
  BY <1>2, <1>3, <1>4, <1>5, <1>6, <1>7 DEF Next, LoopStep

\* No step but attach_video_source keeps a lock of a session.
LEMMA LockTaken ==
    ASSUME [Next]_vars
    PROVE  lock' = lock \/ \E p \in Proc : AttachNests(p)
<1>1. \A s : Silence(s) => lock' = lock
  BY DEF Silence
<1>2. ASSUME NEW t \in Thread, Arrival(t)
      PROVE  lock' = lock
  <2>1. \A call, place, cl : Arrive(t, call, place, cl) => lock' = lock
    BY Zenon DEF Arrive
  <2> QED
    BY <1>2, <2>1 DEF Arrival, OfferArrives, OfferRebuilds, ReattachArrives, CloseArrives
<1>3. ASSUME NEW p \in Proc, Step(p), ~AttachNests(p)
      PROVE  lock' = lock
  <2>1. \A from, kind, to : Submit(p, from, kind, to) => lock' = lock
    BY Zenon DEF Submit, video
  <2>2. Negotiate(p) \/ Shut(p) => lock' = lock
    BY <2>1 DEF Negotiate, Shut
  <2>3. Detach(p) => lock' = lock
    BY <1>1 DEF Detach
  <2>4. GetFinds(p) \/ GetMakes(p) \/ MakeTimesOut(p) \/ Wire(p) \/ WaitTimesOut(p)
        => lock' = lock
    BY DEF GetFinds, GetMakes, MakeTimesOut, Wire, WaitTimesOut, video
  <2>5. Fetch(p) \/ Attach(p) \/ Keys(p) \/ Pop(p) => lock' = lock
    BY DEF Fetch, Attach, Keys, Pop, video
  <2> QED
    BY <1>3, <2>2, <2>3, <2>4, <2>5 DEF Step
<1>4. ASSUME LoopStep
      PROVE  lock' = lock
  <2>1. LoopDetaches => lock' = lock
    BY <1>1 DEF LoopDetaches
  <2>2. \A j \in jobs : Run(j) => lock' = lock
    BY DEF Run, Make, OfferSucceeds, OfferFails, Close, StateIgnored, StateHandled, video
  <2>3. MakeLate => lock' = lock
    BY DEF MakeLate, video
  <2> QED
    BY <1>4, <2>1, <2>2, <2>3 DEF LoopStep
<1>5. ASSUME NEW s \in Session, PeerFails(s)
      PROVE  lock' = lock
  BY <1>5 DEF PeerFails, video
<1>6. CASE UNCHANGED vars
  BY <1>6 DEF vars
<1> QED
  BY <1>2, <1>3, <1>4, <1>5, <1>6 DEF Next

LEMMA LocksNestedInv ==
    ASSUME Invariant, LocksNested, [Next]_vars
    PROVE  LocksNested'
<1> SUFFICES ASSUME NEW s \in Session, lock'[s] # None
             PROVE  Nested(s)'
  BY DEF LocksNested
<1>1. CASE lock[s] # None
  <2>1. PICK p \in Proc : lock[s] = p /\ At(p, "detach") /\ proc[p].s = s /\ proc[p].back = "attach"
    BY <1>1 DEF LocksNested, Nested
  <2>2. proc'[p] = proc[p]
    BY <1>1, <2>1, WaiterStays
  <2>3. lock'[s] = lock[s]
    BY <1>1, LockTaken DEF AttachNests, Invariant, TypeOK
  <2> QED
    BY <2>1, <2>2, <2>3 DEF Nested, At
<1>2. CASE lock[s] = None
  <2>1. PICK p \in Proc : AttachNests(p)
    BY <1>2, LockTaken
  <2>2. proc[p].at = "attach" /\ proc[p].back = "attach"
    BY <2>1 DEF AttachNests, At, Invariant, Locals, LocalOK
  <2>3. proc[p].s = s /\ lock'[s] = p
    BY <1>2, <2>1 DEF AttachNests, Invariant, TypeOK
  <2>4. Moved(p, "detach", proc[p].call, s, proc[p].cl, "attach")
    BY <2>1, <2>2, <2>3, GotoMoves DEF AttachNests, Invariant, TypeOK, Place
  <2> QED
    BY <2>3, <2>4 DEF Nested, At, Moved
<1> QED
  BY <1>1, <1>2

LEMMA HangsOneWay ==
    ASSUME Invariant, LocksNested
    PROVE  OneWayToHang
<1>1. ASSUME NEW p \in Proc, ~At(p, "idle"), ~CanStep(p)
      PROVE  \/ /\ proc[p].at \in {"get", "keys", "pop"}
                /\ \E q \in Proc : managerLock = q /\ CanStep(q)
             \/ proc[p].at \in {"attach", "detach"} /\ Nested(proc[p].s)
  <2>1. proc[p].at \in Place
    BY DEF Invariant, TypeOK, Local
  <2>2. CASE proc[p].at \in {"get", "keys", "pop"}
    <3>1. managerLock \in Proc
      BY <1>1, <2>2 DEF CanStep, Invariant, TypeOK
    <3>2. proc[managerLock].at = "making"
      BY <3>1 DEF Invariant, TypeOK, At
    <3> QED
      BY <2>2, <3>1, <3>2 DEF CanStep
  <2>3. CASE proc[p].at \in {"attach", "detach"}
    <3>1. proc[p].s \in Session
      BY <2>3 DEF Invariant, Locals, LocalOK
    <3> QED
      BY <1>1, <2>3, <3>1 DEF CanStep, LocksNested
  <2> QED
    BY <1>1, <2>1, <2>2, <2>3 DEF CanStep, Place, At
<1>2. loop # None => loop[1] \in Session
  BY DEF Invariant, TypeOK, Cleaner
<1> QED
  BY <1>1, <1>2 DEF OneWayToHang, LocksNested

\* Threads and the loop hang for one cause only: attach_video_source, which calls
\* detach_video_source with the plain lock of the session in its hand.  Whoever waits
\* for PeerManager._lock waits for a thread that can go on, since its holder waits for
\* the loop with a time-out.
THEOREM HangsOnlyNested == Spec => []OneWayToHang
<1>1. Init => LocksNested
  BY DEF Init, LocksNested
<1>2. Invariant /\ LocksNested /\ [Next]_vars => LocksNested'
  BY LocksNestedInv
<1>3. Invariant /\ LocksNested => OneWayToHang
  BY HangsOneWay
<1> QED
  BY Inductive, <1>1, <1>2, <1>3, PTL DEF Spec
=============================================================================
