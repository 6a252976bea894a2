------------------------ MODULE ScrcpyClientsProofs ------------------------
(* Theorems of ScrcpyClients, for every value of its constants.              *)
(*                                                                           *)
(* Who may change the registry when is a matter of two locks: the per-device *)
(* RLock, held between the places that InInner and InOuter name, and         *)
(* _client_lock, which is held over the attach of the fast path.  Invariant  *)
(* says so, and what every place of a call can rely on for that reason; it   *)
(* is inductive.                                                             *)
EXTENDS ScrcpyClients, FiniteSets, FiniteSetTheorems, TLAPS

Attaching(l) == l.at \in {"attach", "add", "replay"}
Stopping(l) == l.at \in {"read", "mark", "close"}
Making(l) == l.at \in {"start", "register"}

\* get_client is between lock and unlock, reconfigure between outer and leave.
InInner(l) ==
    \/ l.at \in {"recheck", "evict", "build", "start", "register", "unlock"}
    \/ Attaching(l) /\ l.back = "unlock"
    \/ Stopping(l) /\ l.back = "evict"
InOuter(l) == l.call = "reconfigure" /\ l.at # "outer"

Depth(l) == (IF InOuter(l) THEN 1 ELSE 0) + (IF InInner(l) THEN 1 ELSE 0)

\* attach runs in the section of the fast path.
Section(l) == Attaching(l) /\ l.back = "idle"

\* get_client is about to take a dead client out of the registry.
Evicting(l) == l.at = "evict" \/ (Stopping(l) /\ l.back = "evict")

\* What a request thread serves at each place, and what it holds.
ThreadOK(l) ==
    /\ l.at # "stream"
    /\ l.at = "idle" <=> l.call = "none"
    /\ l.at \in {"outer", "pop", "leave"} => l.call = "reconfigure"
    /\ l.at = "take" => l.call = "stop"
    /\ l.at = "fast" => l.call \in {"peek", "get", "reconfigure"}
    /\ l.at \in {"lock", "recheck", "evict", "build", "start", "register", "unlock"}
          => l.call \in {"get", "reconfigure"}
    /\ Attaching(l) => \/ l.back = "idle" /\ l.call \in {"peek", "get", "reconfigure"}
                       \/ l.back = "unlock" /\ l.call \in {"get", "reconfigure"}
    /\ Stopping(l) => \/ l.back = "idle" /\ l.call = "stop"
                      \/ l.back = "evict" /\ l.call \in {"get", "reconfigure"}
                      \/ l.back = "fast" /\ l.call = "reconfigure"
    /\ Attaching(l) \/ Stopping(l) \/ Making(l) \/ l.at = "evict" => l.cl \in Client

\* A stream thread knows its own client and nothing else.
StreamOK(c, l) ==
    /\ l.at \in {"idle", "stream", "read", "mark", "close"}
    /\ l.call = "none" /\ l.back = "idle"
    /\ l.at # "idle" => l.cl = c

ProcOK(p, l) == IF p \in Thread THEN ThreadOK(l) ELSE StreamOK(p, l)

Locals ==
    /\ \A t \in Thread : ThreadOK(proc[t])
    /\ \A c \in Client : StreamOK(c, proc[c])

\* The RLock is as deep as its owner is, and nobody else is inside.
LockOK ==
    \A p \in Proc : Depth(proc[p]) = IF buildLock.owner = p THEN buildLock.depth ELSE 0

SectionOK == \A p \in Proc : clientLock = p <=> Section(proc[p])

\* What a process relies on where it is: a client is built only while none is
\* registered, and the client that get_client attaches to or evicts leaves the
\* registry only for stop_client.
ClaimOK(l) ==
    /\ l.at \in {"build", "start", "register"} => registry = None
    /\ Evicting(l) => registry \in {None, l.cl}
    /\ l.at = "evict" => ~client[l.cl].server
    /\ Attaching(l) => registry = l.cl \/ (l.back = "unlock" /\ registry = None)
    /\ Making(l) => l.cl \notin attached /\ client[l.cl].cfg = config
    /\ l.cl # None => l.cl \in 1..built

Claims == \A p \in Proc : ClaimOK(proc[p])

\* Nobody else knows a client that is being started, nor does its stream thread
\* run before.
Private ==
    \A p \in Thread : Making(proc[p]) =>
        /\ \A q \in Thread : q # p => proc[q].cl # proc[p].cl
        /\ proc[p].at = "start" => proc[proc[p].cl].at = "idle"

\* Nothing is known of the clients that are still to be built.
Unbuilt ==
    /\ registry # None => registry \in 1..built
    /\ \A c \in Client : c > built =>
          ~client[c].server /\ c \notin attached /\ proc[c].at = "idle"

Honoured == registry # None => client[registry].cfg = config

\* The calls that may still build a client; each builds one at most.
MayBuild(l) ==
    \/ l.at \in {"outer", "pop", "fast", "lock", "recheck", "evict", "build"}
    \/ Stopping(l) /\ l.back \in {"evict", "fast"}

Pending == {t \in Thread : MayBuild(proc[t])}

Counted == IsFiniteSet(Pending) /\ built + Cardinality(Pending) <= calls

Invariant ==
    /\ TypeOK
    /\ Locals
    /\ LockOK
    /\ SectionOK
    /\ Claims
    /\ Private
    /\ Unbuilt
    /\ Honoured
    /\ Counted
    /\ NoOrphanServer
    /\ StreamingClientIsCurrent

\* A step gives the process p the locals l.
Moved(p, l) ==
    /\ proc' \in [Proc -> Local]
    /\ proc'[p] = l
    /\ \A q \in Proc : q # p => proc'[q] = proc[q]

-----------------------------------------------------------------------------
(* How the expressions of the actions change proc.                           *)

LEMMA IdleType == Idle \in Local
BY ConfigAssumption DEF Idle, Local, Place, Call

LEMMA BecomeMoves ==
    ASSUME proc \in [Proc -> Local], NEW p \in Proc, NEW l \in Local, Become(p, l)
    PROVE  Moved(p, l)
BY DEF Become, Moved

LEMMA GotoMoves ==
    ASSUME proc \in [Proc -> Local], NEW p \in Proc, NEW place \in Place, Goto(p, place)
    PROVE  Moved(p, [proc[p] EXCEPT !.at = place])
BY DEF Goto, Moved, Local

\* The locals r of a process that goes on at a place: with the client c and the
\* place back it returns to, or with a new value of was_alive.
With(r, at, c, back) == [r EXCEPT !.at = at, !.cl = c, !.back = back]
Was(r, at, was) == [r EXCEPT !.at = at, !.was = was]

LEMMA WithSet ==
    ASSUME NEW r \in Local, NEW at \in Place, NEW c \in Client \cup {None}, NEW back \in Place
    PROVE  /\ With(r, at, c, back) \in Local
           /\ With(r, at, c, back).at = at
           /\ With(r, at, c, back).cl = c
           /\ With(r, at, c, back).back = back
           /\ With(r, at, c, back).call = r.call
           /\ With(r, at, c, back).cfg = r.cfg
BY DEF Local, With

LEMMA WasSet ==
    ASSUME NEW r \in Local, NEW at \in Place, NEW was \in BOOLEAN
    PROVE  /\ Was(r, at, was) \in Local
           /\ Was(r, at, was).at = at
           /\ Was(r, at, was).cl = r.cl
           /\ Was(r, at, was).back = r.back
           /\ Was(r, at, was).call = r.call
           /\ Was(r, at, was).cfg = r.cfg
BY DEF Local, Was

LEMMA ThreadsAndStreams ==
    /\ Thread \subseteq Proc /\ Client \subseteq Proc
    /\ \A t \in Thread : t \notin Client /\ t # None
    /\ None \notin Client
BY ProcAssumption DEF Proc

-----------------------------------------------------------------------------
(* The two locks.                                                            *)

LEMMA LockKept ==
    ASSUME LockOK, NEW p \in Proc, NEW l, Moved(p, l), Depth(l) = Depth(proc[p]),
           UNCHANGED buildLock
    PROVE  LockOK'
BY DEF LockOK, Moved, Depth, InOuter, InInner, Attaching, Stopping

LEMMA SectionKept ==
    ASSUME SectionOK, NEW p \in Proc, NEW l, Moved(p, l), Section(l) <=> Section(proc[p]),
           UNCHANGED clientLock
    PROVE  SectionOK'
BY DEF SectionOK, Moved, Section, Attaching

\* Whoever takes the RLock is one deeper in it.
LEMMA LockTaken ==
    ASSUME TypeOK, LockOK, NEW p \in Thread, NEW l, Moved(p, l), Depth(l) = Depth(proc[p]) + 1,
           buildLock.owner \in {None, p},
           buildLock' = [owner |-> p, depth |-> buildLock.depth + 1]
    PROVE  LockOK' /\ (buildLock \in [owner : Thread \cup {None}, depth : Nat])'
           /\ (buildLock.owner = None <=> buildLock.depth = 0)'
<1>1. p \in Proc /\ p # None
  BY ThreadsAndStreams
<1>2. /\ buildLock.depth \in Nat
      /\ buildLock.owner = None => buildLock.depth = 0
      /\ buildLock'.owner = p /\ buildLock'.depth = buildLock.depth + 1
  BY DEF TypeOK
<1>3. Depth(proc[p]) = buildLock.depth
  BY <1>1, <1>2 DEF LockOK
<1>4. Depth(proc'[p]) = buildLock'.depth
  BY <1>1, <1>2, <1>3 DEF Moved
<1>5. ASSUME NEW q \in Proc, q # p
      PROVE  Depth(proc'[q]) = 0
  <2>1. proc'[q] = proc[q]
    BY <1>5 DEF Moved
  <2>2. CASE buildLock.owner = q
    BY <1>1, <1>2, <1>5, <2>1, <2>2 DEF LockOK
  <2>3. CASE buildLock.owner # q
    BY <2>1, <2>3 DEF LockOK
  <2> QED
    BY <2>2, <2>3
<1>6. \A q \in Proc : Depth(proc'[q]) = IF buildLock'.owner = q THEN buildLock'.depth ELSE 0
  BY <1>2, <1>4, <1>5
<1>7. LockOK'
  BY <1>6 DEF LockOK, Depth, InOuter, InInner, Attaching, Stopping
<1> QED
  BY <1>1, <1>2, <1>7

\* Whoever is in the RLock leaves it by one.
LEMMA LockLeft ==
    ASSUME TypeOK, LockOK, NEW p \in Thread, NEW l, Moved(p, l),
           Depth(l) \in Nat, Depth(proc[p]) = Depth(l) + 1, Release
    PROVE  LockOK' /\ (buildLock \in [owner : Thread \cup {None}, depth : Nat])'
           /\ (buildLock.owner = None <=> buildLock.depth = 0)'
<1>1. p \in Proc /\ p # None
  BY ThreadsAndStreams
<1>2. buildLock.owner = p /\ buildLock.depth = Depth(l) + 1
  BY <1>1 DEF LockOK
<1>3. CASE buildLock.depth = 1
  <2>1. buildLock' = Free /\ Depth(l) = 0
    BY <1>2, <1>3 DEF Release
  <2>2. \A q \in Proc : Depth(proc'[q]) = 0
    BY <1>2, <2>1 DEF Moved, LockOK
  <2>3. \A q \in Proc : Depth(proc'[q]) = IF buildLock'.owner = q THEN buildLock'.depth ELSE 0
    BY <2>1, <2>2 DEF Free
  <2> QED
    BY <2>1, <2>3 DEF Free, LockOK, Depth, InOuter, InInner, Attaching, Stopping
<1>4. CASE buildLock.depth # 1
  <2>1. /\ buildLock'.owner = p /\ buildLock'.depth = Depth(l) /\ Depth(l) # 0
        /\ buildLock' \in [owner : Thread \cup {None}, depth : Nat]
    BY <1>2, <1>4 DEF Release, TypeOK
  <2>2. \A q \in Proc : q # p => Depth(proc'[q]) = 0
    BY <1>2 DEF Moved, LockOK
  <2>3. \A q \in Proc : Depth(proc'[q]) = IF buildLock'.owner = q THEN buildLock'.depth ELSE 0
    BY <2>1, <2>2 DEF Moved
  <2> QED
    BY <1>1, <2>1, <2>3 DEF LockOK, Depth, InOuter, InInner, Attaching, Stopping
<1> QED
  BY <1>3, <1>4

\* One process at a time is inside the RLock.
LEMMA OneInside ==
    ASSUME TypeOK, LockOK, NEW p \in Proc, NEW q \in Proc,
           InInner(proc[p]) \/ InOuter(proc[p]), InInner(proc[q]) \/ InOuter(proc[q])
    PROVE  p = q
BY DEF LockOK, Depth

-----------------------------------------------------------------------------
(* Steps that leave the registry and the clients alone.                      *)

\* No call that could not build a client can now.
LEMMA CountKept ==
    ASSUME Counted, TypeOK, NEW p \in Proc, NEW l, Moved(p, l),
           p \in Thread => (MayBuild(l) => MayBuild(proc[p])), UNCHANGED <<built, calls>>
    PROVE  Counted'
<1>1. Pending' \subseteq Pending
  BY ThreadsAndStreams DEF Pending, Moved, MayBuild, Stopping
<1>2. IsFiniteSet(Pending') /\ Cardinality(Pending') <= Cardinality(Pending)
  BY <1>1, FS_Subset DEF Counted
<1>3. Cardinality(Pending) \in Nat /\ Cardinality(Pending') \in Nat
  BY <1>2, FS_CardinalityType DEF Counted
<1> QED
  BY <1>2, <1>3 DEF Counted, TypeOK

\* The process holds a client whose server may run.
Holding(l) == l.at \in {"start", "register", "read", "mark", "close"}

\* The process is about to tell the tabs of a client.
Telling(l) == l.at \in {"add", "replay"}

\* What a process must respect when it goes from one place to the next.
LEMMA WalkInv ==
    ASSUME Invariant, NEW p \in Proc, NEW l \in Local, Moved(p, l), ProcOK(p, l),
           p \in Client => proc[p].at # "idle",
           LockOK', (buildLock \in [owner : Thread \cup {None}, depth : Nat])',
           (buildLock.owner = None <=> buildLock.depth = 0)',
           SectionOK', (clientLock \in Thread \cup {None})',
           ClaimOK(l), ~Making(l), l.cl \in {None, registry, proc[p].cl},
           p \in Thread => (MayBuild(l) => MayBuild(proc[p])),
           Holding(proc[p]) => Holding(l) /\ l.cl = proc[p].cl,
           Telling(proc[p]) => Telling(l) /\ l.cl = proc[p].cl,
           UNCHANGED <<registry, config, built, client, calls, events>>
    PROVE  Invariant'
<1> USE DEF events
<1>1. /\ proc'[p] = l
      /\ \A q \in Proc : q # p => proc'[q] = proc[q]
  BY DEF Moved
<1>2. TypeOK'
  BY DEF Invariant, TypeOK, Moved
<1>3. Locals'
  BY <1>1, ThreadsAndStreams DEF Invariant, Locals, ProcOK, ThreadOK, StreamOK, Attaching, Stopping, Making
<1>4. Claims'
  BY <1>1 DEF Invariant, Claims, ClaimOK, Evicting, Attaching, Stopping, Making
<1>5. Private'
  <2> SUFFICES ASSUME NEW q \in Thread, Making(proc'[q])
               PROVE  /\ \A r \in Thread : r # q => proc'[r].cl # proc'[q].cl
                      /\ proc'[q].at = "start" => proc'[proc'[q].cl].at = "idle"
    BY DEF Private, Making
  <2>1. q # p /\ q \in Proc /\ proc'[q] = proc[q] /\ Making(proc[q])
    BY <1>1, ThreadsAndStreams
  <2>2. registry = None /\ proc[q].cl \in Client
    BY <2>1 DEF Invariant, Claims, ClaimOK, Locals, ThreadOK, Making
  <2>3. p \in Thread => l.cl # proc[q].cl
    BY <2>1, <2>2, ThreadsAndStreams DEF Invariant, Private
  <2>4. proc[q].at = "start" => proc'[proc[q].cl] = proc[proc[q].cl]
    <3>1. proc[q].at = "start" => proc[proc[q].cl].at = "idle"
      BY <2>1 DEF Invariant, Private
    <3>2. proc[q].at = "start" => proc[q].cl # p
      BY <2>2, <3>1
    <3> QED
      BY <1>1, <2>2, <3>2, ThreadsAndStreams
  <2> QED
    BY <1>1, <2>1, <2>3, <2>4, ThreadsAndStreams DEF Invariant, Private
<1>6. Unbuilt'
  BY <1>1, ThreadsAndStreams DEF Invariant, Unbuilt
<1>7. Honoured'
  BY DEF Invariant, Honoured
<1>8. Counted'
  BY <1>1, CountKept DEF Invariant
<1>9. NoOrphanServer'
  BY <1>1 DEF Invariant, NoOrphanServer, Holding
<1>10. StreamingClientIsCurrent'
  BY <1>1 DEF Invariant, StreamingClientIsCurrent, Telling
<1> QED
  BY <1>2, <1>3, <1>4, <1>5, <1>6, <1>7, <1>8, <1>9, <1>10 DEF Invariant

\* What holds of a process and its locals in every lemma below.
LEMMA ProcFacts ==
    ASSUME Invariant, NEW p \in Proc
    PROVE  /\ p # None /\ proc \in [Proc -> Local] /\ proc[p] \in Local
           /\ ProcOK(p, proc[p]) /\ ClaimOK(proc[p])
           /\ registry \in Client \cup {None}
           /\ buildLock \in [owner : Thread \cup {None}, depth : Nat]
           /\ buildLock.owner = None <=> buildLock.depth = 0
           /\ clientLock \in Thread \cup {None}
           /\ clientLock = p <=> Section(proc[p])
BY ProcAssumption DEF Invariant, TypeOK, Locals, ProcOK, Claims, SectionOK, Proc

LEMMA ThreadFacts ==
    ASSUME Invariant, NEW p \in Thread
    PROVE  /\ p \in Proc /\ p \notin Client /\ p # None
           /\ proc \in [Proc -> Local] /\ proc[p] \in Local
           /\ ThreadOK(proc[p]) /\ ClaimOK(proc[p])
           /\ registry \in Client \cup {None}
           /\ buildLock \in [owner : Thread \cup {None}, depth : Nat]
           /\ buildLock.owner = None <=> buildLock.depth = 0
           /\ clientLock \in Thread \cup {None}
           /\ clientLock = p <=> Section(proc[p])
           /\ \A l : ProcOK(p, l) <=> ThreadOK(l)
BY ProcFacts, ThreadsAndStreams DEF ProcOK

LEMMA StreamFacts ==
    ASSUME Invariant, NEW c \in Client
    PROVE  /\ c \in Proc /\ c \notin Thread /\ StreamOK(c, proc[c])
           /\ \A l : ProcOK(c, l) <=> StreamOK(c, l)
BY ProcFacts, ThreadsAndStreams DEF ProcOK

\* Steps that touch no lock.
LEMMA LocksKept ==
    ASSUME Invariant, NEW p \in Proc, NEW l, Moved(p, l), Depth(l) = Depth(proc[p]),
           Section(l) <=> Section(proc[p]), UNCHANGED locks
    PROVE  /\ LockOK' /\ (buildLock \in [owner : Thread \cup {None}, depth : Nat])'
           /\ (buildLock.owner = None <=> buildLock.depth = 0)'
           /\ SectionOK' /\ (clientLock \in Thread \cup {None})'
BY LockKept, SectionKept DEF Invariant, TypeOK, locks

\* Where a call goes on when get_client returns, and when attach does.
LEMMA ReturnedType ==
    ASSUME TypeOK, NEW p \in Thread, ThreadOK(proc[p])
    PROVE  /\ Returned(p) \in Local /\ ThreadOK(Returned(p))
           /\ Returned(p).at \in {"leave", "idle"}
           /\ Returned(p).cl \in {None, proc[p].cl}
           /\ Returned(p).call = "reconfigure" <=> proc[p].call = "reconfigure"
           /\ Returned(p).call = "reconfigure" => Returned(p).at = "leave"
<1>1. p \in Proc /\ proc[p] \in Local
  BY ThreadsAndStreams DEF TypeOK
<1>2. CASE proc[p].call = "reconfigure"
  BY <1>1, <1>2 DEF Returned, Local, Place, ThreadOK, Attaching, Stopping, Making
<1>3. CASE proc[p].call # "reconfigure"
  BY <1>3, IdleType DEF Returned, Idle, ThreadOK, Attaching, Stopping, Making
<1> QED
  BY <1>2, <1>3

AfterAttach(p) ==
    IF proc[p].back = "unlock" THEN [proc[p] EXCEPT !.at = "unlock"] ELSE Returned(p)

LEMMA AttachReturnsMoves ==
    ASSUME Invariant, NEW p \in Thread, Attaching(proc[p]), AttachReturns(p)
    PROVE  /\ AfterAttach(p) \in Local /\ Moved(p, AfterAttach(p)) /\ ThreadOK(AfterAttach(p))
           /\ AfterAttach(p).at \in {"unlock", "leave", "idle"}
           /\ AfterAttach(p).cl \in {None, proc[p].cl}
           /\ Depth(AfterAttach(p)) = Depth(proc[p])
           /\ SectionOK' /\ (clientLock \in Thread \cup {None})'
<1>1. /\ p \in Proc /\ p # None /\ proc[p] \in Local /\ ThreadOK(proc[p])
      /\ proc[p].back \in {"idle", "unlock"}
      /\ proc \in [Proc -> Local]
  BY ThreadsAndStreams DEF Invariant, TypeOK, Locals, ThreadOK
<1>2. /\ AfterAttach(p) \in Local /\ ThreadOK(AfterAttach(p))
      /\ AfterAttach(p).at \in {"unlock", "leave", "idle"}
      /\ AfterAttach(p).cl \in {None, proc[p].cl}
      /\ Depth(AfterAttach(p)) = Depth(proc[p])
  <2>1. CASE proc[p].back = "unlock"
    BY <1>1, <2>1 DEF AfterAttach, Local, Place, ThreadOK, Attaching, Stopping, Making,
                      Depth, InInner, InOuter
  <2>2. CASE proc[p].back = "idle"
    <3>1. AfterAttach(p) = Returned(p)
      BY <2>2 DEF AfterAttach
    <3>2. Depth(Returned(p)) = Depth(proc[p])
      BY <1>1, <2>2, ReturnedType DEF Invariant, Depth, InInner, InOuter, Attaching, Stopping
    <3> QED
      BY <1>1, <3>1, <3>2, ReturnedType DEF Invariant
  <2> QED
    BY <1>1, <2>1, <2>2
<1>3. Moved(p, AfterAttach(p))
  BY <1>1, <1>2, BecomeMoves DEF AttachReturns, AfterAttach
<1>4. SectionOK' /\ (clientLock \in Thread \cup {None})'
  <2>1. \A q \in Proc : clientLock = q <=> Section(proc[q])
    BY DEF Invariant, SectionOK
  <2>2. ~Section(AfterAttach(p))
    BY <1>2 DEF Section, Attaching
  <2>3. \A q \in Proc : clientLock' = q <=> Section(proc'[q])
    BY <1>1, <1>3, <2>1, <2>2, ProcAssumption DEF Moved, AttachReturns
  <2> QED
    BY <2>3 DEF SectionOK, Section, Attaching, AttachReturns, Invariant, TypeOK
<1> QED
  BY <1>2, <1>3, <1>4

LEMMA AttachSkipsInv ==
    ASSUME Invariant, NEW p \in Thread, AttachSkips(p)
    PROVE  Invariant'
<1>1. Attaching(proc[p]) /\ AttachReturns(p) /\ proc[p].at = "attach"
  BY DEF AttachSkips, At, Attaching
<1>2. LockOK' /\ UNCHANGED buildLock
  BY <1>1, AttachReturnsMoves, LockKept, ThreadsAndStreams DEF Invariant, AttachSkips
<1>3. ClaimOK(AfterAttach(p))
  BY <1>1, AttachReturnsMoves, ThreadsAndStreams
     DEF Invariant, Claims, ClaimOK, Evicting, Attaching, Stopping, Making
<1> QED
  BY <1>1, <1>2, <1>3, AttachReturnsMoves, ThreadFacts, WalkInv
     DEF AttachSkips, Holding, Telling, Making, MayBuild, Stopping, Invariant, TypeOK

LEMMA AttachTestsInv ==
    ASSUME Invariant, NEW p \in Thread, AttachTests(p)
    PROVE  Invariant'
<1> DEFINE l == [proc[p] EXCEPT !.at = "add"]
<1>1. /\ p \in Proc /\ proc[p] \in Local /\ proc \in [Proc -> Local]
      /\ ThreadOK(proc[p]) /\ ClaimOK(proc[p]) /\ proc[p].at = "attach"
  BY ThreadsAndStreams DEF Invariant, TypeOK, Locals, Claims, AttachTests, At
<1>2. /\ l \in Local /\ l.at = "add" /\ l.call = proc[p].call /\ l.cl = proc[p].cl
      /\ l.back = proc[p].back
  BY <1>1 DEF Local, Place
<1>3. Moved(p, l)
  BY <1>1, GotoMoves DEF AttachTests, Place
<1> HIDE DEF l
<1>4. ThreadOK(l) /\ ClaimOK(l)
  BY <1>1, <1>2 DEF ThreadOK, ClaimOK, Attaching, Stopping, Making, Evicting
<1>5. Depth(l) = Depth(proc[p]) /\ (Section(l) <=> Section(proc[p]))
  BY <1>1, <1>2 DEF Depth, InInner, InOuter, Section, Attaching, Stopping
<1>6. LockOK' /\ SectionOK'
  BY <1>1, <1>3, <1>5, LockKept, SectionKept DEF Invariant, AttachTests, locks
<1> QED
  BY <1>1, <1>2, <1>3, <1>4, <1>6, ThreadFacts, WalkInv
     DEF AttachTests, locks, Holding, Telling, Making, MayBuild, Stopping, Invariant, TypeOK

LEMMA StopReadsInv ==
    ASSUME Invariant, NEW p \in Proc, StopReads(p)
    PROVE  Invariant'
<1> DEFINE l == Was(proc[p], "mark", client[proc[p].cl].alive)
<1>1. proc[p].at = "read" /\ proc[p].cl \in Client
  BY ProcFacts DEF StopReads, At, ProcOK, ThreadOK, StreamOK, Stopping, Proc
<1>2. client[proc[p].cl].alive \in BOOLEAN
  BY <1>1 DEF Invariant, TypeOK, ClientState
<1>3. /\ l \in Local /\ l.at = "mark" /\ l.call = proc[p].call /\ l.cl = proc[p].cl
      /\ l.back = proc[p].back
  <2>1. proc[p] \in Local /\ "mark" \in Place
    BY ProcFacts DEF Place
  <2> QED
    BY <1>2, <2>1, WasSet
<1>4. Become(p, l)
  BY DEF StopReads, Was
<1> HIDE DEF l
<1>5. Moved(p, l)
  BY <1>3, <1>4, ProcFacts, BecomeMoves
<1>6. ProcOK(p, l) /\ ClaimOK(l)
  BY <1>1, <1>3, ProcFacts DEF ProcOK, ThreadOK, StreamOK, ClaimOK, Attaching, Stopping, Making, Evicting
<1>7. Depth(l) = Depth(proc[p]) /\ (Section(l) <=> Section(proc[p]))
  BY <1>1, <1>3 DEF Depth, InInner, InOuter, Section, Attaching, Stopping
<1> QED
  BY <1>1, <1>3, <1>5, <1>6, <1>7, LocksKept, WalkInv
     DEF StopReads, Holding, Telling, Making, MayBuild, Stopping

LEMMA FastFindsInv ==
    ASSUME Invariant, NEW p \in Thread, FastFinds(p)
    PROVE  Invariant'
<1> DEFINE l == With(proc[p], "attach", registry, "idle")
<1>1. proc[p].at = "fast" /\ registry \in Client /\ clientLock = None /\ clientLock' = p
  BY ThreadFacts DEF FastFinds, At, Alive
<1>2. /\ l \in Local /\ l.at = "attach" /\ l.call = proc[p].call /\ l.cl = registry
      /\ l.back = "idle"
  <2>1. proc[p] \in Local /\ "attach" \in Place /\ "idle" \in Place
    BY ThreadFacts DEF Place
  <2> QED
    BY <1>1, <2>1, WithSet
<1>3. Become(p, l)
  BY DEF FastFinds, With
<1> HIDE DEF l
<1>4. Moved(p, l)
  BY <1>2, <1>3, ThreadFacts, BecomeMoves
<1>5. ThreadOK(l) /\ Section(l)
  BY <1>1, <1>2, ThreadFacts DEF ThreadOK, Attaching, Stopping, Making, Section
<1>6. registry \in 1..built
  BY <1>1, ThreadsAndStreams DEF Invariant, Unbuilt
<1>7. ClaimOK(l)
  BY <1>2, <1>6, ThreadFacts DEF ClaimOK, Attaching, Stopping, Making, Evicting
<1>8. Depth(l) = Depth(proc[p])
  BY <1>1, <1>2 DEF Depth, InInner, InOuter, Attaching, Stopping
<1>9. LockOK' /\ UNCHANGED buildLock
  BY <1>4, <1>8, LockKept, ThreadFacts DEF FastFinds, Invariant
<1>10. SectionOK'
  <2>1. \A q \in Proc : ~Section(proc[q])
    BY <1>1, ThreadsAndStreams, ProcAssumption DEF Invariant, SectionOK
  <2>2. \A q \in Proc : clientLock' = q <=> Section(proc'[q])
    BY <1>1, <1>4, <1>5, <2>1, ThreadFacts DEF Moved
  <2> QED
    BY <2>2 DEF SectionOK, Section, Attaching
<1>11. /\ (clientLock \in Thread \cup {None})'
       /\ (buildLock \in [owner : Thread \cup {None}, depth : Nat])'
       /\ (buildLock.owner = None <=> buildLock.depth = 0)'
  BY <1>1, <1>9, ThreadFacts
<1> QED
  BY <1>1, <1>2, <1>4, <1>5, <1>7, <1>9, <1>10, <1>11, ThreadFacts, WalkInv
     DEF FastFinds, Holding, Telling, Making, MayBuild, Stopping

LEMMA FastMissesInv ==
    ASSUME Invariant, NEW p \in Thread, FastMisses(p)
    PROVE  Invariant'
<1> DEFINE l == IF proc[p].call = "peek" THEN Idle ELSE [proc[p] EXCEPT !.at = "lock"]
<1>1. proc[p].at = "fast"
  BY DEF FastMisses, At
<1>2. /\ l \in Local /\ l.at \in {"idle", "lock"} /\ l.cl \in {None, proc[p].cl}
      /\ l.at = "idle" => l = Idle /\ proc[p].call = "peek"
      /\ l.at = "lock" => l.call = proc[p].call /\ l.call # "peek"
  BY ThreadFacts, IdleType DEF Local, Place, Idle
<1>3. Moved(p, l)
  BY ThreadFacts, IdleType, BecomeMoves, GotoMoves DEF FastMisses, Place
<1> HIDE DEF l
<1>4. ThreadOK(l) /\ ClaimOK(l)
  BY <1>1, <1>2, ThreadFacts
     DEF ThreadOK, ClaimOK, Attaching, Stopping, Making, Evicting, Idle
<1>5. Depth(l) = Depth(proc[p]) /\ (Section(l) <=> Section(proc[p]))
  BY <1>1, <1>2 DEF Depth, InInner, InOuter, Section, Attaching, Stopping, Idle
<1> QED
  BY <1>1, <1>2, <1>3, <1>4, <1>5, LocksKept, ThreadFacts, WalkInv
     DEF FastMisses, Holding, Telling, Making, MayBuild, Stopping

LEMMA LockInv ==
    ASSUME Invariant, NEW p \in Thread, Lock(p)
    PROVE  Invariant'
<1> DEFINE l == [proc[p] EXCEPT !.at = "recheck"]
<1>1. proc[p].at = "lock" /\ Acquire(p, "recheck")
  BY DEF Lock, At
<1>2. l \in Local /\ l.at = "recheck" /\ l.call = proc[p].call /\ l.cl = proc[p].cl
  BY ThreadFacts DEF Local, Place
<1>3. Moved(p, l)
  BY <1>1, ThreadFacts, GotoMoves DEF Acquire, Place
<1> HIDE DEF l
<1>4. ThreadOK(l) /\ ClaimOK(l)
  BY <1>1, <1>2, ThreadFacts DEF ThreadOK, ClaimOK, Attaching, Stopping, Making, Evicting
<1>5. Depth(l) = Depth(proc[p]) + 1 /\ (Section(l) <=> Section(proc[p]))
  BY <1>1, <1>2 DEF Depth, InInner, InOuter, Section, Attaching, Stopping
<1>6. SectionOK' /\ (clientLock \in Thread \cup {None})'
  BY <1>3, <1>5, ThreadFacts, SectionKept DEF Invariant, Lock
<1>7. /\ LockOK' /\ (buildLock \in [owner : Thread \cup {None}, depth : Nat])'
      /\ (buildLock.owner = None <=> buildLock.depth = 0)'
  BY <1>1, <1>3, <1>5, LockTaken DEF Acquire, Invariant
<1> QED
  BY <1>1, <1>2, <1>3, <1>4, <1>6, <1>7, ThreadFacts, WalkInv
     DEF Lock, Holding, Telling, Making, MayBuild, Stopping

LEMMA OuterInv ==
    ASSUME Invariant, NEW p \in Thread, Outer(p)
    PROVE  Invariant'
<1> DEFINE l == [proc[p] EXCEPT !.at = "pop"]
<1>1. proc[p].at = "outer" /\ Acquire(p, "pop")
  BY DEF Outer, At
<1>2. l \in Local /\ l.at = "pop" /\ l.call = proc[p].call /\ l.cl = proc[p].cl
  BY ThreadFacts DEF Local, Place
<1>3. Moved(p, l)
  BY <1>1, ThreadFacts, GotoMoves DEF Acquire, Place
<1> HIDE DEF l
<1>4. ThreadOK(l) /\ ClaimOK(l)
  BY <1>1, <1>2, ThreadFacts DEF ThreadOK, ClaimOK, Attaching, Stopping, Making, Evicting
<1>5. Depth(l) = Depth(proc[p]) + 1 /\ (Section(l) <=> Section(proc[p]))
  BY <1>1, <1>2, ThreadFacts DEF Depth, InInner, InOuter, Section, Attaching, Stopping, ThreadOK
<1>6. SectionOK' /\ (clientLock \in Thread \cup {None})'
  BY <1>3, <1>5, ThreadFacts, SectionKept DEF Invariant, Outer
<1>7. /\ LockOK' /\ (buildLock \in [owner : Thread \cup {None}, depth : Nat])'
      /\ (buildLock.owner = None <=> buildLock.depth = 0)'
  BY <1>1, <1>3, <1>5, LockTaken DEF Acquire, Invariant
<1> QED
  BY <1>1, <1>2, <1>3, <1>4, <1>6, <1>7, ThreadFacts, WalkInv
     DEF Outer, Holding, Telling, Making, MayBuild, Stopping

LEMMA UnlockInv ==
    ASSUME Invariant, NEW p \in Thread, Unlock(p)
    PROVE  Invariant'
<1> DEFINE l == Returned(p)
<1>1. proc[p].at = "unlock" /\ Release /\ Become(p, l)
  BY DEF Unlock, At
<1>2. /\ l \in Local /\ ThreadOK(l) /\ l.at \in {"leave", "idle"} /\ l.cl \in {None, proc[p].cl}
      /\ l.call = "reconfigure" <=> proc[p].call = "reconfigure"
  BY ThreadFacts, ReturnedType DEF Invariant
<1> HIDE DEF l
<1>3. Moved(p, l)
  BY <1>1, <1>2, ThreadFacts, BecomeMoves
<1>4. ClaimOK(l)
  BY <1>2, ThreadFacts DEF ClaimOK, Attaching, Stopping, Making, Evicting
<1>5. /\ Depth(proc[p]) = Depth(l) + 1 /\ Depth(l) \in Nat
      /\ Section(l) <=> Section(proc[p])
  BY <1>1, <1>2 DEF Depth, InInner, InOuter, Section, Attaching, Stopping
<1>6. SectionOK' /\ (clientLock \in Thread \cup {None})'
  BY <1>3, <1>5, ThreadFacts, SectionKept DEF Invariant, Unlock
<1>7. /\ LockOK' /\ (buildLock \in [owner : Thread \cup {None}, depth : Nat])'
      /\ (buildLock.owner = None <=> buildLock.depth = 0)'
  BY <1>1, <1>3, <1>5, LockLeft DEF Invariant
<1> QED
  BY <1>1, <1>2, <1>3, <1>4, <1>6, <1>7, ThreadFacts, WalkInv
     DEF Unlock, Holding, Telling, Making, MayBuild, Stopping

LEMMA LeaveInv ==
    ASSUME Invariant, NEW p \in Thread, Leave(p)
    PROVE  Invariant'
<1>1. proc[p].at = "leave" /\ Release /\ Become(p, Idle) /\ proc[p].call = "reconfigure"
  BY ThreadFacts DEF Leave, At, ThreadOK
<1>2. Moved(p, Idle)
  BY <1>1, ThreadFacts, IdleType, BecomeMoves
<1>3. ThreadOK(Idle) /\ ClaimOK(Idle)
  BY DEF ThreadOK, ClaimOK, Attaching, Stopping, Making, Evicting, Idle
<1>4. /\ Depth(proc[p]) = Depth(Idle) + 1 /\ Depth(Idle) \in Nat
      /\ Section(Idle) <=> Section(proc[p])
  BY <1>1 DEF Depth, InInner, InOuter, Section, Attaching, Stopping, Idle
<1>5. SectionOK' /\ (clientLock \in Thread \cup {None})'
  BY <1>2, <1>4, ThreadFacts, SectionKept DEF Invariant, Leave
<1>6. /\ LockOK' /\ (buildLock \in [owner : Thread \cup {None}, depth : Nat])'
      /\ (buildLock.owner = None <=> buildLock.depth = 0)'
  BY <1>1, <1>2, <1>4, LockLeft DEF Invariant
<1> QED
  BY <1>1, <1>2, <1>3, <1>5, <1>6, IdleType, ThreadFacts, WalkInv
     DEF Leave, Holding, Telling, Making, MayBuild, Stopping, Idle

LEMMA RecheckInv ==
    ASSUME Invariant, NEW p \in Thread, Recheck(p)
    PROVE  Invariant'
<1>1. proc[p].at = "recheck" /\ proc[p].call \in {"get", "reconfigure"}
  BY ThreadFacts DEF Recheck, At, ThreadOK
<1>2. registry # None => registry \in Client /\ registry \in 1..built
  BY ThreadFacts DEF Invariant, Unbuilt
<1>3. /\ "attach" \in Place /\ "unlock" \in Place /\ "read" \in Place
      /\ "evict" \in Place /\ "build" \in Place /\ proc[p] \in Local
  BY ThreadFacts DEF Place
<1>4. ASSUME NEW at, NEW back, NEW l, l \in Local, l.at = at, l.back = back,
             l.call = proc[p].call, Moved(p, l),
             \/ at = "attach" /\ back = "unlock" /\ l.cl = registry /\ registry # None
             \/ at = "read" /\ back = "evict" /\ l.cl = registry /\ registry # None
             \/ at = "build" /\ l.cl = proc[p].cl /\ registry = None
      PROVE  Invariant'
  <2>1. ThreadOK(l)
    BY <1>1, <1>2, <1>4 DEF ThreadOK, Attaching, Stopping, Making
  <2>2. ClaimOK(l)
    BY <1>2, <1>4, ThreadFacts DEF ClaimOK, Attaching, Stopping, Making, Evicting
  <2>3. Depth(l) = Depth(proc[p]) /\ (Section(l) <=> Section(proc[p]))
    BY <1>1, <1>4 DEF Depth, InInner, InOuter, Section, Attaching, Stopping
  <2> QED
    BY <1>1, <1>4, <2>1, <2>2, <2>3, ThreadFacts, LocksKept, WalkInv
       DEF Recheck, Holding, Telling, Making, MayBuild, Stopping
<1>5. CASE Alive(registry)
           /\ Become(p, [proc[p] EXCEPT !.at = "attach", !.cl = registry, !.back = "unlock"])
  <2> DEFINE l == With(proc[p], "attach", registry, "unlock")
  <2>1. registry \in Client /\ registry # None /\ Become(p, l)
    BY <1>2, <1>5 DEF Alive, With
  <2>2. /\ l \in Local /\ l.at = "attach" /\ l.back = "unlock" /\ l.cl = registry
        /\ l.call = proc[p].call
    <3>1. registry \in Client /\ proc[p] \in Local /\ "attach" \in Place /\ "unlock" \in Place
      BY <1>3, <2>1
    <3> QED
      BY <3>1, WithSet
  <2> HIDE DEF l
  <2>3. Moved(p, l)
    BY <2>1, <2>2, BecomeMoves, ThreadFacts
  <2> QED
    BY <1>4, <2>1, <2>2, <2>3
<1>6. CASE registry # None
           /\ Become(p, [proc[p] EXCEPT !.at = "read", !.cl = registry, !.back = "evict"])
  <2> DEFINE l == With(proc[p], "read", registry, "evict")
  <2>1. registry \in Client /\ registry # None /\ Become(p, l)
    BY <1>2, <1>6 DEF With
  <2>2. /\ l \in Local /\ l.at = "read" /\ l.back = "evict" /\ l.cl = registry
        /\ l.call = proc[p].call
    <3>1. registry \in Client /\ proc[p] \in Local /\ "read" \in Place /\ "evict" \in Place
      BY <1>3, <2>1
    <3> QED
      BY <3>1, WithSet
  <2> HIDE DEF l
  <2>3. Moved(p, l)
    BY <2>1, <2>2, BecomeMoves, ThreadFacts
  <2> QED
    BY <1>4, <2>1, <2>2, <2>3
<1>7. CASE registry = None /\ Goto(p, "build")
  <2> DEFINE l == [proc[p] EXCEPT !.at = "build"]
  <2>1. l \in Local /\ l.at = "build" /\ l.call = proc[p].call /\ l.cl = proc[p].cl
    BY <1>3, ThreadFacts DEF Local
  <2>2. Moved(p, l)
    BY <1>3, <1>7, ThreadFacts, GotoMoves
  <2> HIDE DEF l
  <2> QED
    BY <1>4, <1>7, <2>1, <2>2
<1> QED
  BY <1>5, <1>6, <1>7 DEF Recheck

\* The stream thread leaves its loop: it stops its client, or ends.
LEMMA StreamInv ==
    ASSUME Invariant, NEW c \in Client, StreamEnds(c) \/ StreamError(c) \/ StreamEof(c)
    PROVE  Invariant'
<1>1. proc[c].at = "stream" /\ StreamOK(c, proc[c]) /\ c \in Proc
  BY StreamFacts DEF StreamEnds, StreamError, StreamEof, At
<1>2. ASSUME NEW l \in Local, Moved(c, l), l = Idle \/ (l.at = "read" /\ l.cl = c),
             l.call = "none", l.back = "idle"
      PROVE  Invariant'
  <2>1. ProcOK(c, l)
    BY <1>2, StreamFacts DEF StreamOK, Idle
  <2>2. ClaimOK(l)
    BY <1>1, <1>2, ProcFacts DEF ClaimOK, Attaching, Stopping, Making, Evicting, Idle, StreamOK
  <2>3. Depth(l) = Depth(proc[c]) /\ (Section(l) <=> Section(proc[c]))
    BY <1>1, <1>2
       DEF Depth, InInner, InOuter, Section, Attaching, Stopping, Idle, StreamOK
  <2> QED
    BY <1>1, <1>2, <2>1, <2>2, <2>3, LocksKept, WalkInv, StreamFacts
       DEF StreamEnds, StreamError, StreamEof, Holding, Telling, Making, StreamOK, Idle
<1>3. CASE Become(c, Idle)
  BY <1>1, <1>2, <1>3, IdleType, BecomeMoves, ProcFacts DEF Idle
<1>4. CASE Goto(c, "read")
  <2> DEFINE l == [proc[c] EXCEPT !.at = "read"]
  <2>1. /\ l \in Local /\ l.at = "read" /\ l.call = proc[c].call /\ l.cl = proc[c].cl
        /\ l.back = proc[c].back
    BY <1>1, ProcFacts DEF Local, Place
  <2>2. Moved(c, l)
    BY <1>1, <1>4, ProcFacts, GotoMoves DEF Place
  <2> HIDE DEF l
  <2> QED
    BY <1>1, <1>2, <2>1, <2>2 DEF StreamOK
<1> QED
  BY <1>3, <1>4 DEF StreamEnds, StreamError, StreamEof

-----------------------------------------------------------------------------
(* Steps that change the registry.                                           *)

\* The parts of the invariant that a step of a process leaves to its locals.
LEMMA LocalsKept ==
    ASSUME Invariant, NEW p \in Proc, NEW l, Moved(p, l), ProcOK(p, l)
    PROVE  Locals'
BY ThreadsAndStreams DEF Invariant, Locals, ProcOK, ThreadOK, StreamOK, Attaching, Stopping,
                         Making, Moved

LEMMA PrivateKept ==
    ASSUME Invariant, NEW p \in Thread, NEW l, Moved(p, l), ~Making(l), l.cl \in {None, registry, proc[p].cl}
    PROVE  Private'
<1> SUFFICES ASSUME NEW q \in Thread, Making(proc'[q])
             PROVE  /\ \A r \in Thread : r # q => proc'[r].cl # proc'[q].cl
                    /\ proc'[q].at = "start" => proc'[proc'[q].cl].at = "idle"
  BY DEF Private, Making
<1>1. /\ p \in Proc /\ p \notin Client /\ proc'[p] = l
      /\ \A r \in Proc : r # p => proc'[r] = proc[r]
  BY ThreadsAndStreams DEF Moved
<1>2. q # p /\ q \in Proc /\ proc'[q] = proc[q] /\ Making(proc[q])
  BY <1>1, ThreadsAndStreams
<1>3. registry = None /\ proc[q].cl \in Client
  BY <1>2 DEF Invariant, Claims, ClaimOK, Locals, ThreadOK, Making
<1>4. l.cl # proc[q].cl
  BY <1>2, <1>3, ThreadsAndStreams DEF Invariant, Private
<1>5. proc'[proc[q].cl] = proc[proc[q].cl]
  BY <1>1, <1>3, ThreadsAndStreams
<1> QED
  BY <1>1, <1>2, <1>4, <1>5, ThreadsAndStreams DEF Invariant, Private

\* A client leaves the registry, while nobody is in a section of _client_lock.
LEMMA DropInv ==
    ASSUME Invariant, NEW p \in Thread, NEW l \in Local, Moved(p, l), ThreadOK(l),
           registry' \in {None, registry}, config' \in Config, 
           config' = config \/ (registry' = None /\ InOuter(proc[p]) /\ InOuter(l)),
           clientLock = None,
           Depth(l) = Depth(proc[p]), ~Section(l),
           ClaimOK(l)', ~Making(l), l.cl \in {None, registry, proc[p].cl},
           MayBuild(l) => MayBuild(proc[p]),
           Holding(proc[p]) => Holding(l) /\ l.cl = proc[p].cl,
           ~Telling(proc[p]),
           registry' # registry =>
              \/ Holding(l) /\ l.cl = registry
              \/ ~client[registry].server,
           UNCHANGED <<locks, built, client, calls, events>>
    PROVE  Invariant'
<1> USE DEF events, locks
<1>1. /\ p \in Proc /\ p \notin Client /\ proc'[p] = l /\ p # None
      /\ \A q \in Proc : q # p => proc'[q] = proc[q]
  BY ThreadsAndStreams DEF Moved
<1>2. TypeOK'
  BY ThreadFacts DEF Invariant, TypeOK, Moved
<1>3. Locals'
  BY LocalsKept, ThreadFacts
<1>4. LockOK' /\ SectionOK'
  BY <1>1, LockKept, SectionKept DEF Invariant, SectionOK
<1>5. Claims'
  <2> SUFFICES ASSUME NEW q \in Proc, q # p
               PROVE  ClaimOK(proc[q])'
    BY <1>1 DEF Claims, ClaimOK, Evicting, Attaching, Stopping, Making
  <2>1. ClaimOK(proc[q]) /\ ~Section(proc[q]) /\ proc'[q] = proc[q]
    BY <1>1, ProcFacts, ProcAssumption DEF Invariant, Claims, SectionOK
  <2>2. Attaching(proc[q]) => proc[q].back = "unlock"
    BY <2>1, ProcFacts DEF ProcOK, ThreadOK, StreamOK, Section, Attaching
  <2>3. Making(proc[q]) => ~InOuter(proc[p])
    <3>1. Making(proc[q]) => InInner(proc[q])
      BY DEF Making, InInner
    <3> QED
      BY <1>1, <3>1, OneInside DEF Invariant
  <2>4. Making(proc[q]) => config' = config
    BY <2>3
  <2> QED
    BY <2>1, <2>2, <2>4 DEF ClaimOK, Evicting
<1>6. Private'
  BY PrivateKept
<1>7. Unbuilt'
  BY <1>1, ThreadsAndStreams DEF Invariant, Unbuilt
<1>8. Honoured'
  BY DEF Invariant, Honoured
<1>9. Counted'
  BY <1>1, CountKept DEF Invariant
<1>10. NoOrphanServer'
  BY <1>1 DEF Invariant, NoOrphanServer, Holding
<1>11. StreamingClientIsCurrent'
  BY <1>1, ThreadsAndStreams DEF Invariant, StreamingClientIsCurrent, Telling
<1> QED
  BY <1>2, <1>3, <1>4, <1>5, <1>6, <1>7, <1>8, <1>9, <1>10, <1>11 DEF Invariant

LEMMA EvictInv ==
    ASSUME Invariant, NEW p \in Thread, Evict(p)
    PROVE  Invariant'
<1>1. /\ proc[p].at = "evict" /\ registry \in {None, proc[p].cl} /\ ~client[proc[p].cl].server
      /\ clientLock = None
  BY ThreadFacts DEF Evict, At, ClaimOK, Evicting
<1>2. PICK l \in Local :
         Moved(p, l) /\ l.at = "build" /\ l.call = proc[p].call /\ l.cl = proc[p].cl
  <2> DEFINE l == [proc[p] EXCEPT !.at = "build"]
  <2>1. l \in Local /\ l.at = "build" /\ l.call = proc[p].call /\ l.cl = proc[p].cl
    BY ThreadFacts DEF Local, Place
  <2>2. Moved(p, l)
    BY ThreadFacts, GotoMoves DEF Evict, Place
  <2> HIDE DEF l
  <2> QED
    BY <2>1, <2>2
<1>3. /\ registry' = None /\ config' = config
      /\ UNCHANGED <<locks, built, client, calls, events>>
  BY <1>1 DEF Evict
<1>4. ThreadOK(l)
  BY <1>1, <1>2, ThreadFacts DEF ThreadOK, Attaching, Stopping, Making
<1>5. ClaimOK(l)'
  BY <1>2, <1>3, ThreadFacts DEF ClaimOK, Attaching, Stopping, Making, Evicting
<1>6. Depth(l) = Depth(proc[p]) /\ ~Section(l)
  BY <1>1, <1>2 DEF Depth, InInner, InOuter, Section, Attaching, Stopping
<1>7. config' \in Config
  BY <1>3 DEF Invariant, TypeOK
<1> QED
  BY <1>1, <1>2, <1>3, <1>4, <1>5, <1>6, <1>7, DropInv
     DEF Holding, Telling, Making, MayBuild, Stopping

LEMMA PopInv ==
    ASSUME Invariant, NEW p \in Thread, Pop(p)
    PROVE  Invariant'
<1>1. /\ proc[p].at = "pop" /\ proc[p].call = "reconfigure" /\ clientLock = None
      /\ proc[p].cfg \in Config /\ config' = proc[p].cfg /\ registry' = None
      /\ UNCHANGED <<locks, built, client, calls, events>>
  BY ThreadFacts DEF Pop, At, ThreadOK, Local
<1>2. registry # None => registry \in Client /\ registry \in 1..built
  BY ThreadFacts DEF Invariant, Unbuilt
<1>3. ASSUME NEW l \in Local, Moved(p, l), l.call = "reconfigure",
             \/ l.at = "fast" /\ registry = None /\ l.cl = proc[p].cl
             \/ l.at = "read" /\ l.back = "fast" /\ registry # None /\ l.cl = registry
      PROVE  Invariant'
  <2>1. ThreadOK(l)
    BY <1>2, <1>3 DEF ThreadOK, Attaching, Stopping, Making
  <2>2. ClaimOK(l)'
    BY <1>1, <1>2, <1>3, ThreadFacts DEF ClaimOK, Attaching, Stopping, Making, Evicting
  <2>3. /\ Depth(l) = Depth(proc[p]) /\ ~Section(l) /\ InOuter(proc[p]) /\ InOuter(l)
    BY <1>1, <1>3 DEF Depth, InInner, InOuter, Section, Attaching, Stopping
  <2> QED
    BY <1>1, <1>3, <2>1, <2>2, <2>3, DropInv DEF Holding, Telling, Making, MayBuild, Stopping
<1>4. CASE registry = None
  <2> DEFINE l == [proc[p] EXCEPT !.at = "fast"]
  <2>1. l \in Local /\ l.at = "fast" /\ l.call = proc[p].call /\ l.cl = proc[p].cl
    BY ThreadFacts DEF Local, Place
  <2>2. Moved(p, l)
    BY <1>4, ThreadFacts, GotoMoves DEF Pop, Place
  <2> HIDE DEF l
  <2> QED
    BY <1>1, <1>3, <1>4, <2>1, <2>2
<1>5. CASE registry # None
  <2> DEFINE l == With(proc[p], "read", registry, "fast")
  <2>1. registry \in Client /\ proc[p] \in Local /\ "read" \in Place /\ "fast" \in Place
    BY <1>2, <1>5, ThreadFacts DEF Place
  <2>2. /\ l \in Local /\ l.at = "read" /\ l.back = "fast" /\ l.cl = registry
        /\ l.call = proc[p].call
    BY <2>1, WithSet
  <2>3. Become(p, l)
    BY <1>5 DEF Pop, With
  <2> HIDE DEF l
  <2>4. Moved(p, l)
    BY <2>2, <2>3, BecomeMoves, ThreadFacts
  <2> QED
    BY <1>1, <1>3, <1>5, <2>2, <2>4
<1> QED
  BY <1>4, <1>5

LEMMA TakeInv ==
    ASSUME Invariant, NEW p \in Thread, Take(p)
    PROVE  Invariant'
<1>1. /\ proc[p].at = "take" /\ proc[p].call = "stop" /\ clientLock = None
      /\ registry' = None
      /\ UNCHANGED <<config, locks, built, client, calls, events>>
  BY ThreadFacts DEF Take, At, ThreadOK
<1>2. registry # None => registry \in Client /\ registry \in 1..built
  BY ThreadFacts DEF Invariant, Unbuilt
<1>3. config' = config /\ config' \in Config
  BY <1>1 DEF Invariant, TypeOK
<1>4. ASSUME NEW l \in Local, Moved(p, l),
             \/ l = Idle /\ registry = None
             \/ /\ l.at = "read" /\ l.back = "idle" /\ registry # None /\ l.cl = registry
                /\ l.call = "stop"
      PROVE  Invariant'
  <2>1. ThreadOK(l)
    BY <1>2, <1>4 DEF ThreadOK, Attaching, Stopping, Making, Idle
  <2>2. ClaimOK(l)'
    BY <1>1, <1>2, <1>4, ThreadFacts DEF ClaimOK, Attaching, Stopping, Making, Evicting, Idle
  <2>3. Depth(l) = Depth(proc[p]) /\ ~Section(l)
    BY <1>1, <1>4 DEF Depth, InInner, InOuter, Section, Attaching, Stopping, Idle
  <2> QED
    BY <1>1, <1>3, <1>4, <2>1, <2>2, <2>3, DropInv
       DEF Holding, Telling, Making, MayBuild, Stopping, Idle
<1>5. CASE registry = None
  BY <1>4, <1>5, IdleType, BecomeMoves, ThreadFacts DEF Take
<1>6. CASE registry # None
  <2> DEFINE l == With(proc[p], "read", registry, "idle")
  <2>1. registry \in Client /\ proc[p] \in Local /\ "read" \in Place /\ "idle" \in Place
    BY <1>2, <1>6, ThreadFacts DEF Place
  <2>2. /\ l \in Local /\ l.at = "read" /\ l.back = "idle" /\ l.cl = registry
        /\ l.call = proc[p].call
    BY <2>1, WithSet
  <2>3. Become(p, l)
    BY <1>6 DEF Take, With
  <2> HIDE DEF l
  <2>4. Moved(p, l)
    BY <2>2, <2>3, BecomeMoves, ThreadFacts
  <2> QED
    BY <1>1, <1>4, <1>6, <2>2, <2>4
<1> QED
  BY <1>5, <1>6

-----------------------------------------------------------------------------
(* Steps that change clients.                                                *)

\* A thread goes on at a place, with everything else as it was.
LEMMA Goes ==
    ASSUME Invariant, NEW p \in Thread, NEW place \in Place, Goto(p, place)
    PROVE  \E l \in Local : /\ Moved(p, l) /\ l.at = place /\ l.call = proc[p].call
                            /\ l.cl = proc[p].cl /\ l.back = proc[p].back
<1> DEFINE l == [proc[p] EXCEPT !.at = place]
<1>1. /\ l \in Local /\ l.at = place /\ l.call = proc[p].call /\ l.cl = proc[p].cl
      /\ l.back = proc[p].back
  BY ThreadFacts DEF Local
<1>2. Moved(p, l)
  BY ThreadFacts, GotoMoves
<1> HIDE DEF l
<1> QED
  BY <1>1, <1>2

\* A step that keeps the registry and may stop a client or attach to one.
LEMMA KeepInv ==
    ASSUME Invariant, NEW p \in Proc, NEW l \in Local, Moved(p, l), ProcOK(p, l),
           p \in Client => proc[p].at # "idle",
           LockOK', (buildLock \in [owner : Thread \cup {None}, depth : Nat])',
           (buildLock.owner = None <=> buildLock.depth = 0)',
           SectionOK', (clientLock \in Thread \cup {None})',
           ClaimOK(l)', ~Making(l), l.cl \in {None, proc[p].cl},
           p \in Thread => (MayBuild(l) => MayBuild(proc[p])),
           client' \in [Client -> ClientState],
           \A c \in Client : /\ client'[c].cfg = client[c].cfg
                             /\ client'[c].server => client[c].server,
           listeners' \in [Client -> Nat], view' \in Client \cup {None},
           \/ attached' = attached
           \/ /\ p \in Thread /\ proc[p].cl \in 1..built
              /\ attached' = attached \cup {proc[p].cl},
           Holding(proc[p]) =>
              \/ Holding(l) /\ l.cl = proc[p].cl
              \/ ~client'[proc[p].cl].server,
           UNCHANGED <<registry, config, built, calls>>,
           StreamingClientIsCurrent'
    PROVE  Invariant'
<1>1. /\ proc'[p] = l
      /\ \A q \in Proc : q # p => proc'[q] = proc[q]
  BY DEF Moved
<1>2. 1..built \subseteq Client
  BY CallsAssumption DEF Invariant, TypeOK, Client
<1>3. TypeOK'
  BY <1>2 DEF Invariant, TypeOK, Moved
<1>4. Locals'
  BY LocalsKept
<1>5. ASSUME NEW q \in Thread, q # p, Making(proc[q])
      PROVE  /\ registry = None /\ proc[q].cl \in Client /\ proc[q].cl \notin attached'
             /\ l.cl # proc[q].cl \/ p \in Client
  <2>1. registry = None /\ proc[q].cl \in Client /\ proc[q].cl \notin attached
    BY <1>5, ThreadFacts DEF ClaimOK, ThreadOK, Making
  <2>2. p \in Thread => proc[p].cl # proc[q].cl
    BY <1>5 DEF Invariant, Private
  <2> QED
    BY <2>1, <2>2, ThreadsAndStreams DEF Proc
<1>6. Claims'
  <2> SUFFICES ASSUME NEW q \in Proc, q # p
               PROVE  ClaimOK(proc[q])'
    BY <1>1 DEF Claims, ClaimOK, Evicting, Attaching, Stopping, Making
  <2>1. ClaimOK(proc[q]) /\ ProcOK(q, proc[q]) /\ proc'[q] = proc[q] /\ proc[q] \in Local
    BY <1>1, ProcFacts
  <2>2. Making(proc[q]) => q \in Thread
    BY <2>1 DEF ProcOK, StreamOK, Making
  <2>3. Making(proc[q]) => proc[q].cl \notin attached' /\ client'[proc[q].cl].cfg = config'
    BY <1>5, <2>1, <2>2 DEF ClaimOK
  <2>4. proc[q].at = "evict" => ~client'[proc[q].cl].server
    BY <2>1 DEF ProcOK, ThreadOK, StreamOK, ClaimOK
  <2> QED
    BY <2>1, <2>3, <2>4 DEF ClaimOK, Evicting
<1>7. Private'
  <2> SUFFICES ASSUME NEW q \in Thread, Making(proc'[q])
               PROVE  /\ \A r \in Thread : r # q => proc'[r].cl # proc'[q].cl
                      /\ proc'[q].at = "start" => proc'[proc'[q].cl].at = "idle"
    BY DEF Private, Making
  <2>1. q # p /\ q \in Proc /\ proc'[q] = proc[q] /\ Making(proc[q])
    BY <1>1, ThreadsAndStreams
  <2>2. proc[q].at = "start" => proc[proc[q].cl].at = "idle"
    BY <2>1 DEF Invariant, Private
  <2>3. proc[q].at = "start" => proc'[proc[q].cl] = proc[proc[q].cl]
    BY <1>1, <1>5, <2>1, <2>2, ThreadsAndStreams
  <2> QED
    BY <1>1, <1>5, <2>1, <2>2, <2>3, ThreadsAndStreams DEF Invariant, Private
<1>8. Unbuilt'
  BY <1>1, <1>2, ThreadsAndStreams DEF Invariant, Unbuilt, TypeOK
<1>9. Honoured'
  BY ProcFacts DEF Invariant, Honoured
<1>10. Counted'
  BY <1>1, CountKept DEF Invariant
<1>11. NoOrphanServer'
  BY <1>1 DEF Invariant, NoOrphanServer, Holding
<1> QED
  BY <1>3, <1>4, <1>6, <1>7, <1>8, <1>9, <1>10, <1>11 DEF Invariant

LEMMA StartFailsInv ==
    ASSUME Invariant, NEW p \in Thread, StartFails(p)
    PROVE  Invariant'
<1>1. /\ proc[p].at = "start" /\ proc[p].cl \in Client /\ registry = None
      /\ client' = [client EXCEPT ![proc[p].cl].server = FALSE]
      /\ UNCHANGED <<registry, config, locks, built, calls, events>>
      /\ proc[p].cl # None => proc[p].cl \in 1..built
  BY ThreadFacts DEF StartFails, At, ThreadOK, ClaimOK, Making
<1>2. PICK l \in Local : /\ Moved(p, l) /\ l.at = "unlock" /\ l.call = proc[p].call
                         /\ l.cl = proc[p].cl
  BY Goes DEF StartFails, Place
<1>3. ThreadOK(l)
  BY <1>1, <1>2, ThreadFacts DEF ThreadOK, Attaching, Stopping, Making
<1>4. ClaimOK(l)'
  BY <1>1, <1>2, ThreadFacts DEF ClaimOK, Attaching, Stopping, Making, Evicting
<1>5. Depth(l) = Depth(proc[p]) /\ (Section(l) <=> Section(proc[p]))
  BY <1>1, <1>2 DEF Depth, InInner, InOuter, Section, Attaching, Stopping
<1>6. /\ client' \in [Client -> ClientState]
      /\ \A c \in Client : /\ client'[c].cfg = client[c].cfg
                           /\ client'[c].server => client[c].server
      /\ ~client'[proc[p].cl].server
  BY <1>1, ZenonT(60) DEF Invariant, TypeOK, ClientState
<1>7. StreamingClientIsCurrent'
  BY <1>1, ThreadsAndStreams DEF StreamingClientIsCurrent
<1>8. /\ LockOK' /\ (buildLock \in [owner : Thread \cup {None}, depth : Nat])'
      /\ (buildLock.owner = None <=> buildLock.depth = 0)'
      /\ SectionOK' /\ (clientLock \in Thread \cup {None})'
  BY <1>1, <1>2, <1>5, LocksKept, ThreadFacts
<1>9. /\ listeners' \in [Client -> Nat] /\ view' \in Client \cup {None}
      /\ attached' = attached
  BY <1>1 DEF Invariant, TypeOK, events
<1> QED
  BY <1>1, <1>2, <1>3, <1>4, <1>6, <1>7, <1>8, <1>9, ThreadFacts, KeepInv
     DEF Holding, Making, MayBuild, Stopping

LEMMA AttachReplaysInv ==
    ASSUME Invariant, NEW p \in Thread, AttachReplays(p)
    PROVE  Invariant'
<1> DEFINE l == AfterAttach(p)
<1>1. /\ proc[p].at = "replay" /\ Attaching(proc[p]) /\ proc[p].cl \in Client
      /\ registry \in {None, proc[p].cl} /\ AttachReturns(p) /\ view' = proc[p].cl
      /\ UNCHANGED <<registry, config, buildLock, built, client, calls, attached, listeners>>
  BY ThreadFacts DEF AttachReplays, At, ThreadOK, ClaimOK, Attaching
<1>2. /\ l \in Local /\ Moved(p, l) /\ ThreadOK(l)
      /\ l.at \in {"unlock", "leave", "idle"} /\ l.cl \in {None, proc[p].cl}
      /\ Depth(l) = Depth(proc[p]) /\ SectionOK' /\ (clientLock \in Thread \cup {None})'
  BY <1>1, AttachReturnsMoves
<1> HIDE DEF l
<1>3. PICK k : k = l
  OBVIOUS
<1>4. /\ k \in Local /\ Moved(p, k) /\ ThreadOK(k)
      /\ k.at \in {"unlock", "leave", "idle"} /\ k.cl \in {None, proc[p].cl}
      /\ Depth(k) = Depth(proc[p])
  BY <1>2, <1>3
<1>5. ClaimOK(k)'
  BY <1>1, <1>4, ThreadFacts DEF ClaimOK, Attaching, Stopping, Making, Evicting
<1>6. StreamingClientIsCurrent'
  BY <1>1, ThreadsAndStreams DEF StreamingClientIsCurrent
<1>7. LockOK'
  BY <1>1, <1>4, LockKept, ThreadFacts DEF Invariant
<1>8. /\ client' \in [Client -> ClientState] /\ listeners' \in [Client -> Nat]
      /\ view' \in Client \cup {None}
  BY <1>1 DEF Invariant, TypeOK
<1> QED
  BY <1>1, <1>2, <1>4, <1>5, <1>6, <1>7, <1>8, ThreadFacts, KeepInv
     DEF Holding, Making, MayBuild, Stopping

LEMMA AttachAddsInv ==
    ASSUME Invariant, NEW p \in Thread, AttachAdds(p)
    PROVE  Invariant'
<1>1. /\ proc[p].at = "add" /\ Attaching(proc[p]) /\ proc[p].cl \in Client /\ proc[p].cl # None
      /\ registry \in {None, proc[p].cl} /\ proc[p].cl \in 1..built
      /\ listeners' = [listeners EXCEPT ![proc[p].cl] = @ + 1]
      /\ attached' = attached \cup {proc[p].cl}
      /\ UNCHANGED <<registry, config, buildLock, built, client, calls, view>>
  BY ThreadFacts, ThreadsAndStreams DEF AttachAdds, At, ThreadOK, ClaimOK, Attaching
<1>2. /\ listeners' \in [Client -> Nat] /\ view' \in Client \cup {None}
      /\ client' \in [Client -> ClientState]
  BY <1>1 DEF Invariant, TypeOK
<1>3. ASSUME NEW l \in Local, Moved(p, l), ThreadOK(l), Depth(l) = Depth(proc[p]),
             SectionOK', (clientLock \in Thread \cup {None})',
             l.cl \in {None, proc[p].cl}, 
             \/ l.at = "replay" /\ l.cl = proc[p].cl /\ l.back = proc[p].back
             \/ l.at \in {"unlock", "leave", "idle"} /\ ~client[proc[p].cl].alive
      PROVE  Invariant'
  <2>1. ClaimOK(l)'
    BY <1>1, <1>3, ThreadFacts DEF ClaimOK, Attaching, Stopping, Making, Evicting
  <2>2. LockOK'
    BY <1>1, <1>3, LockKept, ThreadFacts DEF Invariant
  <2>3. StreamingClientIsCurrent'
    <3>1. l.at = "replay" => proc'[p].at = "replay" /\ proc'[p].cl = proc[p].cl
      BY <1>3 DEF Moved
    <3> QED
      BY <1>1, <1>3, <3>1, ThreadFacts, ThreadsAndStreams DEF StreamingClientIsCurrent
  <2> QED
    BY <1>1, <1>2, <1>3, <2>1, <2>2, <2>3, ThreadFacts, KeepInv
       DEF Holding, Making, MayBuild, Stopping
<1>4. CASE Alive(proc[p].cl)
  <2>1. Goto(p, "replay") /\ UNCHANGED clientLock
    BY <1>4 DEF AttachAdds
  <2>2. PICK l \in Local : /\ Moved(p, l) /\ l.at = "replay" /\ l.call = proc[p].call
                           /\ l.cl = proc[p].cl /\ l.back = proc[p].back
    BY <2>1, Goes DEF Place
  <2>3. ThreadOK(l)
    BY <1>1, <2>2, ThreadFacts DEF ThreadOK, Attaching, Stopping, Making
  <2>4. Depth(l) = Depth(proc[p]) /\ (Section(l) <=> Section(proc[p]))
    BY <1>1, <2>2 DEF Depth, InInner, InOuter, Section, Attaching, Stopping
  <2>5. SectionOK' /\ (clientLock \in Thread \cup {None})'
    BY <2>1, <2>2, <2>4, SectionKept, ThreadFacts DEF Invariant
  <2> QED
    BY <1>3, <2>2, <2>3, <2>4, <2>5
<1>5. CASE ~Alive(proc[p].cl)
  <2>1. AttachReturns(p) /\ ~client[proc[p].cl].alive
    BY <1>1, <1>5 DEF AttachAdds, Alive
  <2> QED
    BY <1>1, <1>3, <2>1, AttachReturnsMoves
<1> QED
  BY <1>4, <1>5

\* A disconnect only takes its own epoch from a tab, and the client it is about
\* is not alive any more.
LEMMA StopMarksInv ==
    ASSUME Invariant, NEW p \in Proc, StopMarks(p)
    PROVE  Invariant'
<1> DEFINE c == proc[p].cl
           l == Was(proc[p], "close", FALSE)
<1>1. /\ proc[p].at = "mark" /\ c \in Client
      /\ client' = [client EXCEPT ![c].alive = FALSE]
      /\ view' \in {view, AfterDisconnect(c)}
      /\ UNCHANGED <<registry, config, locks, built, calls, attached, listeners>>
  BY ProcFacts DEF StopMarks, At, ProcOK, ThreadOK, StreamOK, Stopping, Proc
<1>2. /\ l \in Local /\ l.at = "close" /\ l.call = proc[p].call /\ l.cl = proc[p].cl
      /\ l.back = proc[p].back
  <2>1. proc[p] \in Local /\ "close" \in Place
    BY ProcFacts DEF Place
  <2> QED
    BY <2>1, WasSet
<1>3. Become(p, l)
  BY DEF StopMarks, Was
<1> HIDE DEF l
<1>4. PICK k \in Local : /\ Moved(p, k) /\ k.at = "close" /\ k.call = proc[p].call
                         /\ k.cl = proc[p].cl /\ k.back = proc[p].back
  BY <1>2, <1>3, ProcFacts, BecomeMoves
<1>5. ProcOK(p, k)
  BY <1>1, <1>4, ProcFacts DEF ProcOK, ThreadOK, StreamOK, Attaching, Stopping, Making
<1>6. /\ client' \in [Client -> ClientState]
      /\ \A d \in Client : /\ client'[d].cfg = client[d].cfg
                           /\ client'[d].server = client[d].server
                           /\ client'[d].alive => client[d].alive /\ d # c
  BY <1>1, ZenonT(60) DEF Invariant, TypeOK, ClientState
<1>7. ClaimOK(k)'
  BY <1>1, <1>4, ProcFacts DEF ClaimOK, Attaching, Stopping, Making, Evicting
<1>8. /\ LockOK' /\ (buildLock \in [owner : Thread \cup {None}, depth : Nat])'
      /\ (buildLock.owner = None <=> buildLock.depth = 0)'
      /\ SectionOK' /\ (clientLock \in Thread \cup {None})'
  <2>1. Depth(k) = Depth(proc[p]) /\ (Section(k) <=> Section(proc[p]))
    BY <1>1, <1>4 DEF Depth, InInner, InOuter, Section, Attaching, Stopping
  <2> QED
    BY <1>1, <1>4, <2>1, LocksKept
<1>9. StreamingClientIsCurrent'
  <2> SUFFICES ASSUME NEW d \in Client, registry = d, client'[d].alive, d \in attached,
                      ~\E q \in Proc : proc'[q].cl = d /\ proc'[q].at \in {"add", "replay"}
               PROVE  view' = d
    BY <1>1 DEF StreamingClientIsCurrent
  <2>1. ~\E q \in Proc : proc[q].cl = d /\ proc[q].at \in {"add", "replay"}
    BY <1>1, <1>4 DEF Moved
  <2>2. client[d].alive /\ d # c
    BY <1>6
  <2>3. view = d
    BY <2>1, <2>2 DEF Invariant, StreamingClientIsCurrent
  <2> QED
    BY <1>1, <2>2, <2>3 DEF AfterDisconnect
<1>10. listeners' \in [Client -> Nat] /\ view' \in Client \cup {None}
  BY <1>1 DEF Invariant, TypeOK, AfterDisconnect
<1> QED
  BY <1>1, <1>4, <1>5, <1>6, <1>7, <1>8, <1>9, <1>10, KeepInv
     DEF Holding, Making, MayBuild, Stopping

LEMMA StopClosesInv ==
    ASSUME Invariant, NEW p \in Proc, StopCloses(p)
    PROVE  Invariant'
<1> DEFINE c == proc[p].cl
<1>1. /\ proc[p].at = "close" /\ c \in Client
      /\ client' = [client EXCEPT ![c].server = FALSE]
      /\ listeners' = [listeners EXCEPT ![c] = 0]
      /\ UNCHANGED <<registry, config, locks, built, calls, attached, view>>
      /\ proc[p].back \in {"idle", "evict", "fast"}
  BY ProcFacts DEF StopCloses, At, ProcOK, ThreadOK, StreamOK, Stopping, Proc
<1>2. ASSUME NEW l \in Local, Moved(p, l),
             \/ l = Idle /\ proc[p].back = "idle"
             \/ /\ l.at = proc[p].back /\ l.back = "idle" /\ proc[p].back # "idle"
                /\ l.cl = c /\ l.call = proc[p].call
      PROVE  Invariant'
  <2>1. ProcOK(p, l)
    BY <1>1, <1>2, ProcFacts
       DEF ProcOK, ThreadOK, StreamOK, Attaching, Stopping, Making, Idle
  <2>2. /\ client' \in [Client -> ClientState]
        /\ \A d \in Client : /\ client'[d].cfg = client[d].cfg
                             /\ client'[d].alive = client[d].alive
                             /\ client'[d].server => client[d].server
        /\ ~client'[c].server
    BY <1>1 DEF Invariant, TypeOK, ClientState
  <2>3. ClaimOK(l)'
    BY <1>1, <1>2, <2>2, ProcFacts DEF ClaimOK, Attaching, Stopping, Making, Evicting, Idle
  <2>4. Depth(l) = Depth(proc[p]) /\ (Section(l) <=> Section(proc[p]))
    BY <1>1, <1>2, ProcFacts
       DEF ProcOK, ThreadOK, StreamOK, Depth, InInner, InOuter, Section, Attaching, Stopping, Idle
  <2>5. /\ LockOK' /\ (buildLock \in [owner : Thread \cup {None}, depth : Nat])'
        /\ (buildLock.owner = None <=> buildLock.depth = 0)'
        /\ SectionOK' /\ (clientLock \in Thread \cup {None})'
    BY <1>1, <1>2, <2>4, LocksKept
  <2>6. listeners' \in [Client -> Nat] /\ view' \in Client \cup {None}
    BY <1>1 DEF Invariant, TypeOK
  <2>7. StreamingClientIsCurrent'
    BY <1>1, <1>2, <2>2 DEF Invariant, StreamingClientIsCurrent, Moved, Idle
  <2>8. /\ ~Making(l) /\ l.cl \in {None, c}
        /\ MayBuild(l) => MayBuild(proc[p])
    BY <1>1, <1>2 DEF Making, MayBuild, Stopping, Idle
  <2> QED
    BY <1>1, <1>2, <2>1, <2>2, <2>3, <2>5, <2>6, <2>7, <2>8, KeepInv
<1>3. CASE proc[p].back = "idle"
  BY <1>2, <1>3, IdleType, BecomeMoves, ProcFacts DEF StopCloses
<1>4. CASE proc[p].back # "idle"
  <2>1. PICK back \in Place : back = proc[p].back
    BY ProcFacts DEF Local
  <2> DEFINE l == With(proc[p], back, proc[p].cl, "idle")
  <2>2. proc[p] \in Local /\ "idle" \in Place /\ proc[p].cl \in Client \cup {None}
    BY <1>1, ProcFacts DEF Place
  <2>3. l \in Local /\ l.at = back /\ l.back = "idle" /\ l.cl = c /\ l.call = proc[p].call
    BY <2>2, WithSet
  <2>4. [proc[p] EXCEPT !.at = proc[p].back, !.back = "idle"] = l
    BY <2>1, <2>2 DEF With, Local
  <2>5. Become(p, l)
    BY <1>4, <2>4 DEF StopCloses
  <2> HIDE DEF l
  <2>6. Moved(p, l)
    BY <2>3, <2>5, BecomeMoves, ProcFacts
  <2> QED
    BY <1>2, <1>4, <2>1, <2>3, <2>6
<1> QED
  BY <1>3, <1>4

-----------------------------------------------------------------------------
(* A client is built, started and registered.                                *)

\* Somebody who is not the maker, while a client is being made.
LEMMA AloneInside ==
    ASSUME Invariant, NEW p \in Thread, InInner(proc[p]), NEW q \in Proc, q # p
    PROVE  /\ ~Making(proc[q]) /\ ~Evicting(proc[q]) /\ proc[q].at # "build"
           /\ Attaching(proc[q]) => Section(proc[q])
<1>1. ~InInner(proc[q])
  BY ThreadFacts, OneInside DEF Invariant
<1> QED
  BY <1>1, ProcFacts
     DEF InInner, Making, Evicting, Section, ProcOK, ThreadOK, StreamOK, Attaching, Stopping

LEMMA BuildInv ==
    ASSUME Invariant, NEW p \in Thread, Build(p)
    PROVE  Invariant'
<1> DEFINE c == built + 1
<1>1. /\ proc[p].at = "build" /\ registry = None /\ InInner(proc[p])
      /\ proc[p].call \in {"get", "reconfigure"}
      /\ built' = c
      /\ client' = [client EXCEPT ![c] = [alive |-> FALSE, server |-> TRUE, cfg |-> config]]
      /\ UNCHANGED <<registry, config, locks, calls, events>>
  BY ThreadFacts DEF Build, At, ClaimOK, Parameters, InInner, ThreadOK
<1>2. /\ c \in Client /\ c \in 1..c /\ c \notin 1..built /\ 1..built \subseteq 1..c
      /\ built' \in 0..MaxCalls /\ Counted'
  <2>1. p \in Pending /\ IsFiniteSet(Pending) /\ built + Cardinality(Pending) <= calls
    BY <1>1 DEF Pending, MayBuild, Invariant, Counted
  <2>2. Pending' = Pending \ {p}
    BY <1>1, <2>1, ThreadFacts, ThreadsAndStreams DEF Build, Become, Pending, MayBuild, Stopping
  <2>3. /\ IsFiniteSet(Pending \ {p})
        /\ Cardinality(Pending \ {p}) = Cardinality(Pending) - 1
        /\ Cardinality(Pending \ {p}) \in Nat
    BY <2>1, FS_RemoveElement, FS_CardinalityType
  <2>4. Cardinality(Pending) \in Nat
    BY <2>1, FS_CardinalityType
  <2> QED
    BY <1>1, <2>1, <2>2, <2>3, <2>4, CallsAssumption DEF Counted, Invariant, TypeOK, Client, Build
<1> HIDE DEF c
<1>3. PICK l \in Local : /\ Moved(p, l) /\ l.at = "start" /\ l.call = proc[p].call
                         /\ l.cl = c
  <2>1. PICK back \in Place : back = proc[p].back
    BY ThreadFacts DEF Local
  <2> DEFINE l == With(proc[p], "start", c, back)
  <2>2. proc[p] \in Local /\ "start" \in Place /\ c \in Client \cup {None}
    BY <1>2, ThreadFacts DEF Place
  <2>3. l \in Local /\ l.at = "start" /\ l.cl = c /\ l.call = proc[p].call
    BY <2>2, WithSet
  <2>4. [proc[p] EXCEPT !.at = "start", !.cl = built + 1] = l
    BY <2>1, <2>2 DEF With, Local, c
  <2>5. Become(p, l)
    BY <2>4 DEF Build
  <2> HIDE DEF l
  <2>6. Moved(p, l)
    BY <2>3, <2>5, BecomeMoves, ThreadFacts
  <2> QED
    BY <2>3, <2>6
<1>4. /\ proc'[p] = l /\ \A q \in Proc : q # p => proc'[q] = proc[q]
      /\ proc' \in [Proc -> Local] /\ p \in Proc /\ p \notin Client
  BY <1>3, ThreadFacts DEF Moved
<1>5. /\ client' \in [Client -> ClientState]
      /\ client'[c].server /\ client'[c].cfg = config
      /\ \A d \in Client : d # c => client'[d] = client[d]
  BY <1>1, <1>2 DEF Invariant, TypeOK, ClientState
<1>6. ~client[c].server /\ c \notin attached /\ proc[c].at = "idle" /\ proc'[c] = proc[c]
  <2>1. c > built
    BY DEF c, Invariant, TypeOK
  <2> QED
    BY <1>2, <1>4, <2>1, ThreadsAndStreams DEF Invariant, Unbuilt
<1>7. \A q \in Proc : q # p => ~Making(proc[q]) /\ ~Evicting(proc[q]) /\ proc[q].at # "build"
  BY <1>1, AloneInside
<1>8. \A q \in Proc : proc[q].cl # None => proc[q].cl \in 1..built
  BY ProcFacts DEF ClaimOK
<1>9. TypeOK'
  BY <1>1, <1>2, <1>4, <1>5 DEF Invariant, TypeOK, locks, events
<1>10. ThreadOK(l)
  BY <1>1, <1>2, <1>3 DEF ThreadOK, Attaching, Stopping, Making
<1>11. Locals'
  BY <1>3, <1>10, LocalsKept, ThreadFacts
<1>12. LockOK' /\ SectionOK'
  <2>1. Depth(l) = Depth(proc[p]) /\ (Section(l) <=> Section(proc[p]))
    BY <1>1, <1>3 DEF Depth, InInner, InOuter, Section, Attaching, Stopping
  <2> QED
    BY <1>1, <1>3, <2>1, LocksKept, ThreadFacts
<1>13. Claims'
  <2>1. ClaimOK(l)'
    BY <1>1, <1>2, <1>3, <1>5, <1>6 DEF ClaimOK, events, Attaching, Stopping, Making, Evicting
  <2>2. ASSUME NEW q \in Proc, q # p
        PROVE  ClaimOK(proc[q])'
    BY <1>1, <1>2, <1>4, <1>7, <2>2, ProcFacts DEF ClaimOK, Evicting, Making, events
  <2> QED
    BY <1>4, <2>1, <2>2 DEF Claims, ClaimOK, Evicting, Attaching, Stopping, Making
<1>14. Private'
  <2> SUFFICES ASSUME NEW q \in Thread, Making(proc'[q])
               PROVE  /\ \A r \in Thread : r # q => proc'[r].cl # proc'[q].cl
                      /\ proc'[q].at = "start" => proc'[proc'[q].cl].at = "idle"
    BY DEF Private, Making
  <2>1. q = p
    BY <1>4, <1>7, ThreadsAndStreams
  <2>2. c # None
    BY <1>2, ThreadsAndStreams
  <2> QED
    BY <1>2, <1>3, <1>4, <1>6, <1>8, <2>1, <2>2, ThreadsAndStreams
<1>15. Unbuilt'
  <2>1. \A d \in Client : d > built' => d > built /\ d # c
    BY <1>1 DEF c, Client, Invariant, TypeOK
  <2> QED
    BY <1>1, <1>4, <1>5, <2>1, ThreadsAndStreams DEF Invariant, Unbuilt, events
<1>16. Honoured' /\ StreamingClientIsCurrent'
  BY <1>1, ThreadsAndStreams DEF Honoured, StreamingClientIsCurrent
<1>17. NoOrphanServer'
  <2> SUFFICES ASSUME NEW d \in Client, client'[d].server
               PROVE  \E q \in Proc : proc'[q].cl = d /\ Holding(proc'[q])
    BY DEF NoOrphanServer, Holding
  <2>1. CASE d = c
    BY <1>3, <1>4, <2>1 DEF Holding
  <2>2. CASE d # c
    <3>1. PICK q \in Proc : proc[q].cl = d /\ Holding(proc[q])
      BY <1>1, <1>5, <2>2, ThreadsAndStreams DEF Invariant, NoOrphanServer, Holding
    <3>2. q # p
      BY <1>1, <3>1 DEF Holding
    <3> QED
      BY <1>4, <3>1, <3>2
  <2> QED
    BY <2>1, <2>2
<1> QED
  BY <1>2, <1>9, <1>11, <1>12, <1>13, <1>14, <1>15, <1>16, <1>17 DEF Invariant

LEMMA StartSucceedsInv ==
    ASSUME Invariant, NEW p \in Thread, StartSucceeds(p)
    PROVE  Invariant'
<1> DEFINE c == proc[p].cl
<1>1. /\ proc[p].at = "start" /\ c \in Client /\ registry = None /\ InInner(proc[p])
      /\ Making(proc[p]) /\ c \in 1..built /\ c \notin attached /\ client[c].cfg = config
      /\ proc[p].call \in {"get", "reconfigure"}
      /\ proc[c].at = "idle"
      /\ client' = [client EXCEPT ![c].alive = TRUE]
      /\ UNCHANGED <<registry, config, locks, built, calls, events>>
  BY ThreadFacts, ThreadsAndStreams
     DEF StartSucceeds, At, ClaimOK, InInner, ThreadOK, Making, Invariant, Private
<1>2. PICK l \in Local : l = [proc[p] EXCEPT !.at = "register"] /\ l.at = "register"
                         /\ l.call = proc[p].call /\ l.cl = c
  <2> DEFINE l == [proc[p] EXCEPT !.at = "register"]
  <2>1. l \in Local /\ l.at = "register" /\ l.call = proc[p].call /\ l.cl = c
    BY ThreadFacts DEF Local, Place
  <2> QED
    BY <2>1
<1>3. PICK s \in Local : s = [Idle EXCEPT !.at = "stream", !.cl = c]
                         /\ s.at = "stream" /\ s.call = "none" /\ s.back = "idle" /\ s.cl = c
  <2> DEFINE s == [Idle EXCEPT !.at = "stream", !.cl = c]
  <2>1. /\ s \in Local /\ s.at = "stream" /\ s.call = "none" /\ s.back = "idle"
        /\ s.cl = c
    BY <1>1, ConfigAssumption DEF Idle, Local, Place, Call
  <2> QED
    BY <2>1
<1>4. /\ p \in Proc /\ c \in Proc /\ p # c /\ p \notin Client /\ c \notin Thread
      /\ proc' \in [Proc -> Local] /\ proc'[p] = l /\ proc'[c] = s
      /\ \A q \in Proc : q # p /\ q # c => proc'[q] = proc[q]
  BY <1>1, <1>2, <1>3, ThreadFacts, ThreadsAndStreams DEF StartSucceeds
<1>5. /\ client' \in [Client -> ClientState]
      /\ \A d \in Client : client'[d].cfg = client[d].cfg /\ client'[d].server = client[d].server
  BY <1>1, ZenonT(60) DEF Invariant, TypeOK, ClientState
<1>6. StreamOK(c, proc[c]) /\ proc[c].call = "none"
  BY <1>1, StreamFacts DEF StreamOK
<1> HIDE DEF c
<1>7. TypeOK'
  BY <1>1, <1>4, <1>5 DEF Invariant, TypeOK, locks, events
<1>8. Locals'
  <2>1. ThreadOK(l) /\ StreamOK(c, s)
    BY <1>1, <1>2, <1>3 DEF ThreadOK, StreamOK, Attaching, Stopping, Making
  <2> QED
    BY <1>4, <2>1, ThreadsAndStreams
       DEF Invariant, Locals, ThreadOK, StreamOK, Attaching, Stopping, Making
<1>9. LockOK' /\ SectionOK'
  <2>1. /\ Depth(l) = Depth(proc[p]) /\ ~Section(l) /\ ~Section(proc[p])
        /\ Depth(s) = Depth(proc[c]) /\ ~Section(s) /\ ~Section(proc[c])
    BY <1>1, <1>2, <1>3, <1>6 DEF Depth, InInner, InOuter, Section, Attaching, Stopping
  <2>2. \A q \in Proc : Depth(proc'[q]) = Depth(proc[q]) /\ (Section(proc'[q]) <=> Section(proc[q]))
    BY <1>4, <2>1
  <2>3. UNCHANGED <<buildLock, clientLock>>
    BY <1>1 DEF locks
  <2>4. \A q \in Proc : Depth(proc'[q]) = IF buildLock'.owner = q THEN buildLock'.depth ELSE 0
    BY <2>2, <2>3 DEF Invariant, LockOK
  <2>5. \A q \in Proc : clientLock' = q <=> Section(proc'[q])
    BY <2>2, <2>3 DEF Invariant, SectionOK
  <2> QED
    BY <2>4, <2>5 DEF LockOK, SectionOK, Depth, InOuter, InInner, Section, Attaching, Stopping
<1>10. Claims'
  <2>1. ClaimOK(l)' /\ ClaimOK(s)'
    BY <1>1, <1>2, <1>3, <1>5 DEF ClaimOK, events, Attaching, Stopping, Making, Evicting
  <2>2. ASSUME NEW q \in Proc, q # p, q # c
        PROVE  ClaimOK(proc[q])'
    <3>1. ~Making(proc[q]) /\ ~Evicting(proc[q]) /\ proc[q].at # "build" /\ ClaimOK(proc[q])
      BY <1>1, <2>2, AloneInside, ProcFacts
    <3> QED
      BY <1>1, <1>4, <2>2, <3>1 DEF ClaimOK, Evicting, Making, events
  <2> QED
    BY <1>4, <2>1, <2>2 DEF Claims, ClaimOK, Evicting, Attaching, Stopping, Making
<1>11. Private'
  <2> SUFFICES ASSUME NEW q \in Thread, Making(proc'[q])
               PROVE  /\ \A r \in Thread : r # q => proc'[r].cl # proc'[q].cl
                      /\ proc'[q].at = "start" => proc'[proc'[q].cl].at = "idle"
    BY DEF Private, Making
  <2>1. q = p
    BY <1>1, <1>4, AloneInside, ThreadsAndStreams
  <2>2. \A r \in Thread : r # p => proc'[r].cl # c
    BY <1>1, <1>4, ThreadsAndStreams DEF Invariant, Private, c
  <2> QED
    BY <1>2, <1>4, <2>1, <2>2
<1>12. Unbuilt'
  <2>1. \A d \in Client : d > built => d # c
    BY <1>1 DEF Client, Invariant, TypeOK
  <2> QED
    BY <1>1, <1>4, <1>5, <2>1, ThreadsAndStreams DEF Invariant, Unbuilt, events
<1>13. Honoured' /\ StreamingClientIsCurrent'
  BY <1>1, ThreadsAndStreams DEF Honoured, StreamingClientIsCurrent
<1>14. Counted'
  <2>1. Pending' = Pending
    BY <1>1, <1>2, <1>4, ThreadsAndStreams DEF Pending, MayBuild, Stopping
  <2> QED
    BY <1>1, <2>1 DEF Invariant, Counted
<1>15. NoOrphanServer'
  <2> SUFFICES ASSUME NEW d \in Client, client'[d].server
               PROVE  \E q \in Proc : proc'[q].cl = d /\ Holding(proc'[q])
    BY DEF NoOrphanServer, Holding
  <2>1. PICK q \in Proc : proc[q].cl = d /\ Holding(proc[q])
    BY <1>1, <1>5, ThreadsAndStreams DEF Invariant, NoOrphanServer, Holding
  <2>2. q # c
    BY <1>1, <2>1 DEF Holding
  <2>3. CASE q = p
    BY <1>2, <1>4, <2>1, <2>3 DEF Holding, c
  <2>4. CASE q # p
    BY <1>4, <2>1, <2>2, <2>4
  <2> QED
    BY <2>3, <2>4
<1> QED
  BY <1>7, <1>8, <1>9, <1>10, <1>11, <1>12, <1>13, <1>14, <1>15 DEF Invariant

LEMMA RegisterInv ==
    ASSUME Invariant, NEW p \in Thread, Register(p)
    PROVE  Invariant'
<1> DEFINE c == proc[p].cl
<1>1. /\ proc[p].at = "register" /\ c \in Client /\ registry = None /\ InInner(proc[p])
      /\ Making(proc[p]) /\ c \in 1..built /\ c \notin attached /\ client[c].cfg = config
      /\ proc[p].call \in {"get", "reconfigure"} /\ clientLock = None
      /\ registry' = c
      /\ UNCHANGED <<config, locks, built, client, calls, events>>
  BY ThreadFacts, ThreadsAndStreams DEF Register, At, ClaimOK, InInner, ThreadOK, Making
<1>2. PICK l \in Local : /\ Moved(p, l) /\ l.at = "attach" /\ l.back = "unlock"
                         /\ l.call = proc[p].call /\ l.cl = c
  <2> DEFINE l == With(proc[p], "attach", c, "unlock")
  <2>1. /\ proc[p] \in Local /\ "attach" \in Place /\ "unlock" \in Place
        /\ c \in Client \cup {None}
    BY <1>1, ThreadFacts DEF Place
  <2> HIDE DEF c
  <2>2. /\ l \in Local /\ l.at = "attach" /\ l.back = "unlock" /\ l.cl = c
        /\ l.call = proc[p].call
    BY <2>1, WithSet
  <2>3. [proc[p] EXCEPT !.at = "attach", !.back = "unlock"] = l
    BY <2>1 DEF With, Local, c
  <2>4. Become(p, l)
    BY <2>3 DEF Register
  <2> HIDE DEF l
  <2>5. Moved(p, l)
    BY <2>2, <2>4, BecomeMoves, ThreadFacts
  <2> QED
    BY <2>2, <2>5
<1>3. /\ proc'[p] = l /\ \A q \in Proc : q # p => proc'[q] = proc[q]
      /\ proc' \in [Proc -> Local] /\ p \in Proc /\ p \notin Client
  BY <1>2, ThreadFacts DEF Moved
<1>4. TypeOK'
  BY <1>1, <1>3 DEF Invariant, TypeOK, locks, events
<1>5. Locals'
  <2>1. ThreadOK(l)
    BY <1>1, <1>2 DEF ThreadOK, Attaching, Stopping, Making
  <2> QED
    BY <1>2, <2>1, LocalsKept, ThreadFacts
<1>6. LockOK' /\ SectionOK'
  <2>1. Depth(l) = Depth(proc[p]) /\ (Section(l) <=> Section(proc[p]))
    BY <1>1, <1>2 DEF Depth, InInner, InOuter, Section, Attaching, Stopping
  <2> QED
    BY <1>1, <1>2, <2>1, LocksKept, ThreadFacts
<1>7. Claims'
  <2>1. ClaimOK(l)'
    BY <1>1, <1>2 DEF ClaimOK, events, Attaching, Stopping, Making, Evicting
  <2>2. ASSUME NEW q \in Proc, q # p
        PROVE  ClaimOK(proc[q])'
    <3>1. /\ ~Making(proc[q]) /\ ~Evicting(proc[q]) /\ proc[q].at # "build"
          /\ Attaching(proc[q]) => Section(proc[q])
      BY <1>1, <2>2, AloneInside
    <3>2. ~Section(proc[q]) /\ ClaimOK(proc[q])
      BY <1>1, ProcFacts
    <3> QED
      BY <1>1, <1>3, <2>2, <3>1, <3>2 DEF ClaimOK, Evicting, Making, events
  <2> QED
    BY <1>3, <2>1, <2>2 DEF Claims, ClaimOK, Evicting, Attaching, Stopping, Making
<1>8. Private'
  BY <1>2, PrivateKept DEF Making
<1>9. Unbuilt'
  BY <1>1, <1>3, ThreadsAndStreams DEF Invariant, Unbuilt, events
<1>10. Honoured'
  BY <1>1 DEF Honoured
<1>11. Counted'
  BY <1>1, <1>2, <1>3, CountKept DEF Invariant, MayBuild, Stopping
<1>12. NoOrphanServer'
  <2> SUFFICES ASSUME NEW d \in Client, client[d].server, d # c
               PROVE  \E q \in Proc : proc'[q].cl = d /\ Holding(proc'[q])
    BY <1>1 DEF NoOrphanServer, Holding
  <2>1. PICK q \in Proc : proc[q].cl = d /\ Holding(proc[q])
    BY <1>1, ThreadsAndStreams DEF Invariant, NoOrphanServer, Holding
  <2> QED
    BY <1>3, <2>1
<1>13. StreamingClientIsCurrent'
  BY <1>1 DEF StreamingClientIsCurrent, events
<1> QED
  BY <1>4, <1>5, <1>6, <1>7, <1>8, <1>9, <1>10, <1>11, <1>12, <1>13 DEF Invariant

LEMMA ArriveInv ==
    ASSUME Invariant, NEW p \in Thread, NEW call \in Call \ {"none"}, NEW cfg \in Config,
           Arrive(p, call, cfg)
    PROVE  Invariant'
<1>1. /\ proc[p].at = "idle" /\ proc[p].call = "none" /\ calls < MaxCalls
      /\ calls' = calls + 1
      /\ UNCHANGED <<registry, config, locks, built, client, events>>
  BY ThreadFacts DEF Arrive, At, ThreadOK
<1>2. PICK l \in Local : /\ Moved(p, l) /\ l.at = Entry(call) /\ l.call = call /\ l.cl = None
                         /\ l.back = "idle"
  <2> DEFINE l == [Idle EXCEPT !.at = Entry(call), !.call = call, !.cfg = cfg]
  <2>1. l \in Local /\ l.at = Entry(call) /\ l.call = call /\ l.cl = None /\ l.back = "idle"
    BY DEF Entry, Idle, Local, Place, Call
  <2>2. Become(p, l)
    BY DEF Arrive
  <2> HIDE DEF l
  <2>3. Moved(p, l)
    BY <2>1, <2>2, BecomeMoves, ThreadFacts
  <2> QED
    BY <2>1, <2>3
<1>3. /\ proc'[p] = l /\ \A q \in Proc : q # p => proc'[q] = proc[q]
      /\ proc' \in [Proc -> Local] /\ p \in Proc /\ p \notin Client
      /\ l.at \in {"fast", "outer", "take"}
      /\ l.at = "fast" => call \in {"peek", "get"}
      /\ l.at = "outer" <=> call = "reconfigure"
      /\ l.at = "take" => call = "stop"
  BY <1>2, ThreadFacts DEF Moved, Entry, Call
<1>4. TypeOK'
  <2>1. calls' \in 0..MaxCalls
    BY <1>1, CallsAssumption DEF Invariant, TypeOK
  <2> QED
    BY <1>1, <1>3, <2>1 DEF Invariant, TypeOK, locks, events
<1>5. Locals'
  <2>1. ThreadOK(l)
    BY <1>2, <1>3 DEF ThreadOK, Attaching, Stopping, Making
  <2> QED
    BY <1>2, <2>1, LocalsKept, ThreadFacts
<1>6. LockOK' /\ SectionOK'
  <2>1. Depth(l) = Depth(proc[p]) /\ (Section(l) <=> Section(proc[p]))
    BY <1>1, <1>2, <1>3 DEF Depth, InInner, InOuter, Section, Attaching, Stopping
  <2> QED
    BY <1>1, <1>2, <2>1, LocksKept, ThreadFacts
<1>7. Claims'
  BY <1>1, <1>2, <1>3
     DEF Invariant, Claims, ClaimOK, Evicting, Attaching, Stopping, Making, events
<1>8. Private'
  BY <1>2, <1>3, PrivateKept DEF Making
<1>9. Unbuilt' /\ Honoured'
  BY <1>1, <1>3, ThreadsAndStreams DEF Invariant, Unbuilt, Honoured, events
<1>10. Counted'
  <2>1. Pending' \in SUBSET (Pending \cup {p})
    BY <1>3, ThreadsAndStreams DEF Pending, MayBuild, Stopping
  <2>2. /\ IsFiniteSet(Pending) /\ Cardinality(Pending) \in Nat
        /\ built + Cardinality(Pending) <= calls
    BY FS_CardinalityType DEF Invariant, Counted
  <2>3. /\ IsFiniteSet(Pending \cup {p})
        /\ Cardinality(Pending \cup {p}) <= Cardinality(Pending) + 1
        /\ Cardinality(Pending \cup {p}) \in Nat
    <3>1. /\ IsFiniteSet(Pending \cup {p})
          /\ \/ Cardinality(Pending \cup {p}) = Cardinality(Pending)
             \/ Cardinality(Pending \cup {p}) = Cardinality(Pending) + 1
      BY <2>2, FS_AddElement
    <3> QED
      BY <2>2, <3>1
  <2>4. /\ IsFiniteSet(Pending') /\ Cardinality(Pending') \in Nat
        /\ Cardinality(Pending') <= Cardinality(Pending \cup {p})
    BY <2>1, <2>3, FS_Subset, FS_CardinalityType
  <2> QED
    BY <1>1, <2>2, <2>3, <2>4 DEF Invariant, TypeOK, Counted
<1>11. NoOrphanServer'
  BY <1>1, <1>3 DEF Invariant, NoOrphanServer
<1>12. StreamingClientIsCurrent'
  BY <1>1, <1>3 DEF Invariant, StreamingClientIsCurrent, events
<1> QED
  BY <1>4, <1>5, <1>6, <1>7, <1>8, <1>9, <1>10, <1>11, <1>12 DEF Invariant

-----------------------------------------------------------------------------
(* The invariant is inductive.                                               *)

LEMMA InitInv == Init => Invariant
<1> SUFFICES ASSUME Init
             PROVE  Invariant
  OBVIOUS
<1>1. \A p \in Proc : proc[p] = Idle
  BY DEF Init
<1>2. TypeOK
  BY CallsAssumption, ConfigAssumption, IdleType
     DEF Init, TypeOK, Free, Unborn, ClientState
<1>3. Locals
  BY <1>1, ThreadsAndStreams DEF Locals, ThreadOK, StreamOK, Idle, Attaching, Stopping, Making
<1>4. LockOK /\ SectionOK
  <2>1. /\ \A p \in Proc : p # None
        /\ clientLock = None /\ buildLock.owner = None
    BY ProcAssumption DEF Init, Free
  <2>2. Depth(Idle) = 0 /\ ~Section(Idle)
    BY DEF Depth, InOuter, InInner, Section, Attaching, Stopping, Idle
  <2> QED
    BY <1>1, <2>1, <2>2 DEF LockOK, SectionOK
<1>5. Claims /\ Private
  BY <1>1, ThreadsAndStreams
     DEF Claims, ClaimOK, Private, Idle, Evicting, Attaching, Stopping, Making
<1>6. Unbuilt /\ Honoured /\ NoOrphanServer /\ StreamingClientIsCurrent
  BY <1>1, ThreadsAndStreams
     DEF Init, Unbuilt, Honoured, NoOrphanServer, StreamingClientIsCurrent, Unborn, Idle
<1>7. Counted
  <2>1. Pending = {}
    BY <1>1, ThreadsAndStreams DEF Pending, MayBuild, Stopping, Idle
  <2> QED
    BY <2>1, FS_EmptySet DEF Init, Counted
<1> QED
  BY <1>2, <1>3, <1>4, <1>5, <1>6, <1>7 DEF Invariant

LEMMA StutterInv ==
    ASSUME Invariant, UNCHANGED vars
    PROVE  Invariant'
BY SMTT(30) DEF vars, Invariant, TypeOK, Locals, ThreadOK, StreamOK, LockOK, Depth, InInner, InOuter,
       SectionOK, Section, Claims, ClaimOK, Evicting, Private, Making, Unbuilt, Honoured,
       Counted, Pending, MayBuild, NoOrphanServer, StreamingClientIsCurrent, Attaching, Stopping

LEMMA NextInv ==
    ASSUME Invariant, Next
    PROVE  Invariant'
<1>1. ASSUME NEW t \in Thread, Arrival(t)
      PROVE  Invariant'
  <2>1. {"peek", "get", "stop", "reconfigure"} \subseteq Call \ {"none"}
    BY DEF Call
  <2> QED
    BY <1>1, <2>1, ArriveInv, ConfigAssumption DEF Arrival
<1>2. ASSUME NEW p \in Proc, StopStep(p)
      PROVE  Invariant'
  BY <1>2, StopReadsInv, StopMarksInv, StopClosesInv DEF StopStep
<1>3. ASSUME NEW t \in Thread, AttachStep(t)
      PROVE  Invariant'
  BY <1>3, AttachSkipsInv, AttachTestsInv, AttachAddsInv, AttachReplaysInv DEF AttachStep
<1>4. ASSUME NEW t \in Thread, GetStep(t)
      PROVE  Invariant'
  BY <1>4, FastFindsInv, FastMissesInv, LockInv, RecheckInv, EvictInv, BuildInv,
     StartSucceedsInv, StartFailsInv, RegisterInv, UnlockInv DEF GetStep
<1>5. ASSUME NEW t \in Thread, Step(t)
      PROVE  Invariant'
  BY <1>2, <1>3, <1>4, <1>5, OuterInv, PopInv, LeaveInv, TakeInv, ThreadsAndStreams DEF Step
<1>6. ASSUME NEW c \in Client, StreamStep(c) \/ StreamError(c) \/ StreamEof(c)
      PROVE  Invariant'
  BY <1>2, <1>6, StreamInv, ThreadsAndStreams DEF StreamStep
<1> QED
  BY <1>1, <1>5, <1>6 DEF Next

LEMMA Inductive == Spec => []Invariant
<1>1. Invariant /\ [Next]_vars => Invariant'
  BY NextInv, StutterInv
<1> QED
  BY InitInv, <1>1, PTL DEF Spec

-----------------------------------------------------------------------------
(* The theorems.                                                             *)

\* The registry, the two locks, the clients and the locals of every thread stay
\* in their types, whatever calls overlap; no more clients are built than calls
\* arrive, so the numbers of clients never run out.
THEOREM TypeCorrect == Spec => []TypeOK
<1>1. Invariant => TypeOK
  BY DEF Invariant
<1> QED
  BY Inductive, <1>1, PTL

\* scrcpyclients.py: whatever get_client, reconfigure, stop_client and dying
\* stream threads overlap, a server that runs on the device belongs to the
\* registered client, or a thread still holds its client to register or stop it.
THEOREM ServersAreOwned == Spec => []NoOrphanServer
<1>1. Invariant => NoOrphanServer
  BY DEF Invariant
<1> QED
  BY Inductive, <1>1, PTL

\* The replayed connected broadcast and the epoch gate: once the connected
\* broadcast of the registered, living client was sent, no late disconnect of an
\* earlier one makes a tab drop its epoch.
THEOREM TabsFollow == Spec => []StreamingClientIsCurrent
<1>1. Invariant => StreamingClientIsCurrent
  BY DEF Invariant
<1> QED
  BY Inductive, <1>1, PTL

\* reconfigure_client: with the per-device lock free, the registered client runs
\* with the parameters stored last; no build that began before a reconfigure is
\* registered after it.
THEOREM ParametersHonoured == Spec => []ConfigHonoured
<1>1. Invariant => ConfigHonoured
  BY DEF Invariant, Honoured, ConfigHonoured
<1> QED
  BY Inductive, <1>1, PTL

\* The per-device RLock: two threads are never both between lock and unlock of
\* get_client, or between outer and leave of reconfigure.
THEOREM BuildersExclude ==
    Spec => [](\A p, q \in Thread :
                  /\ InInner(proc[p]) \/ InOuter(proc[p])
                  /\ InInner(proc[q]) \/ InOuter(proc[q])
                  => p = q)
<1>1. Invariant => \A p, q \in Thread :
                      /\ InInner(proc[p]) \/ InOuter(proc[p])
                      /\ InInner(proc[q]) \/ InOuter(proc[q])
                      => p = q
  BY OneInside, ThreadsAndStreams DEF Invariant
<1> QED
  BY Inductive, <1>1, PTL

\* The client that is being started is the newest one.
Newest == \A t \in Thread : Making(proc[t]) => proc[t].cl = built

\* A step that starts no client.
LEMMA NewestKept ==
    ASSUME TypeOK, Newest, built' = built, NEW p \in Proc, NEW l,
           proc' = [proc EXCEPT ![p] = l],
           Making(l) => Making(proc[p]) /\ l.cl = proc[p].cl
    PROVE  Newest'
BY ThreadsAndStreams DEF Newest, Making, TypeOK

LEMMA NewestGoes ==
    ASSUME TypeOK, Newest, built' = built, NEW p \in Proc, NEW place, Goto(p, place),
           place \in {"start", "register"} => Making(proc[p])
    PROVE  Newest'
<1>1. /\ proc' = [proc EXCEPT ![p] = [proc[p] EXCEPT !.at = place]]
      /\ [proc[p] EXCEPT !.at = place].at = place
      /\ [proc[p] EXCEPT !.at = place].cl = proc[p].cl
  BY DEF Goto, TypeOK, Local
<1> QED
  BY <1>1, NewestKept DEF Making

LEMMA NewestStop ==
    ASSUME Invariant, Newest, NEW p \in Proc, StopStep(p)
    PROVE  Newest'
<1>1. TypeOK /\ proc[p] \in Local
  BY DEF Invariant, TypeOK
<1>2. CASE StopReads(p)
  <2>1. PICK l : /\ l = [proc[p] EXCEPT !.at = "mark", !.was = client[proc[p].cl].alive]
                 /\ proc' = [proc EXCEPT ![p] = l] /\ built' = built
    BY <1>2 DEF StopReads, Become
  <2>2. ~Making(l)
    BY <1>1, <2>1 DEF Making, Local
  <2> QED
    BY <1>1, <2>1, <2>2, NewestKept
<1>3. CASE StopMarks(p)
  <2>1. PICK l : /\ l = [proc[p] EXCEPT !.at = "close", !.was = FALSE]
                 /\ proc' = [proc EXCEPT ![p] = l] /\ built' = built
    BY <1>3 DEF StopMarks, Become
  <2>2. ~Making(l)
    BY <1>1, <2>1 DEF Making, Local
  <2> QED
    BY <1>1, <2>1, <2>2, NewestKept
<1>4. CASE StopCloses(p)
  <2>1. PICK l : /\ l = IF proc[p].back = "idle" THEN Idle
                        ELSE [proc[p] EXCEPT !.at = proc[p].back, !.back = "idle"]
                 /\ proc' = [proc EXCEPT ![p] = l] /\ built' = built
    BY <1>4 DEF StopCloses, Become
  <2>2. proc[p].back \in {"idle", "evict", "fast"}
    BY <1>4 DEF StopCloses, At, Invariant, Locals, ThreadOK, StreamOK, Stopping, Proc
  <2>3. ~Making(l)
    BY <1>1, <2>1, <2>2 DEF Making, Local, Idle
  <2> QED
    BY <1>1, <2>1, <2>3, NewestKept
<1> QED
  BY <1>2, <1>3, <1>4 DEF StopStep

LEMMA NewestGet ==
    ASSUME Invariant, Newest, NEW p \in Thread, GetStep(p)
    PROVE  Newest'
<1>1. TypeOK /\ p \in Proc /\ proc[p] \in Local /\ proc \in [Proc -> Local] /\ ThreadOK(proc[p])
  BY ThreadsAndStreams DEF Invariant, TypeOK, Locals
<1>2. CASE FastFinds(p)
  <2>1. PICK l : /\ l = [proc[p] EXCEPT !.at = "attach", !.cl = registry, !.back = "idle"]
                 /\ proc' = [proc EXCEPT ![p] = l] /\ built' = built
    BY <1>2 DEF FastFinds, Become
  <2>2. ~Making(l)
    BY <1>1, <2>1 DEF Making, Local
  <2> QED
    BY <1>1, <2>1, <2>2, NewestKept
<1>3. CASE FastMisses(p)
  <2>1. CASE Become(p, Idle)
    <3>1. proc' = [proc EXCEPT ![p] = Idle] /\ built' = built /\ ~Making(Idle)
      BY <1>3, <2>1 DEF FastMisses, Become, Idle, Making
    <3> QED
      BY <1>1, <3>1, NewestKept
  <2> QED
    BY <1>1, <1>3, <2>1, NewestGoes DEF FastMisses
<1>4. CASE Lock(p)
  BY <1>1, <1>4, NewestGoes DEF Lock, Acquire
<1>5. CASE Recheck(p)
  <2>1. ASSUME NEW l, l.at = "attach" \/ l.at = "read", Become(p, l)
        PROVE  Newest'
    <3>1. proc' = [proc EXCEPT ![p] = l] /\ built' = built /\ ~Making(l)
      BY <1>5, <2>1 DEF Recheck, Become, Making
    <3> QED
      BY <1>1, <3>1, NewestKept
  <2>2. CASE Goto(p, "build")
    BY <1>1, <1>5, <2>2, NewestGoes DEF Recheck
  <2>3. CASE Become(p, [proc[p] EXCEPT !.at = "attach", !.cl = registry, !.back = "unlock"])
    <3>1. [proc[p] EXCEPT !.at = "attach", !.cl = registry, !.back = "unlock"].at = "attach"
      BY <1>1 DEF Local
    <3> QED
      BY <2>1, <2>3, <3>1
  <2>4. CASE Become(p, [proc[p] EXCEPT !.at = "read", !.cl = registry, !.back = "evict"])
    <3>1. [proc[p] EXCEPT !.at = "read", !.cl = registry, !.back = "evict"].at = "read"
      BY <1>1 DEF Local
    <3> QED
      BY <2>1, <2>4, <3>1
  <2> QED
    BY <1>5, <2>2, <2>3, <2>4 DEF Recheck
<1>6. CASE Evict(p)
  BY <1>1, <1>6, NewestGoes DEF Evict
\* Nobody else is between lock and unlock.
<1>7. CASE Build(p)
  <2>1. \A t \in Thread : t # p => ~Making(proc[t])
    BY <1>1, <1>7, OneInside, ThreadsAndStreams DEF Build, At, Making, InInner, Invariant
  <2>2. built' = built + 1 /\ proc' = [proc EXCEPT ![p] =
                                   [proc[p] EXCEPT !.at = "start", !.cl = built + 1]]
    BY <1>7 DEF Build, Become
  <2>3. [proc[p] EXCEPT !.at = "start", !.cl = built + 1].cl = built + 1
    BY <1>1 DEF Local
  <2> QED
    BY <1>1, <2>1, <2>2, <2>3, ThreadsAndStreams DEF Newest, Making
<1>8. CASE StartSucceeds(p)
  <2>1. PICK c : c = proc[p].cl
    OBVIOUS
  <2>2. c \in Client
    BY <1>1, <1>8, <2>1 DEF StartSucceeds, At, ThreadOK, Making
  <2>3. /\ proc' = [proc EXCEPT ![p].at = "register", ![c] = [Idle EXCEPT !.at = "stream", !.cl = c]]
        /\ built' = built /\ proc[p].at = "start"
    BY <1>8, <2>1 DEF StartSucceeds, At
  <2>4. /\ proc'[p] = [proc[p] EXCEPT !.at = "register"]
        /\ \A t \in Thread : t # p => proc'[t] = proc[t]
    BY <1>1, <2>2, <2>3, ThreadsAndStreams
  <2>5. proc'[p].cl = proc[p].cl
    BY <1>1, <2>4 DEF Local
  <2> QED
    BY <2>3, <2>4, <2>5 DEF Newest, Making
<1>9. CASE StartFails(p)
  BY <1>1, <1>9, NewestGoes DEF StartFails
<1>10. CASE Register(p)
  <2>1. PICK l : /\ l = [proc[p] EXCEPT !.at = "attach", !.back = "unlock"]
                 /\ proc' = [proc EXCEPT ![p] = l] /\ built' = built
    BY <1>10 DEF Register, Become
  <2>2. ~Making(l)
    BY <1>1, <2>1 DEF Making, Local
  <2> QED
    BY <1>1, <2>1, <2>2, NewestKept
<1>11. CASE Unlock(p)
  <2>1. ~Making(Returned(p))
    BY <1>1 DEF Returned, Making, Idle, Local
  <2>2. proc' = [proc EXCEPT ![p] = Returned(p)] /\ built' = built
    BY <1>11 DEF Unlock, Become
  <2> QED
    BY <1>1, <2>1, <2>2, NewestKept
<1> QED
  BY <1>2, <1>3, <1>4, <1>5, <1>6, <1>7, <1>8, <1>9, <1>10, <1>11 DEF GetStep

LEMMA NewestAttach ==
    ASSUME Invariant, Newest, NEW p \in Thread, AttachStep(p)
    PROVE  Newest'
<1>1. TypeOK /\ p \in Proc /\ proc[p] \in Local /\ Attaching(proc[p])
  BY ThreadsAndStreams
     DEF Invariant, TypeOK, AttachStep, AttachSkips, AttachTests, AttachAdds, AttachReplays,
         At, Attaching
<1>2. built' = built
  BY DEF AttachStep, AttachSkips, AttachTests, AttachAdds, AttachReplays
<1>3. CASE AttachReturns(p)
  <2>1. proc' = [proc EXCEPT ![p] = AfterAttach(p)]
    BY <1>3 DEF AttachReturns, Become, AfterAttach
  <2>2. ~Making(AfterAttach(p))
    BY <1>1 DEF AfterAttach, Returned, Making, Idle, Local
  <2> QED
    BY <1>1, <1>2, <2>1, <2>2, NewestKept
<1>4. CASE Goto(p, "add") \/ Goto(p, "replay")
  BY <1>1, <1>2, <1>4, NewestGoes
<1> QED
  BY <1>3, <1>4 DEF AttachStep, AttachSkips, AttachTests, AttachAdds, AttachReplays

LEMMA NewestCall ==
    ASSUME Invariant, Newest, NEW p \in Thread, Outer(p) \/ Pop(p) \/ Leave(p) \/ Take(p)
    PROVE  Newest'
<1>1. TypeOK /\ p \in Proc /\ proc[p] \in Local
  BY ThreadsAndStreams DEF Invariant, TypeOK
<1>2. built' = built
  BY DEF Outer, Pop, Leave, Take
<1>3. ASSUME NEW l, l.at = "read", Become(p, l)
      PROVE  Newest'
  <2>1. proc' = [proc EXCEPT ![p] = l] /\ ~Making(l)
    BY <1>3 DEF Become, Making
  <2> QED
    BY <1>1, <1>2, <2>1, NewestKept
<1>4. CASE Become(p, Idle)
  <2>1. proc' = [proc EXCEPT ![p] = Idle] /\ ~Making(Idle)
    BY <1>4 DEF Become, Idle, Making
  <2> QED
    BY <1>1, <1>2, <2>1, NewestKept
<1>5. CASE Goto(p, "pop") \/ Goto(p, "fast")
  BY <1>1, <1>2, <1>5, NewestGoes
<1>6. CASE Pop(p)
  <2>1. CASE Become(p, [proc[p] EXCEPT !.at = "read", !.cl = registry, !.back = "fast"])
    <3>1. [proc[p] EXCEPT !.at = "read", !.cl = registry, !.back = "fast"].at = "read"
      BY <1>1 DEF Local
    <3> QED
      BY <1>3, <2>1, <3>1
  <2> QED
    BY <1>5, <1>6, <2>1 DEF Pop
<1>7. CASE Take(p)
  <2>1. CASE registry = None
    BY <1>4, <1>7, <2>1 DEF Take
  <2>2. CASE registry # None
    <3>1. Become(p, [proc[p] EXCEPT !.at = "read", !.cl = registry, !.back = "idle"])
      BY <1>7, <2>2 DEF Take
    <3>2. [proc[p] EXCEPT !.at = "read", !.cl = registry, !.back = "idle"].at = "read"
      BY <1>1 DEF Local
    <3> QED
      BY <1>3, <3>1, <3>2
  <2> QED
    BY <2>1, <2>2
<1> QED
  BY <1>4, <1>5, <1>6, <1>7 DEF Outer, Acquire, Leave

LEMMA NewestInv ==
    ASSUME Invariant, Newest, [Next]_vars
    PROVE  Newest'
<1>1. TypeOK
  BY DEF Invariant
<1>2. ASSUME NEW t \in Thread, Arrival(t)
      PROVE  Newest'
  <2>1. PICK call, cfg : Arrive(t, call, cfg)
    BY <1>2 DEF Arrival
  <2>2. PICK l : /\ l = [Idle EXCEPT !.at = Entry(call), !.call = call, !.cfg = cfg]
                 /\ proc' = [proc EXCEPT ![t] = l] /\ built' = built
    BY <2>1 DEF Arrive, Become
  <2>3. l.at = Entry(call)
    BY <2>2 DEF Idle
  <2>4. ~Making(l)
    BY <2>3 DEF Making, Entry
  <2> QED
    BY <1>1, <2>2, <2>4, NewestKept, ThreadsAndStreams
<1>3. ASSUME NEW t \in Thread, Step(t)
      PROVE  Newest'
  BY <1>3, NewestAttach, NewestStop, NewestGet, NewestCall, ThreadsAndStreams DEF Step
<1>4. ASSUME NEW c \in Client, StreamStep(c) \/ StreamError(c) \/ StreamEof(c)
      PROVE  Newest'
  <2>1. c \in Proc
    BY ThreadsAndStreams
  <2>2. CASE StopStep(c)
    BY <2>1, <2>2, NewestStop
  <2>3. CASE StreamError(c)
    BY <1>1, <2>1, <2>3, NewestGoes DEF StreamError
  <2>4. CASE StreamEnds(c) \/ StreamEof(c)
    <3>1. proc' = [proc EXCEPT ![c] = Idle] /\ built' = built /\ ~Making(Idle)
      BY <2>4 DEF StreamEnds, StreamEof, Become, Idle, Making
    <3> QED
      BY <1>1, <2>1, <3>1, NewestKept
  <2> QED
    BY <1>4, <2>2, <2>3, <2>4 DEF StreamStep
<1>5. CASE UNCHANGED vars
  BY <1>5 DEF vars, Newest, Making
<1> QED
  BY <1>2, <1>3, <1>4, <1>5 DEF Next

\* A client is registered only where none is, and it is the newest one made:
\* get_client's assignment to _clients, which tests nothing, overwrites no client
\* and brings none back that was replaced.
ClientNeverReplaced ==
    [][registry' # registry => registry' = None \/ (registry = None /\ registry' = built)]_vars

LEMMA RegistrySteps ==
    ASSUME Invariant, Newest, [Next]_vars
    PROVE  registry' # registry => registry' = None \/ (registry = None /\ registry' = built)
<1> DEFINE Steps == registry' # registry
                    => registry' = None \/ (registry = None /\ registry' = built)
<1>1. ASSUME NEW t \in Thread, Arrival(t)
      PROVE  Steps
  <2>1. \A call, cfg : Arrive(t, call, cfg) => registry' = registry
    BY Zenon DEF Arrive
  <2> QED
    BY <1>1, <2>1 DEF Arrival
<1>2. ASSUME NEW p \in Proc, StopStep(p)
      PROVE  Steps
  BY <1>2 DEF StopStep, StopReads, StopMarks, StopCloses
<1>3. ASSUME NEW t \in Thread, Step(t)
      PROVE  Steps
  <2>1. CASE AttachStep(t)
    BY <2>1 DEF AttachStep, AttachSkips, AttachTests, AttachAdds, AttachReplays
  <2>2. CASE StopStep(t)
    BY <1>2, <2>2 DEF Proc
  <2>3. CASE Register(t)
    <3>1. registry = None
      BY <2>3 DEF Invariant, Claims, ClaimOK, Proc, Register, At
    <3>2. registry' = built
      BY <2>3 DEF Newest, Making, Register, At
    <3> QED
      BY <3>1, <3>2
  <2>4. CASE GetStep(t) /\ ~Register(t)
    BY <2>4 DEF GetStep, FastFinds, FastMisses, Lock, Recheck, Evict, Build, StartSucceeds,
       StartFails, Unlock
  <2>5. CASE Outer(t) \/ Pop(t) \/ Leave(t) \/ Take(t)
    BY <2>5 DEF Outer, Pop, Leave, Take
  <2> QED
    BY <1>3, <2>1, <2>2, <2>3, <2>4, <2>5 DEF Step
<1>4. ASSUME NEW c \in Client, StreamStep(c) \/ StreamError(c) \/ StreamEof(c)
      PROVE  Steps
  BY <1>2, <1>4 DEF StreamStep, StreamEnds, StreamError, StreamEof, Proc
<1>5. CASE UNCHANGED vars
  BY <1>5 DEF vars
<1> QED
  BY <1>1, <1>3, <1>4, <1>5 DEF Next

\* scrcpyclients.py: every change of _clients empties the entry or fills an empty
\* one with the client made last, whatever builds, evictions, reconfigures and stops
\* overlap.
THEOREM ClientsAreNotReplaced == Spec => ClientNeverReplaced
<1>1. Init => Newest
  BY ThreadsAndStreams DEF Init, Newest, Making, Idle
<1>2. Invariant /\ Newest /\ [Next]_vars => Newest'
  BY NewestInv
<1>3. Invariant /\ Newest /\ [Next]_vars
      => (registry' # registry => registry' = None \/ (registry = None /\ registry' = built))
  BY RegistrySteps
<1> QED
  BY Inductive, <1>1, <1>2, <1>3, PTL DEF Spec, ClientNeverReplaced
=============================================================================
