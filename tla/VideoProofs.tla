---------------------------- MODULE VideoProofs ----------------------------
(* Theorems on the video of a peer, for every value of the constants: the    *)
(* bitrate controllers of AdaptiveBitrate, with any number of peers, of      *)
(* switching requests, of controllers and of reconfigurations, and then the  *)
(* stream of VideoStream, with any number of packets, any clock of the       *)
(* device and any size of the queue.                                         *)
EXTENDS AdaptiveBitrate, VideoStream, FiniteSetTheorems, SequenceTheorems, TLAPS

\* What _clamp lets through, and what the owner may ask for.
Allowed(b) == b \in Wanted \/ (b \in Nat /\ MIN_BITRATE <= b /\ b <= MAX_BITRATE)

\* A request that waits for the controller of p to stop.
Stops(q, p) == q.at = "stopping" /\ q.p = p

RequestOK(q) ==
    /\ q.at \in {"run", "stopping"} <=> q.p # NoPeer
    /\ q.at # "idle" /\ q.op = "enable" => Allowed(q.initial)

JobOK(j) ==
    /\ j \in Job /\ j.n \in 1 .. MaxJobs /\ Allowed(j.bps)
    /\ j.client \in 0 .. clients
    /\ j.at = "reattach" => j.client # 0

Typed ==
    /\ made \in 0 .. MaxControllers /\ ctl \in Seq(Controller) /\ Len(ctl) = made
    /\ ctrl \in [Peer -> 0 .. made] /\ open \subseteq Peer
    /\ thread \in [Thread -> Request]
    /\ IsFiniteSet(jobs)
    /\ clients \in Nat /\ client \in 0 .. clients /\ source \in [Peer -> 1 .. clients]
    /\ late \subseteq Peer /\ events \in 0 .. MaxEvents

Bitrates ==
    /\ Allowed(config)
    /\ \A i \in 1 .. made : Allowed(ctl[i].bps)
    /\ \A t \in Thread : RequestOK(thread[t])
    /\ \A j \in jobs : JobOK(j)

\* The session's controller is its peer's.
Own == \A p \in Peer : ctrl[p] # 0 => ctl[ctrl[p]].p = p

\* A controller whose stop somebody waits for does not run again.
StoppedStay ==
    \A t \in Thread : thread[t].at = "stopping" =>
        thread[t].old \in 1 .. made /\ ~ctl[thread[t].old].runs

\* A thread that made the client in the registry has this peer still to move.
Owed(p) == \E j \in jobs : /\ j.client = client
                           /\ j.at = "alive" \/ (j.at = "reattach" /\ p \in j.left)

Followed == client # 0 => \A p \in open : source[p] = client \/ p \in late \/ Owed(p)

Invariant ==
    /\ Typed
    /\ Bitrates
    /\ Own
    /\ StoppedStay
    /\ Followed

-----------------------------------------------------------------------------
(* The ladder.                                                               *)

LEMMA MaxIs ==
    ASSUME NEW S \in SUBSET Int, NEW m \in S, \A y \in S : m >= y
    PROVE  Max(S) = m
<1>1. \A x \in S : (\A y \in S : x >= y) => x = m
  OBVIOUS
<1> QED
  BY <1>1 DEF Max

LEMMA MinIs ==
    ASSUME NEW S \in SUBSET Int, NEW m \in S, \A y \in S : m =< y
    PROVE  Min(S) = m
<1>1. \A x \in S : (\A y \in S : x =< y) => x = m
  OBVIOUS
<1> QED
  BY <1>1 DEF Min

LEMMA MaxOfTwo ==
    ASSUME NEW a \in Int, NEW b \in Int
    PROVE  Max({a, b}) = IF a >= b THEN a ELSE b
<1>1. CASE a >= b
  BY <1>1, MaxIs
<1>2. CASE ~(a >= b)
  BY <1>2, MaxIs
<1> QED
  BY <1>1, <1>2

LEMMA MinOfTwo ==
    ASSUME NEW a \in Int, NEW b \in Int
    PROVE  Min({a, b}) = IF a =< b THEN a ELSE b
<1>1. CASE a =< b
  BY <1>1, MinIs
<1>2. CASE ~(a =< b)
  BY <1>2, MinIs
<1> QED
  BY <1>1, <1>2

\* _clamp keeps any bitrate within the limits.
LEMMA ClampedIs ==
    ASSUME NEW b \in Int
    PROVE  Clamped(b) \in Nat /\ Allowed(Clamped(b))
<1>1. PICK m \in Int : m = Min({MAX_BITRATE, b}) /\ m <= MAX_BITRATE
  <2>1. MAX_BITRATE \in Int
    BY DEF MAX_BITRATE
  <2>2. Min({MAX_BITRATE, b}) = IF MAX_BITRATE =< b THEN MAX_BITRATE ELSE b
    BY <2>1, MinOfTwo
  <2> QED
    BY <2>1, <2>2
<1>2. MIN_BITRATE \in Int /\ MIN_BITRATE >= 0 /\ MIN_BITRATE <= MAX_BITRATE /\ MAX_BITRATE \in Int
  BY DEF MIN_BITRATE, MAX_BITRATE
<1>3. Max({MIN_BITRATE, m}) = IF MIN_BITRATE >= m THEN MIN_BITRATE ELSE m
  BY <1>2, MaxOfTwo
<1>4. Clamped(b) = Max({MIN_BITRATE, m})
  BY <1>1 DEF Clamped
<1> QED
  BY <1>1, <1>2, <1>3, <1>4 DEF Allowed

LEMMA LadderIs == /\ DOMAIN LADDER_KBPS = 1 .. 10
                  /\ \A i \in 1 .. 10 : LADDER_KBPS[i] \in Int
BY DEF LADDER_KBPS

\* Some rung is the last of a set of them.
LEMMA LastRung ==
    ASSUME NEW S \in SUBSET (1 .. 10), S # {}
    PROVE  Max(S) \in 1 .. 10
<1>1. \E m \in S : \A y \in S : m >= y
  <2> SUFFICES ASSUME ~ \E m \in S : \A y \in S : m >= y
               PROVE  FALSE
    OBVIOUS
  <2>1. \A k \in 1 .. 10 : (\A y \in S : y <= k) => \A y \in S : y <= k - 1
    OBVIOUS
  <2>2. \A y \in S : y <= 10
    OBVIOUS
  <2>3. \A y \in S : y <= 9
    BY <2>1, <2>2
  <2>4. \A y \in S : y <= 8
    BY <2>1, <2>3
  <2>5. \A y \in S : y <= 7
    BY <2>1, <2>4
  <2>6. \A y \in S : y <= 6
    BY <2>1, <2>5
  <2>7. \A y \in S : y <= 5
    BY <2>1, <2>6
  <2>8. \A y \in S : y <= 4
    BY <2>1, <2>7
  <2>9. \A y \in S : y <= 3
    BY <2>1, <2>8
  <2>10. \A y \in S : y <= 2
    BY <2>1, <2>9
  <2>11. \A y \in S : y <= 1
    BY <2>1, <2>10
  <2>12. \A y \in S : y <= 0
    BY <2>1, <2>11
  <2>13. PICK s \in S : TRUE
    OBVIOUS
  <2> QED
    BY <2>12, <2>13
<1>2. S \in SUBSET Int
  OBVIOUS
<1> QED
  BY <1>1, <1>2, MaxIs

LEMMA StepBelowIs ==
    ASSUME NEW kbps \in Int, NEW steps \in Nat
    PROVE  LadderStepBelow(kbps, steps) \in Int
<1> DEFINE rungs == {i \in DOMAIN LADDER_KBPS : LADDER_KBPS[i] <= kbps}
<1>1. PICK rung : rung = IF rungs = {} THEN 1 ELSE Max(rungs)
  OBVIOUS
<1>2. rung \in 1 .. 10
  <2>1. rungs \in SUBSET (1 .. 10)
    BY LadderIs
  <2> QED
    BY <1>1, <2>1, LastRung
<1>3. Max({1, rung - steps}) \in 1 .. 10
  BY <1>2, MaxOfTwo
<1>4. LadderStepBelow(kbps, steps) = LADDER_KBPS[Max({1, rung - steps})]
  BY <1>1 DEF LadderStepBelow
<1> QED
  BY <1>3, <1>4, LadderIs

\* Whatever the regime, what a tick decides on is a bitrate within the limits.
LEMMA DecidedIs ==
    ASSUME NEW regime, NEW b \in Nat
    PROVE  Clamped(Decided(regime, b)) \in Nat /\ Allowed(Clamped(Decided(regime, b)))
<1>1. PICK kbps \in Int : kbps = b \div 1000
  OBVIOUS
<1>2. PICK x \in Int : x = LadderStepBelow(kbps, 2) * 1000
  BY StepBelowIs
<1>3. PICK y \in Int : y = LadderStepBelow(kbps, 1) * 1000
  BY StepBelowIs
<1>4. PICK z \in Int : z = Clamped(((kbps * 11) \div 10) * 1000)
  <2>1. ((kbps * 11) \div 10) * 1000 \in Int
    OBVIOUS
  <2> QED
    BY <2>1, ClampedIs
<1>5. Decided(regime, b) = CASE regime = "CRITICAL" -> x
                             [] regime = "STRESSED" -> y
                             [] regime = "HEALTHY" -> z
                             [] OTHER -> b
  BY <1>1, <1>2, <1>3, <1>4 DEF Decided
<1>6. Decided(regime, b) \in Int
  <2>1. CASE regime = "CRITICAL"
    BY <1>5, <2>1
  <2>2. CASE regime = "STRESSED"
    BY <1>5, <2>2
  <2>3. CASE regime = "HEALTHY"
    BY <1>5, <2>3
  <2>4. CASE regime \notin {"CRITICAL", "STRESSED", "HEALTHY"}
    BY <1>5, <2>4
  <2> QED
    BY <2>1, <2>2, <2>3, <2>4
<1> QED
  BY <1>6, ClampedIs

-----------------------------------------------------------------------------
(* What a step does to one entry of the state.                               *)

\* One controller is c after the step.
Sets(i, c) ==
    /\ ctl' \in Seq(Controller) /\ Len(ctl') = made
    /\ \A k \in 1 .. made : ctl'[k] = IF k = i THEN c ELSE ctl[k]

LEMMA SetsOne ==
    ASSUME Typed, NEW i \in 1 .. made, NEW c \in Controller,
           ctl' = [ctl EXCEPT ![i] = c]
    PROVE  Sets(i, c)
<1>1. ctl \in Seq(Controller) /\ Len(ctl) = made
  BY DEF Typed
<1>2. i \in 1 .. Len(ctl)
  BY <1>1
<1> QED
  BY <1>1, <1>2, ExceptSeq DEF Sets

LEMMA ControllerIs ==
    ASSUME Typed, NEW i \in 1 .. made
    PROVE  ctl[i] \in Controller
BY ElementOfSeq DEF Typed

\* One request is q after the step.
Turns(t, q) ==
    /\ thread' \in [Thread -> Request]
    /\ \A u \in Thread : thread'[u] = IF u = t THEN q ELSE thread[u]

LEMMA TurnsOne ==
    ASSUME Typed, NEW t \in Thread, NEW q \in Request,
           thread' = [thread EXCEPT ![t] = q]
    PROVE  Turns(t, q)
BY DEF Typed, Turns

\* While there is room, some number is free for a thread that starts.
LEMMA NumberIsFree ==
    ASSUME Typed, Room
    PROVE  \E n \in 1 .. MaxJobs : \A j \in jobs : j.n # n
<1> SUFFICES ASSUME \A n \in 1 .. MaxJobs : \E j \in jobs : j.n = n
             PROVE  FALSE
  OBVIOUS
<1> DEFINE f == [n \in 1 .. MaxJobs |-> CHOOSE j \in jobs : j.n = n]
<1>1. \A n \in 1 .. MaxJobs : f[n] \in jobs /\ f[n].n = n
  OBVIOUS
<1>2. f \in [1 .. MaxJobs -> jobs]
  BY <1>1
<1>3. IsFiniteSet(1 .. MaxJobs) /\ Cardinality(1 .. MaxJobs) = MaxJobs
  BY FS_Interval, BitrateAssumption
<1>4. IsFiniteSet(jobs) /\ Cardinality(jobs) < Cardinality(1 .. MaxJobs)
  BY <1>3 DEF Typed, Room
<1>5. \E x, y \in 1 .. MaxJobs : x # y /\ f[x] = f[y]
  <2>1. PICK S, g : S = 1 .. MaxJobs /\ g = f
    OBVIOUS
  <2> HIDE DEF f
  <2>2. IsFiniteSet(S) /\ IsFiniteSet(jobs) /\ Cardinality(jobs) < Cardinality(S)
    BY <1>3, <1>4, <2>1
  <2>3. g \in [S -> jobs]
    BY <1>2, <2>1
  <2>4. \E x, y \in S : x # y /\ g[x] = g[y]
    BY <2>2, <2>3, FS_PigeonHole
  <2> QED
    BY <2>1, <2>4
<1> QED
  BY <1>1, <1>5

LEMMA NewJobIs ==
    ASSUME Typed, Room, NEW by \in {"controller", "owner"}, NEW b \in Nat, Allowed(b)
    PROVE  JobOK(NewJob(by, b))
<1>1. PICK n \in 1 .. MaxJobs : n = CHOOSE m \in 1 .. MaxJobs : \A j \in jobs : j.n # m
  BY NumberIsFree
<1>2. NewJob(by, b) = [n |-> n, by |-> by, bps |-> b, at |-> "reconfigure", client |-> 0,
                         left |-> {}]
  BY <1>1 DEF NewJob
<1> QED
  BY <1>1, <1>2 DEF JobOK, Job, Typed

LEMMA JobsGrow ==
    ASSUME Typed, NEW k
    PROVE  IsFiniteSet(jobs \cup {k})
BY FS_AddElement DEF Typed

LEMMA JobsMove ==
    ASSUME Typed, NEW j, NEW k
    PROVE  IsFiniteSet(jobs \ {j}) /\ IsFiniteSet((jobs \ {j}) \cup {k})
<1>1. IsFiniteSet(jobs \ {j})
  BY FS_RemoveElement DEF Typed
<1> QED
  BY <1>1, FS_AddElement

-----------------------------------------------------------------------------
(* The steps that leave the controllers' peers and tasks alone.              *)

\* The parts about switching depend on no more of a controller than this.
LEMMA Quiet ==
    ASSUME Typed, Own, StoppedStay,
           UNCHANGED <<made, ctrl, thread>>,
           \A i \in 1 .. made : ctl'[i].p = ctl[i].p /\ ctl'[i].runs = ctl[i].runs
    PROVE  Own' /\ StoppedStay'
<1>1. \A p \in Peer : ctrl[p] # 0 => ctrl[p] \in 1 .. made
  BY DEF Typed
<1>2. Own'
  BY <1>1 DEF Own
<1>3. StoppedStay'
  BY DEF StoppedStay
<1> QED
  BY <1>2, <1>3

LEMMA Switching ==
    ASSUME Typed, Own, StoppedStay, UNCHANGED controllers
    PROVE  Own' /\ StoppedStay'
BY Quiet DEF controllers

\* What is true of a request and of a controller does not move with the device.
LEMMA BitratesKept ==
    ASSUME Bitrates, UNCHANGED <<ctl, made, thread, config>>,
           \A j \in jobs' : JobOK(j)'
    PROVE  Bitrates'
BY DEF Bitrates

LEMMA JobsKept ==
    ASSUME Bitrates, clients' = clients
    PROVE  \A j \in jobs : JobOK(j)'
BY DEF Bitrates, JobOK

LEMMA TickInv ==
    ASSUME Invariant, NEW i \in 1 .. made, NEW r \in Regime, Tick(i, r)
    PROVE  Invariant'
<1> DEFINE target == Clamped(Decided(r, ctl[i].bps))
           c == [ctl[i] EXCEPT !.bps = target, !.cool = TRUE]
<1>00. PICK k : k = NewJob("controller", target)
  OBVIOUS
<1>0. /\ Typed /\ Bitrates /\ Own /\ StoppedStay /\ Followed
      /\ UNCHANGED <<made, ctrl, open, thread, config, client, clients, source, late>>
      /\ events' \in 0 .. MaxEvents
  BY BitrateAssumption DEF Invariant, Tick, Arrives, device, Typed
<1>1. ctl[i] \in Controller /\ ctl[i].bps \in Nat
  BY <1>0, ControllerIs DEF Controller
<1>2. target \in Nat /\ Allowed(target)
  BY <1>1, DecidedIs
<1>3. CASE UNCHANGED <<ctl, jobs>>
  <2>1. Typed'
    BY <1>0, <1>3 DEF Typed
  <2>2. Own' /\ StoppedStay'
    BY <1>0, <1>3, Quiet
  <2>3. Bitrates'
    BY <1>0, <1>3, JobsKept, BitratesKept
  <2>4. Followed'
    BY <1>0, <1>3 DEF Followed, Owed
  <2> QED
    BY <2>1, <2>2, <2>3, <2>4 DEF Invariant
<1>4. CASE ~UNCHANGED <<ctl, jobs>>
  <2>1. Room /\ ctl' = [ctl EXCEPT ![i] = c] /\ jobs' = jobs \cup {k}
    <3>1. Room /\ ctl' = [ctl EXCEPT ![i].bps = target, ![i].cool = TRUE] /\ jobs' = jobs \cup {k}
      BY <1>4, <1>00 DEF Tick
    <3>2. ctl \in [1 .. made -> Controller]
      BY <1>0, LenProperties DEF Typed
    <3> QED
      BY <3>1, <3>2
  <2>2. c \in Controller /\ c.p = ctl[i].p /\ c.runs = ctl[i].runs /\ c.bps = target
    BY <1>1, <1>2 DEF Controller
  <2> HIDE DEF c
  <2>3. Sets(i, c)
    BY <1>0, <2>1, <2>2, SetsOne
  <2>4. JobOK(k) /\ k.at = "reconfigure"
    BY <1>0, <1>00, <1>2, <2>1, NewJobIs DEF NewJob
  <2> HIDE DEF target
  <2>5. Typed'
    BY <1>0, <2>1, <2>3, JobsGrow DEF Typed, Sets
  <2>6. Own' /\ StoppedStay'
    <3>1. \A n \in 1 .. made : ctl'[n].p = ctl[n].p /\ ctl'[n].runs = ctl[n].runs
      BY <2>2, <2>3 DEF Sets
    <3> QED
      BY <1>0, <3>1, Quiet
  <2>7. Bitrates'
    <3>1. \A n \in 1 .. made : Allowed(ctl'[n].bps)
      BY <1>0, <1>2, <2>2, <2>3 DEF Sets, Bitrates
    <3>2. \A j \in jobs' : JobOK(j)'
      <4>1. JobOK(k)'
        BY <1>0, <2>4 DEF JobOK
      <4> QED
        BY <1>0, <2>1, <4>1, JobsKept
    <3> QED
      BY <1>0, <3>1, <3>2 DEF Bitrates
  <2>8. Followed'
    BY <1>0, <2>1 DEF Followed, Owed
  <2> QED
    BY <2>5, <2>6, <2>7, <2>8 DEF Invariant
<1> QED
  BY <1>3, <1>4

LEMMA CooldownEndsInv ==
    ASSUME Invariant, NEW i \in 1 .. made, CooldownEnds(i)
    PROVE  Invariant'
<1>0. /\ Typed /\ Bitrates /\ Own /\ StoppedStay /\ Followed
      /\ UNCHANGED <<made, ctrl, open, thread, jobs, config, client, clients,
                     source, late, events>>
  BY DEF Invariant, CooldownEnds, device
<1>1. ctl[i] \in Controller
  BY <1>0, ControllerIs
<1>2. PICK c : c = [ctl[i] EXCEPT !.cool = FALSE]
  OBVIOUS
<1>3. c \in Controller /\ c.p = ctl[i].p /\ c.runs = ctl[i].runs /\ c.bps = ctl[i].bps
  BY <1>1, <1>2 DEF Controller
<1>4. Sets(i, c)
  <2>1. ctl \in [1 .. made -> Controller]
    BY <1>0, LenProperties DEF Typed
  <2>2. ctl' = [ctl EXCEPT ![i] = c]
    BY <1>2, <2>1 DEF CooldownEnds
  <2> QED
    BY <1>0, <1>3, <2>2, SetsOne
<1>5. Typed'
  BY <1>0, <1>4 DEF Typed, Sets
<1>6. Own' /\ StoppedStay'
  <2>1. \A n \in 1 .. made : ctl'[n].p = ctl[n].p /\ ctl'[n].runs = ctl[n].runs
    BY <1>3, <1>4 DEF Sets
  <2> QED
    BY <1>0, <2>1, Quiet
<1>7. Bitrates'
  <2>1. \A n \in 1 .. made : Allowed(ctl'[n].bps)
    BY <1>0, <1>3, <1>4 DEF Sets, Bitrates
  <2>2. \A j \in jobs' : JobOK(j)'
    BY <1>0, JobsKept
  <2> QED
    BY <1>0, <2>1, <2>2 DEF Bitrates
<1>8. Followed'
  BY <1>0 DEF Followed, Owed
<1> QED
  BY <1>5, <1>6, <1>7, <1>8 DEF Invariant

-----------------------------------------------------------------------------
(* The threads that reconfigure.                                             *)

LEMMA OwnerAsksInv ==
    ASSUME Invariant, NEW b \in Wanted, OwnerAsks(b)
    PROVE  Invariant'
<1>1. PICK k : k = NewJob("owner", b)
  OBVIOUS
<1>2. /\ Typed /\ Bitrates /\ Own /\ StoppedStay /\ Followed
      /\ Room /\ jobs' = jobs \cup {k}
      /\ UNCHANGED controllers
      /\ UNCHANGED <<ctl, made, ctrl, open, thread, config, client, clients, source, late>>
      /\ events' \in 0 .. MaxEvents
  BY <1>1, BitrateAssumption DEF Invariant, OwnerAsks, Arrives, controllers, device, Typed
<1>3. JobOK(k)
  <2>1. b \in Nat /\ Allowed(b)
    BY BitrateAssumption DEF Allowed
  <2> QED
    BY <1>1, <1>2, <2>1, NewJobIs
<1>4. Typed'
  BY <1>2, JobsGrow DEF Typed
<1>5. Own' /\ StoppedStay'
  BY <1>2, Switching
<1>6. Bitrates'
  <2>1. JobOK(k)'
    BY <1>2, <1>3 DEF JobOK
  <2>2. \A j \in jobs' : JobOK(j)'
    BY <1>2, <2>1, JobsKept
  <2> QED
    BY <1>2, <2>2, BitratesKept
<1>7. Followed'
  BY <1>2 DEF Followed, Owed
<1> QED
  BY <1>4, <1>5, <1>6, <1>7 DEF Invariant

LEMMA ReconfigureInv ==
    ASSUME Invariant, NEW j \in jobs, Reconfigure(j)
    PROVE  Invariant'
<1>1. PICK k : k = [j EXCEPT !.at = "alive", !.client = client']
  OBVIOUS
<1>2. /\ Typed /\ Bitrates /\ Own /\ StoppedStay /\ Followed
      /\ UNCHANGED controllers
      /\ UNCHANGED <<ctl, made, ctrl, open, thread, source, late, events>>
      /\ config' = j.bps
      /\ jobs' = (jobs \ {j}) \cup {k}
  BY <1>1 DEF Invariant, Reconfigure, Move, controllers
<1>3. /\ JobOK(j) /\ clients \in Nat
      /\ clients' \in Nat /\ clients' >= clients /\ client' \in 0 .. clients'
  BY <1>2 DEF Reconfigure, Bitrates, Typed
<1>4. /\ k \in Job /\ k.n = j.n /\ k.bps = j.bps /\ k.at = "alive" /\ k.client = client'
  <2>1. PICK c : c = client'
    OBVIOUS
  <2>2. c \in Nat /\ j \in Job
    BY <1>3, <2>1 DEF JobOK
  <2>3. k = [j EXCEPT !.at = "alive", !.client = c]
    BY <1>1, <2>1
  <2> QED
    BY <2>1, <2>2, <2>3 DEF Job
<1>5. Typed'
  <2>1. IsFiniteSet(jobs')
    BY <1>2, JobsMove
  <2>2. source' \in [Peer -> 1 .. clients']
    <3>1. source \in [Peer -> 1 .. clients] /\ 1 .. clients \subseteq 1 .. clients'
      BY <1>2, <1>3 DEF Typed
    <3> QED
      BY <1>2, <3>1
  <2> QED
    BY <1>2, <1>3, <2>1, <2>2 DEF Typed
<1>6. Own' /\ StoppedStay'
  BY <1>2, Switching
<1>7. Bitrates'
  <2>1. JobOK(k)'
    BY <1>3, <1>4 DEF JobOK
  <2>2. \A i \in jobs : JobOK(i)'
    BY <1>2, <1>3 DEF Bitrates, JobOK
  <2>3. \A i \in jobs' : JobOK(i)'
    BY <1>2, <2>1, <2>2
  <2>4. Allowed(config')
    BY <1>2, <1>3 DEF JobOK
  <2> QED
    BY <1>2, <2>3, <2>4 DEF Bitrates
<1>8. Followed'
  <2>1. client' # 0 => \A p \in open : Owed(p)'
    BY <1>2, <1>4 DEF Owed
  <2> QED
    BY <1>2, <2>1 DEF Followed
<1> QED
  BY <1>5, <1>6, <1>7, <1>8 DEF Invariant

LEMMA TestAliveInv ==
    ASSUME Invariant, NEW j \in jobs, TestAlive(j)
    PROVE  Invariant'
<1> DEFINE moves == Alive(j.client) /\ Listed # {}
<1>1. PICK k : k = [j EXCEPT !.at = "reattach", !.left = Listed]
  OBVIOUS
<1>2. /\ Typed /\ Bitrates /\ Own /\ StoppedStay /\ Followed
      /\ UNCHANGED controllers
      /\ UNCHANGED <<ctl, made, ctrl, open, thread, config, client, clients, source,
                     late, events>>
      /\ IF moves THEN jobs' = (jobs \ {j}) \cup {k} ELSE jobs' = jobs \ {j}
      /\ j.at = "alive"
  BY <1>1 DEF Invariant, TestAlive, Move, Ends, controllers, device
<1>3. JobOK(j)
  BY <1>2 DEF Bitrates
<1>4. /\ k \in Job /\ k.n = j.n /\ k.bps = j.bps /\ k.at = "reattach" /\ k.client = j.client
      /\ k.left = open
  <2>1. Listed \subseteq Peer /\ Listed = open
    BY <1>2 DEF Typed, Listed
  <2> QED
    BY <1>1, <1>3, <2>1 DEF JobOK, Job
<1>5. Typed'
  <2>1. IsFiniteSet(jobs')
    BY <1>2, JobsMove
  <2> QED
    BY <1>2, <2>1 DEF Typed
<1>6. Own' /\ StoppedStay'
  BY <1>2, Switching
<1>7. Bitrates'
  <2>1. moves => JobOK(k)'
    BY <1>2, <1>3, <1>4 DEF JobOK, Alive
  <2>2. \A i \in jobs' : JobOK(i)'
    BY <1>2, <2>1, JobsKept
  <2> QED
    BY <1>2, <2>2, BitratesKept
<1>8. Followed'
  <2> SUFFICES ASSUME client # 0, NEW p \in open, source[p] # client, p \notin late
               PROVE  Owed(p)'
    BY <1>2 DEF Followed
  <2>1. PICK i \in jobs : i.client = client /\ (i.at = "alive" \/ (i.at = "reattach" /\ p \in i.left))
    BY <1>2 DEF Followed, Owed
  <2>2. CASE i = j
    <3>1. moves
      BY <2>1, <2>2 DEF Alive, Listed
    <3>2. k \in jobs'
      BY <1>2, <3>1
    <3> QED
      BY <1>2, <1>4, <2>1, <2>2, <3>2 DEF Owed
  <2>3. CASE i # j
    BY <1>2, <2>1, <2>3 DEF Owed
  <2> QED
    BY <2>2, <2>3
<1> QED
  BY <1>5, <1>6, <1>7, <1>8 DEF Invariant

LEMMA ReattachInv ==
    ASSUME Invariant, NEW j \in jobs, NEW p \in j.left, Reattach(j, p)
    PROVE  Invariant'
<1>1. PICK k : k = [j EXCEPT !.left = @ \ {p}]
  OBVIOUS
<1>2. /\ Typed /\ Bitrates /\ Own /\ StoppedStay /\ Followed
      /\ UNCHANGED controllers
      /\ UNCHANGED <<ctl, made, ctrl, open, thread, config, client, clients, events>>
      /\ j.at = "reattach"
      /\ IF p \in open
         THEN /\ source' = [source EXCEPT ![p] = j.client]
              /\ late' = IF client # j.client THEN late \cup {p} ELSE late \ {p}
         ELSE source' = source /\ late' = late
      /\ IF j.left = {p} THEN jobs' = jobs \ {j} ELSE jobs' = (jobs \ {j}) \cup {k}
  BY <1>1 DEF Invariant, Reattach, Ends, Move, controllers
<1>3. JobOK(j)
  BY <1>2 DEF Bitrates
<1>4. j.client \in 1 .. clients /\ p \in Peer
  BY <1>2, <1>3 DEF JobOK, Job, Typed
<1>5. /\ k \in Job /\ k.n = j.n /\ k.bps = j.bps /\ k.at = "reattach" /\ k.client = j.client
      /\ k.left = j.left \ {p}
  BY <1>1, <1>2, <1>3 DEF JobOK, Job
<1>6. Typed'
  <2>1. source' \in [Peer -> 1 .. clients]
    BY <1>2, <1>4 DEF Typed
  <2>2. late' \subseteq Peer
    BY <1>2, <1>4 DEF Typed
  <2>3. IsFiniteSet(jobs')
    BY <1>2, JobsMove
  <2> QED
    BY <1>2, <2>1, <2>2, <2>3 DEF Typed
<1>7. Own' /\ StoppedStay'
  BY <1>2, Switching
<1>8. Bitrates'
  <2>1. JobOK(k)'
    BY <1>2, <1>3, <1>5 DEF JobOK
  <2>2. \A i \in jobs' : JobOK(i)'
    BY <1>2, <2>1, JobsKept
  <2> QED
    BY <1>2, <2>2, BitratesKept
<1>9. Followed'
  <2> SUFFICES ASSUME client # 0, NEW o \in open, source'[o] # client, o \notin late'
               PROVE  Owed(o)'
    BY <1>2 DEF Followed
  <2>1. o \in Peer /\ o # p
    BY <1>2, <1>4 DEF Typed
  <2>2. source'[o] = source[o] /\ (o \in late => o \in late')
    BY <1>2, <2>1 DEF Typed
  <2>3. PICK i \in jobs : i.client = client /\ (i.at = "alive" \/ (i.at = "reattach" /\ o \in i.left))
    BY <1>2, <2>2 DEF Followed, Owed
  <2>4. CASE i = j
    <3>1. o \in j.left /\ j.left # {p}
      BY <1>2, <2>1, <2>3, <2>4
    <3>2. k \in jobs' /\ o \in k.left
      BY <1>2, <1>5, <2>1, <3>1
    <3> QED
      BY <1>2, <1>5, <2>3, <2>4, <3>2 DEF Owed
  <2>5. CASE i # j
    BY <1>2, <2>3, <2>5 DEF Owed
  <2> QED
    BY <2>4, <2>5
<1> QED
  BY <1>6, <1>7, <1>8, <1>9 DEF Invariant

-----------------------------------------------------------------------------
(* Switching.                                                                *)

\* Where a request goes between two sessions.
LEMMA LoopsIs ==
    ASSUME NEW q \in Request, RequestOK(q), q.at # "idle", NEW left \in SUBSET Peer
    PROVE  /\ Loops(q, left) \in Request /\ RequestOK(Loops(q, left))
           /\ Loops(q, left).p = NoPeer /\ Loops(q, left).at \notin {"run", "stopping"}
<1>1. CASE left = {}
  BY <1>1 DEF Loops, Idle, Request, RequestOK
<1>2. CASE left # {}
  <2>1. Loops(q, left) = [q EXCEPT !.at = "loop", !.left = left, !.p = NoPeer, !.old = 0]
    BY <1>2 DEF Loops
  <2>2. PICK x : x = [q EXCEPT !.at = "loop", !.left = left, !.p = NoPeer, !.old = 0]
    OBVIOUS
  <2>3. /\ x \in Request /\ x.at = "loop" /\ x.p = NoPeer /\ x.op = q.op
        /\ x.initial = q.initial
    BY <2>2 DEF Request
  <2> QED
    BY <2>1, <2>2, <2>3 DEF RequestOK
<1> QED
  BY <1>1, <1>2

\* A request goes on, and waits for no controller.
LEMMA Begins ==
    ASSUME Invariant, NEW t \in Thread, NEW q \in Request, Turns(t, q),
           RequestOK(q), q.at # "stopping", open' \subseteq open, events' \in 0 .. MaxEvents,
           UNCHANGED <<ctl, made, ctrl, jobs, config, client, clients, source, late>>
    PROVE  Invariant'
<1>0. Typed /\ Bitrates /\ Own /\ StoppedStay /\ Followed
  BY DEF Invariant
<1>1. Typed'
  BY <1>0 DEF Typed, Turns
<1>2. Bitrates'
  <2>1. \A u \in Thread : RequestOK(thread'[u])
    BY <1>0 DEF Turns, Bitrates
  <2>2. \A j \in jobs' : JobOK(j)'
    BY <1>0, JobsKept
  <2> QED
    BY <1>0, <2>1, <2>2 DEF Bitrates
<1>3. Own'
  BY <1>0 DEF Own
<1>4. StoppedStay'
  BY <1>0 DEF StoppedStay, Turns
<1>5. Followed'
  BY <1>0 DEF Followed, Owed
<1> QED
  BY <1>1, <1>2, <1>3, <1>4, <1>5 DEF Invariant

LEMMA ConfigIsNat == ASSUME Invariant PROVE config \in Nat /\ Allowed(config)
BY BitrateAssumption DEF Invariant, Bitrates, Allowed

LEMMA SetAdaptiveInv ==
    ASSUME Invariant, NEW t \in Thread, NEW op \in {"enable", "disable"}, SetAdaptive(t, op)
    PROVE  Invariant'
<1>1. PICK q : q = [Idle EXCEPT !.op = op, !.initial = config]
  OBVIOUS
<1>2. q \in Request /\ q.at = "idle" /\ q.p = NoPeer
  BY <1>1, ConfigIsNat DEF Idle, Request
<1>3. PICK x : x = Loops(q, open)
  OBVIOUS
<1>4. x \in Request /\ RequestOK(x) /\ x.at # "stopping"
  <2>1. open \subseteq Peer
    BY DEF Invariant, Typed
  <2>2. CASE open = {}
    BY <1>3, <2>2 DEF Loops, Idle, Request, RequestOK
  <2>3. CASE open # {}
    <3>1. x = [q EXCEPT !.at = "loop", !.left = open, !.p = NoPeer, !.old = 0]
      BY <1>3, <2>3 DEF Loops
    <3>2. x \in Request /\ x.at = "loop" /\ x.p = NoPeer /\ x.initial = q.initial
      BY <1>2, <2>1, <3>1 DEF Request
    <3>3. q.initial = config
      BY <1>1 DEF Idle
    <3> QED
      BY <3>2, <3>3, ConfigIsNat DEF RequestOK
  <2> QED
    BY <2>2, <2>3
<1>5. Turns(t, x)
  <2>1. Typed /\ thread' = [thread EXCEPT ![t] = x]
    BY <1>1, <1>3 DEF Invariant, SetAdaptive
  <2> QED
    BY <1>4, <2>1, TurnsOne
<1>6. /\ UNCHANGED <<ctl, made, ctrl, jobs, config, client, clients, source, late>>
      /\ open' = open /\ events' \in 0 .. MaxEvents
  BY BitrateAssumption DEF Invariant, Typed, SetAdaptive, Arrives, device
<1> QED
  BY <1>4, <1>5, <1>6, Begins

LEMMA CloseSessionInv ==
    ASSUME Invariant, NEW t \in Thread, NEW p \in Peer, CloseSession(t, p)
    PROVE  Invariant'
<1>1. PICK q : q = [Idle EXCEPT !.at = "run", !.op = "close", !.p = p]
  OBVIOUS
<1>2. q \in Request /\ q.at = "run" /\ q.p = p /\ q.op = "close"
  BY <1>1 DEF Idle, Request
<1>3. RequestOK(q)
  BY <1>2, BitrateAssumption DEF RequestOK
<1>4. Turns(t, q)
  <2>1. Typed /\ thread' = [thread EXCEPT ![t] = q]
    BY <1>1 DEF Invariant, CloseSession
  <2> QED
    BY <1>2, <2>1, TurnsOne
<1>5. /\ UNCHANGED <<ctl, made, ctrl, jobs, config, client, clients, source, late>>
      /\ open' \subseteq open /\ events' \in 0 .. MaxEvents
  BY BitrateAssumption DEF Invariant, Typed, CloseSession, Arrives, device
<1> QED
  BY <1>2, <1>3, <1>4, <1>5, Begins

LEMMA LooksUpInv ==
    ASSUME Invariant, NEW t \in Thread, LooksUp(t)
    PROVE  Invariant'
<1>1. PICK r : r = thread[t]
  OBVIOUS
<1>2. PICK p \in r.left :
        /\ r.at = "loop"
        /\ thread' = [thread EXCEPT ![t] =
             IF p \in open THEN [r EXCEPT !.at = "run", !.left = r.left \ {p}, !.p = p]
             ELSE Loops(r, r.left \ {p})]
        /\ UNCHANGED <<ctl, made, ctrl, open, jobs, device, events>>
  BY <1>1 DEF LooksUp
<1>3. r \in Request /\ RequestOK(r) /\ p \in Peer
  BY <1>1, <1>2 DEF Invariant, Typed, Bitrates, Request
<1>4. PICK x : x = IF p \in open THEN [r EXCEPT !.at = "run", !.left = r.left \ {p}, !.p = p]
                   ELSE Loops(r, r.left \ {p})
  OBVIOUS
<1>5. x \in Request /\ RequestOK(x) /\ x.at # "stopping"
  <2>1. CASE p \in open
    <3>1. x = [r EXCEPT !.at = "run", !.left = r.left \ {p}, !.p = p]
      BY <1>4, <2>1
    <3>2. x \in Request /\ x.at = "run" /\ x.p = p /\ x.op = r.op /\ x.initial = r.initial
      BY <1>3, <3>1 DEF Request
    <3> QED
      BY <1>2, <1>3, <3>2, BitrateAssumption DEF RequestOK
  <2>2. CASE p \notin open
    <3>1. r.left \ {p} \in SUBSET Peer
      BY <1>3 DEF Request
    <3> QED
      BY <1>2, <1>3, <1>4, <2>2, <3>1, LoopsIs
  <2> QED
    BY <2>1, <2>2
<1>6. Turns(t, x)
  BY <1>2, <1>4, <1>5, TurnsOne DEF Invariant
<1>7. /\ UNCHANGED <<ctl, made, ctrl, jobs, config, client, clients, source, late>>
      /\ open' \subseteq open /\ events' \in 0 .. MaxEvents
  BY <1>2 DEF Invariant, Typed, device
<1> QED
  BY <1>5, <1>6, <1>7, Begins

LEMMA StopsOldInv ==
    ASSUME Invariant, NEW t \in Thread, StopsOld(t)
    PROVE  Invariant'
<1>0. Typed /\ Bitrates /\ Own /\ StoppedStay /\ Followed
  BY DEF Invariant
<1>1. PICK i : i = ctrl[thread[t].p]
  OBVIOUS
<1>2. /\ thread[t].at = "run" /\ i # 0
      /\ ctl' = [ctl EXCEPT ![i].runs = FALSE]
      /\ thread' = [thread EXCEPT ![t].at = "stopping", ![t].old = i]
      /\ UNCHANGED <<made, ctrl, open, jobs, config, client, clients, source, late, events>>
  BY <1>1 DEF StopsOld, InPlace, device
<1>3. thread[t] \in Request /\ thread[t].p \in Peer
  BY <1>0, <1>2 DEF Typed, Request, Bitrates, RequestOK
<1>4. i \in 1 .. made
  BY <1>0, <1>1, <1>2, <1>3 DEF Typed
<1>5. ctl[i] \in Controller
  BY <1>0, <1>4, ControllerIs
<1>6. PICK c : c = [ctl[i] EXCEPT !.runs = FALSE]
  OBVIOUS
<1>7. c \in Controller /\ c.p = ctl[i].p /\ ~c.runs /\ c.bps = ctl[i].bps
  BY <1>5, <1>6 DEF Controller
<1>8. Sets(i, c)
  <2>1. ctl \in [1 .. made -> Controller]
    BY <1>0, LenProperties DEF Typed
  <2>2. ctl' = [ctl EXCEPT ![i] = c]
    BY <1>2, <1>4, <1>6, <2>1
  <2> QED
    BY <1>0, <1>4, <1>7, <2>2, SetsOne
<1>9. PICK q : q = [thread[t] EXCEPT !.at = "stopping", !.old = i]
  OBVIOUS
<1>10. q \in Request /\ q.at = "stopping" /\ q.p = thread[t].p /\ q.op = thread[t].op
       /\ q.initial = thread[t].initial /\ q.old = i
  <2>1. i \in Nat
    BY <1>0, <1>4 DEF Typed
  <2> QED
    BY <1>3, <1>9, <2>1 DEF Request
<1>11. Turns(t, q)
  <2>1. thread' = [thread EXCEPT ![t] = q]
    BY <1>0, <1>2, <1>9 DEF Typed
  <2> QED
    BY <1>0, <1>10, <2>1, TurnsOne
<1>12. Typed'
  BY <1>0, <1>2, <1>8, <1>11 DEF Typed, Sets, Turns
<1>13. Bitrates'
  <2>1. \A n \in 1 .. made : Allowed(ctl'[n].bps)
    BY <1>0, <1>7, <1>8 DEF Sets, Bitrates
  <2>2. \A j \in jobs' : JobOK(j)'
    BY <1>0, <1>2, JobsKept
  <2>3. RequestOK(q)
    BY <1>0, <1>2, <1>10 DEF Bitrates, RequestOK
  <2>4. \A u \in Thread : RequestOK(thread'[u])
    BY <1>0, <1>11, <2>3 DEF Turns, Bitrates
  <2> QED
    BY <1>0, <1>2, <2>1, <2>2, <2>4 DEF Bitrates
<1>14. \A n \in 1 .. made : ctl'[n].p = ctl[n].p /\ (ctl'[n].runs => ctl[n].runs)
  BY <1>4, <1>7, <1>8 DEF Sets
<1>15. Own'
  <2>1. \A o \in Peer : ctrl[o] # 0 => ctrl[o] \in 1 .. made
    BY <1>0 DEF Typed
  <2> QED
    BY <1>0, <1>2, <1>14, <2>1 DEF Own
<1>16. StoppedStay'
  <2>1. ~ctl'[i].runs
    BY <1>4, <1>7, <1>8 DEF Sets
  <2> QED
    BY <1>0, <1>2, <1>4, <1>10, <1>11, <1>14, <2>1 DEF StoppedStay, Turns
<1>17. Followed'
  BY <1>0, <1>2 DEF Followed, Owed
<1> QED
  BY <1>12, <1>13, <1>15, <1>16, <1>17 DEF Invariant

\* What the request is once it is done with its session.
LEMMA DoneWith ==
    ASSUME Typed, Bitrates, NEW t \in Thread, thread[t].at # "idle", Finish(t)
    PROVE  \E q \in Request : /\ Turns(t, q) /\ RequestOK(q) /\ q.p = NoPeer
                              /\ q.at \notin {"run", "stopping"}
<1>1. thread[t] \in Request /\ RequestOK(thread[t]) /\ thread[t].left \in SUBSET Peer
  BY DEF Typed, Bitrates, Request
<1>2. PICK q : q = Loops(thread[t], thread[t].left)
  OBVIOUS
<1>3. q \in Request /\ RequestOK(q) /\ q.p = NoPeer /\ q.at \notin {"run", "stopping"}
  BY <1>1, <1>2, LoopsIs
<1>4. thread' = [thread EXCEPT ![t] = q]
  BY <1>2 DEF Finish
<1> QED
  BY <1>3, <1>4, TurnsOne

\* Either a controller is made for the session, or it has none.
LEMMA Replaced ==
    ASSUME Typed, Bitrates, NEW t \in Thread, NEW p \in Peer, p = thread[t].p,
           thread[t].at # "idle", Finish(t)
    PROVE  /\ made' \in 0 .. MaxControllers /\ made <= made'
           /\ ctl' \in Seq(Controller) /\ Len(ctl') = made'
           /\ ctrl' \in [Peer -> 0 .. made']
           /\ \A i \in 1 .. made : ctl'[i] = ctl[i]
           /\ \A i \in 1 .. made' : i \in 1 .. made
                                    \/ /\ ctl'[i].p = p /\ Allowed(ctl'[i].bps)
                                       /\ ctrl'[p] = i /\ thread[t].op = "enable"
           /\ \A o \in Peer : o # p => ctrl'[o] = ctrl[o]
           /\ ctrl'[p] # 0 => ctrl'[p] = made' /\ ctl'[made'].p = p
<1>1. CASE thread[t].op = "enable"
  <2>1. PICK c : c = [p |-> p, bps |-> thread[t].initial, cool |-> FALSE, runs |-> TRUE]
    OBVIOUS
  <2>2. c \in Controller /\ c.p = p /\ Allowed(c.bps)
    BY <1>1, <2>1 DEF Typed, Bitrates, RequestOK, Request, Controller
  <2>3. /\ made < MaxControllers /\ made' = made + 1 /\ ctl' = Append(ctl, c)
        /\ ctrl' = [ctrl EXCEPT ![p] = made']
    BY <1>1, <2>1 DEF Finish
  <2>4. ctl \in Seq(Controller) /\ Len(ctl) = made /\ made \in Nat /\ MaxControllers \in Nat
    BY BitrateAssumption DEF Typed
  <2>5. /\ ctl' \in Seq(Controller) /\ Len(ctl') = made'
        /\ \A i \in 1 .. made : ctl'[i] = ctl[i]
        /\ ctl'[made'] = c
    BY <2>2, <2>3, <2>4, AppendProperties
  <2>6. ctrl' \in [Peer -> 0 .. made'] /\ ctrl'[p] = made'
        /\ \A o \in Peer : o # p => ctrl'[o] = ctrl[o]
    BY <2>3, <2>4 DEF Typed
  <2>7. \A i \in 1 .. made' : i \in 1 .. made \/ i = made'
    BY <2>3, <2>4
  <2>8. \A i \in 1 .. made' : i \in 1 .. made
                              \/ /\ ctl'[i].p = p /\ Allowed(ctl'[i].bps)
                                 /\ ctrl'[p] = i /\ thread[t].op = "enable"
    BY <1>1, <2>2, <2>5, <2>6, <2>7
  <2>9. made' \in 0 .. MaxControllers /\ made <= made'
    BY <2>3, <2>4
  <2>10. ctl'[made'].p = p
    BY <2>2, <2>5
  <2> QED
    BY <2>5, <2>6, <2>8, <2>9, <2>10
<1>2. CASE thread[t].op # "enable"
  <2>1. UNCHANGED <<ctl, made>> /\ ctrl' = [ctrl EXCEPT ![p] = 0]
    BY <1>2 DEF Finish
  <2>2. made' = made /\ ctl' = ctl /\ made \in 0 .. MaxControllers /\ made \in Nat
    BY <2>1, BitrateAssumption DEF Typed
  <2>3. ctrl' \in [Peer -> 0 .. made] /\ ctrl'[p] = 0
        /\ \A o \in Peer : o # p => ctrl'[o] = ctrl[o]
    BY <2>1, <2>2 DEF Typed
  <2>4. ctl \in Seq(Controller) /\ Len(ctl) = made
    BY DEF Typed
  <2> QED
    BY <2>2, <2>3, <2>4
<1> QED
  BY <1>1, <1>2

LEMMA FinishInv ==
    ASSUME Invariant, NEW t \in Thread, thread[t].at \in {"run", "stopping"}, Finish(t),
           UNCHANGED <<open, jobs, device, events>>
    PROVE  Invariant'
<1>0. Typed /\ Bitrates /\ Own /\ StoppedStay /\ Followed
      /\ UNCHANGED <<open, jobs, config, client, clients, source, late, events>>
  BY DEF Invariant, device
<1>1. PICK p \in Peer : p = thread[t].p
  BY <1>0 DEF Typed, Request, Bitrates, RequestOK
<1>2. PICK q \in Request : /\ Turns(t, q) /\ RequestOK(q) /\ q.p = NoPeer
                           /\ q.at \notin {"run", "stopping"}
  BY <1>0, DoneWith
<1>3. /\ made' \in 0 .. MaxControllers /\ made <= made'
      /\ ctl' \in Seq(Controller) /\ Len(ctl') = made'
      /\ ctrl' \in [Peer -> 0 .. made']
      /\ \A i \in 1 .. made : ctl'[i] = ctl[i]
      /\ \A i \in 1 .. made' : i \in 1 .. made \/ (ctl'[i].p = p /\ Allowed(ctl'[i].bps))
      /\ \A o \in Peer : o # p => ctrl'[o] = ctrl[o]
      /\ ctrl'[p] # 0 => ctrl'[p] = made' /\ ctl'[made'].p = p
  BY <1>0, <1>1, Replaced
<1>4. \A o \in Peer : ctrl[o] # 0 => ctrl[o] \in 1 .. made
  BY <1>0 DEF Typed
<1>5. Typed'
  BY <1>0, <1>2, <1>3 DEF Typed, Turns
<1>6. Bitrates'
  <2>1. \A i \in 1 .. made' : Allowed(ctl'[i].bps)
    BY <1>0, <1>3 DEF Bitrates
  <2>2. \A u \in Thread : RequestOK(thread'[u])
    BY <1>0, <1>2 DEF Turns, Bitrates
  <2>3. \A j \in jobs' : JobOK(j)'
    BY <1>0, JobsKept
  <2> QED
    BY <1>0, <2>1, <2>2, <2>3 DEF Bitrates
<1>7. Own'
  BY <1>0, <1>3, <1>4 DEF Own
<1>8. StoppedStay'
  <2>1. 1 .. made \subseteq 1 .. made'
    BY <1>0, <1>3 DEF Typed
  <2> QED
    BY <1>0, <1>2, <1>3, <2>1 DEF StoppedStay, Turns
<1>9. Followed'
  BY <1>0 DEF Followed, Owed
<1> QED
  BY <1>5, <1>6, <1>7, <1>8, <1>9 DEF Invariant

LEMMA SwitchInv ==
    ASSUME Invariant, NEW t \in Thread, Switch(t) \/ Stopped(t)
    PROVE  Invariant'
BY FinishInv DEF Switch, Stopped

-----------------------------------------------------------------------------
(* The invariant and the theorems.                                           *)

LEMMA InitInv == Init => Invariant
<1> SUFFICES ASSUME Init PROVE Invariant
  OBVIOUS
<1>1. Typed
  <2>1. \A t \in Thread : thread[t] \in Request
    BY DEF Init, Idle, Request
  <2>2. ctl \in Seq(Controller) /\ Len(ctl) = 0
    BY EmptySeq DEF Init
  <2>3. \A p \in Peer : ctrl[p] \in 0 .. 0 /\ source[p] \in 1 .. 1
    BY DEF Init
  <2>4. /\ made = 0 /\ open = Peer /\ jobs = {} /\ client = 1 /\ clients = 1
        /\ late = {} /\ events = 0
        /\ ctrl \in [Peer -> 0 .. 0] /\ source \in [Peer -> 1 .. 1]
        /\ thread \in [Thread -> Request]
    BY <2>1, <2>3 DEF Init
  <2>5. 0 \in 0 .. MaxControllers /\ 0 \in 0 .. MaxEvents /\ 1 \in Nat /\ 1 \in 0 .. 1
    BY BitrateAssumption
  <2>6. IsFiniteSet(jobs)
    BY <2>4, FS_EmptySet
  <2> QED
    BY <2>2, <2>4, <2>5, <2>6 DEF Typed
<1>2. Bitrates
  <2>1. Allowed(config)
    BY DEF Init, Initial, Allowed, MIN_BITRATE, MAX_BITRATE
  <2>2. \A t \in Thread : RequestOK(thread[t])
    BY DEF Init, Idle, RequestOK
  <2> QED
    BY <2>1, <2>2 DEF Init, Bitrates
<1>3. StoppedStay
  BY DEF Init, Idle, StoppedStay
<1>4. Own /\ Followed
  BY DEF Init, Own, Followed
<1> QED
  BY <1>1, <1>2, <1>3, <1>4 DEF Invariant

LEMMA StutterInv == ASSUME Invariant, UNCHANGED vars PROVE Invariant'
<1>1. UNCHANGED controllers
      /\ UNCHANGED <<ctl, made, ctrl, open, thread, jobs, config, client, clients,
                     source, late, events>>
  BY DEF vars, controllers
<1>2. Typed /\ Bitrates /\ Own /\ StoppedStay /\ Followed
  BY DEF Invariant
<1>3. Typed' /\ Followed'
  BY <1>1, <1>2 DEF Typed, Followed, Owed
<1>4. Own' /\ StoppedStay'
  BY <1>1, <1>2, Switching
<1>5. Bitrates'
  BY <1>1, <1>2, JobsKept, BitratesKept
<1> QED
  BY <1>3, <1>4, <1>5 DEF Invariant

LEMMA NextInv == ASSUME Invariant, Next PROVE Invariant'
<1>1. ASSUME NEW t \in Thread, \E op \in {"enable", "disable"} : SetAdaptive(t, op)
      PROVE  Invariant'
  BY <1>1, SetAdaptiveInv
<1>2. ASSUME NEW t \in Thread, \E p \in Peer : CloseSession(t, p)
      PROVE  Invariant'
  BY <1>2, CloseSessionInv
<1>3. ASSUME NEW t \in Thread, LooksUp(t) \/ Switch(t) \/ StopsOld(t) \/ Stopped(t)
      PROVE  Invariant'
  BY <1>3, LooksUpInv, SwitchInv, StopsOldInv
<1>4. ASSUME NEW i \in 1 .. made, CooldownEnds(i) \/ \E r \in Regime : Tick(i, r)
      PROVE  Invariant'
  BY <1>4, CooldownEndsInv, TickInv
<1>5. ASSUME NEW b \in Wanted, OwnerAsks(b)
      PROVE  Invariant'
  BY <1>5, OwnerAsksInv
<1>6. ASSUME NEW j \in jobs, Reconfigure(j) \/ TestAlive(j) \/ \E p \in j.left : Reattach(j, p)
      PROVE  Invariant'
  BY <1>6, ReconfigureInv, TestAliveInv, ReattachInv
<1> QED
  BY <1>1, <1>2, <1>3, <1>4, <1>5, <1>6 DEF Next

LEMMA Inductive == Spec => []Invariant
<1>1. Invariant /\ [Next]_vars => Invariant'
  BY NextInv, StutterInv
<1> QED
  BY <1>1, InitInv, PTL DEF Spec

LEMMA InvariantTypes == Invariant => TypeOK
<1> SUFFICES ASSUME Invariant PROVE TypeOK
  OBVIOUS
<1>1. \A p \in Peer : ctrl[p] # 0 => ctrl[p] <= made /\ ctl[ctrl[p]].p = p
  BY DEF Invariant, Typed, Own
<1>2. \A j \in jobs : j \in Job
  BY DEF Invariant, Bitrates, JobOK
<1>3. \A b \in {config} \cup {ctl[i].bps : i \in 1 .. made} :
         b \in Wanted \/ (MIN_BITRATE <= b /\ b <= MAX_BITRATE)
  BY DEF Invariant, Bitrates, Allowed
<1> QED
  BY <1>1, <1>2, <1>3 DEF Invariant, Typed, TypeOK

\* The types; a session's controller is one made for its peer, and every bitrate
\* that is in use was clamped, or is one that the owner asked for.
THEOREM TypeCorrect == Spec => []TypeOK
<1> QED
  BY Inductive, InvariantTypes, PTL

\* When no thread reconfigures, each open peer watches the client in the registry,
\* unless the thread that moved it last moved it to a client replaced meanwhile.
THEOREM PeersDoFollow == Spec => []PeersFollow
<1>1. Invariant => PeersFollow
  BY DEF Invariant, Followed, Owed, PeersFollow
<1> QED
  BY <1>1, Inductive, PTL

-----------------------------------------------------------------------------
(* How a controller is forgotten.                                            *)

\* A close of p that has still to look at the session's controller.
Closing(p) == \E t \in Thread : /\ thread[t].op = "close" /\ thread[t].at = "run"
                                /\ thread[t].p = p

\* A step that forgets a controller no more than before forgets none.
Forgets(i) == Forgotten(i)' /\ ~(i <= made /\ Forgotten(i))
Excused(i) == \E t \in Thread : /\ thread[t].at \in {"run", "stopping"} /\ thread'[t].p # thread[t].p
                                /\ thread[t].p = ctl'[i].p /\ Overtaken(t)

\* A step that keeps the controllers of the sessions, and the closes under way.
LEMMA KeepsAll ==
    ASSUME Invariant, made' = made, ctrl' = ctrl,
           \A i \in 1 .. made : ctl'[i].p = ctl[i].p /\ (ctl'[i].runs => ctl[i].runs),
           \A p \in Peer : p \notin open' /\ ~Closing(p)' =>
              (p \notin open /\ ~Closing(p)) \/ (ctrl[p] # 0 /\ ~ctl'[ctrl[p]].runs),
           NEW i \in 1 .. made'
    PROVE  ~Forgets(i)
<1>1. Typed /\ i \in 1 .. made /\ i <= made
  BY DEF Invariant, Typed
<1>2. ctl[i].p \in Peer
  BY <1>1, ControllerIs DEF Controller
<1> SUFFICES ASSUME Forgotten(i)' PROVE Forgotten(i)
  BY <1>1 DEF Forgets
<1>3. ctl'[i].runs /\ ctl[i].runs /\ ctl'[i].p = ctl[i].p
  BY <1>1 DEF Forgotten
<1>4. CASE ctrl[ctl[i].p] # i
  BY <1>3, <1>4 DEF Forgotten
<1>5. CASE ctrl[ctl[i].p] = i
  <2>1. ctl[i].p \notin open' /\ ~Closing(ctl[i].p)'
    BY <1>3, <1>5 DEF Forgotten, Closing
  <2>2. ctl[i].p \notin open /\ ~Closing(ctl[i].p)
    BY <1>2, <1>3, <1>5, <2>1
  <2> QED
    BY <1>3, <2>2 DEF Forgotten, Closing
<1> QED
  BY <1>4, <1>5

LEMMA FinishForgets ==
    ASSUME Invariant, NEW t \in Thread, Switch(t) \/ Stopped(t),
           NEW i \in 1 .. made', Forgets(i)
    PROVE  Excused(i)
<1>0. /\ Typed /\ Bitrates /\ StoppedStay
      /\ thread[t].at \in {"run", "stopping"} /\ Finish(t) /\ open' = open
  BY DEF Invariant, Switch, Stopped
<1>1. PICK p \in Peer : p = thread[t].p
  BY <1>0 DEF Typed, Request, Bitrates, RequestOK
<1>2. PICK q \in Request : /\ Turns(t, q) /\ q.p = NoPeer /\ q.at \notin {"run", "stopping"}
  BY <1>0, DoneWith
<1>3. /\ \A k \in 1 .. made : ctl'[k] = ctl[k]
      /\ i \in 1 .. made \/ /\ ctl'[i].p = p /\ ctrl'[p] = i /\ thread[t].op = "enable"
      /\ \A o \in Peer : o # p => ctrl'[o] = ctrl[o]
  BY <1>0, <1>1, Replaced
<1>4. thread'[t].p # thread[t].p
  BY <1>1, <1>2, BitrateAssumption DEF Turns
<1>50. PICK o : o = ctl'[i].p
  OBVIOUS
<1>5. ctl'[i].runs /\ (ctrl'[o] # i \/ (o \notin open /\ ~Closing(o)'))
  BY <1>0, <1>50 DEF Forgets, Forgotten, Closing
<1>6. CASE i \in 1 .. made
  <2>1. ctl'[i] = ctl[i] /\ ctl[i].p \in Peer /\ ctl[i].runs /\ i <= made
    BY <1>0, <1>3, <1>5, <1>6, ControllerIs DEF Controller, Typed
  <2>10. o = ctl[i].p /\ o \in Peer
    BY <1>50, <2>1
  <2>2. ctrl[ctl[i].p] = i /\ (ctl[i].p \in open \/ Closing(ctl[i].p))
    BY <2>1 DEF Forgets, Forgotten, Closing
  <2>3. ctl[i].p = p
    <3> SUFFICES ASSUME ctl[i].p # p PROVE FALSE
      OBVIOUS
    <3>1. ctrl'[o] = i
      BY <1>3, <2>2, <2>10
    <3>2. Closing(o) => Closing(o)'
      BY <1>1, <1>2, <2>10 DEF Closing, Turns
    <3> QED
      BY <1>5, <2>2, <2>10, <3>1, <3>2
  <2>4. thread[t].at = "stopping"
    BY <1>0, <1>1, <2>2, <2>3, <1>6 DEF Switch, Stopped, InPlace
  <2>5. thread[t].old # i
    BY <1>0, <2>1, <2>4 DEF StoppedStay
  <2> QED
    BY <1>0, <1>1, <1>4, <2>1, <2>2, <2>3, <2>4, <2>5 DEF Excused, Overtaken
<1>7. CASE i \notin 1 .. made
  <2>1. ctl'[i].p = p /\ ctrl'[p] = i /\ thread[t].op = "enable"
    BY <1>3, <1>7
  <2>2. p \notin open
    BY <1>5, <1>50, <2>1
  <2> QED
    BY <1>0, <1>1, <1>4, <2>1, <2>2 DEF Excused, Overtaken
<1> QED
  BY <1>6, <1>7

LEMMA StepForgets ==
    ASSUME Invariant, [Next]_vars, NEW i \in 1 .. made', Forgets(i)
    PROVE  Excused(i)
<1>0. /\ Typed /\ Bitrates
      /\ \A k \in 1 .. made : ctl[k] \in Controller
  BY ControllerIs DEF Invariant
<1>1. ASSUME NEW t \in Thread, NEW op \in {"enable", "disable"}, SetAdaptive(t, op)
      PROVE  FALSE
  <2>1. thread[t].at = "idle" /\ UNCHANGED <<ctl, made, ctrl, open>>
        /\ \A u \in Thread : u # t => thread'[u] = thread[u]
    BY <1>0, <1>1 DEF SetAdaptive, Typed
  <2>2. \A p \in Peer : Closing(p) => Closing(p)'
    BY <2>1 DEF Closing
  <2> QED
    BY <2>1, <2>2, KeepsAll
<1>2. ASSUME NEW t \in Thread, NEW p \in Peer, CloseSession(t, p)
      PROVE  FALSE
  <2>1. thread[t].at = "idle" /\ UNCHANGED <<ctl, made, ctrl>> /\ open' = open \ {p}
        /\ \A u \in Thread : u # t => thread'[u] = thread[u]
    BY <1>0, <1>2 DEF CloseSession, Typed
  <2>2. \A o \in Peer : Closing(o) => Closing(o)'
    BY <2>1 DEF Closing
  <2>3. Closing(p)'
    <3>1. thread'[t] = [Idle EXCEPT !.at = "run", !.op = "close", !.p = p]
      BY <1>0, <1>2 DEF CloseSession, Typed
    <3>2. thread'[t].op = "close" /\ thread'[t].at = "run" /\ thread'[t].p = p
      BY <3>1 DEF Idle
    <3> QED
      BY <3>2 DEF Closing
  <2> QED
    BY <2>1, <2>2, <2>3, KeepsAll
<1>3. ASSUME NEW t \in Thread, LooksUp(t)
      PROVE  FALSE
  <2>1. thread[t].at = "loop" /\ UNCHANGED <<ctl, made, ctrl, open>>
        /\ \A u \in Thread : u # t => thread'[u] = thread[u]
    BY <1>0, <1>3 DEF LooksUp, Typed
  <2>2. \A p \in Peer : Closing(p) => Closing(p)'
    BY <2>1 DEF Closing
  <2> QED
    BY <2>1, <2>2, KeepsAll
<1>4. ASSUME NEW t \in Thread, StopsOld(t)
      PROVE  FALSE
  <2>1. PICK k : k = ctrl[thread[t].p]
    OBVIOUS
  <2>2. /\ thread[t].at = "run" /\ k # 0
        /\ ctl' = [ctl EXCEPT ![k].runs = FALSE]
        /\ UNCHANGED <<made, ctrl, open>>
        /\ \A u \in Thread : u # t => thread'[u] = thread[u]
    BY <1>0, <1>4, <2>1 DEF StopsOld, InPlace, Typed
  <2>3. thread[t].p \in Peer /\ k \in 1 .. made
    BY <1>0, <2>1, <2>2 DEF Typed, Request, Bitrates, RequestOK
  <2>4. ctl \in [1 .. made -> Controller]
    BY <1>0, LenProperties DEF Typed
  <2>5. \A n \in 1 .. made : /\ ctl'[n].p = ctl[n].p /\ (ctl'[n].runs => ctl[n].runs)
                             /\ n = k => ~ctl'[n].runs
    BY <2>2, <2>3, <2>4 DEF Controller
  <2>6. \A p \in Peer : Closing(p) => Closing(p)' \/ p = thread[t].p
    BY <2>2 DEF Closing
  <2> QED
    BY <2>1, <2>2, <2>3, <2>5, <2>6, KeepsAll
<1>5. ASSUME NEW k \in 1 .. made, CooldownEnds(k) \/ \E r \in Regime : Tick(k, r)
      PROVE  FALSE
  <2>1. UNCHANGED <<made, ctrl, open, thread>>
    BY <1>5 DEF CooldownEnds, Tick
  <2>2. ctl \in [1 .. made -> Controller]
    BY <1>0, LenProperties DEF Typed
  <2>3. \A n \in 1 .. made : ctl'[n].p = ctl[n].p /\ (ctl'[n].runs => ctl[n].runs)
    <3>1. CASE CooldownEnds(k)
      BY <2>2, <3>1 DEF CooldownEnds, Controller
    <3>2. CASE ctl' = ctl
      BY <3>2
    <3>3. CASE \E b : ctl' = [ctl EXCEPT ![k].bps = b, ![k].cool = TRUE]
      BY <2>2, <3>3 DEF Controller
    <3> QED
      BY <1>5, <3>1, <3>2, <3>3 DEF Tick
  <2>4. \A p \in Peer : Closing(p)' = Closing(p)
    BY <2>1 DEF Closing
  <2> QED
    BY <2>1, <2>3, <2>4, KeepsAll
<1>6. ASSUME UNCHANGED controllers PROVE FALSE
  <2>1. UNCHANGED <<ctl, made, ctrl, open, thread>>
    BY <1>6 DEF controllers
  <2>2. \A p \in Peer : Closing(p)' = Closing(p)
    BY <2>1 DEF Closing
  <2> QED
    BY <2>1, <2>2, KeepsAll
<1>7. ASSUME NEW b \in Wanted, OwnerAsks(b) PROVE FALSE
  BY <1>6, <1>7 DEF OwnerAsks
<1>8. ASSUME NEW j \in jobs, Reconfigure(j) \/ TestAlive(j) \/ \E p \in j.left : Reattach(j, p)
      PROVE  FALSE
  BY <1>6, <1>8 DEF Reconfigure, TestAlive, Reattach
<1>9. ASSUME UNCHANGED vars PROVE FALSE
  BY <1>6, <1>9 DEF vars, controllers
<1> QED
  BY <1>1, <1>2, <1>3, <1>4, <1>5, <1>7, <1>8, <1>9, FinishForgets DEF Next

\* A controller that runs is left without a session that would stop it by no enable,
\* disable or close but one that was overtaken: one that waited for another controller
\* than the session has by now, or that enables a session closed under it.
THEOREM ForgottenOneWay == Spec => OneWayToForget
<1>1. ASSUME Invariant, [Next]_vars
      PROVE  \A i \in 1 .. made' : Forgets(i) => Excused(i)
  BY <1>1, StepForgets
<1>2. Invariant /\ [Next]_vars =>
        [\A i \in 1 .. made' : Forgotten(i)' /\ ~(i <= made /\ Forgotten(i)) =>
           \E t \in Thread : /\ thread[t].at \in {"run", "stopping"} /\ thread'[t].p # thread[t].p
                             /\ thread[t].p = ctl'[i].p /\ Overtaken(t)]_vars
  BY <1>1 DEF Forgets, Excused
<1> QED
  BY <1>2, Inductive, PTL DEF Spec, OneWayToForget

-----------------------------------------------------------------------------
(* VideoStream.                                                              *)
(*                                                                           *)
(* Where the packets of a stream are: on the way to the listener, between    *)
(* the listener and the sender, or with the sender.  What the parser made up *)
(* is among them, but has no place in the order.                             *)

\* A frame, and parameter sets, that the device sent.
IsFrame(f) == f.kind \in {"key", "delta"} /\ f.n # Junk
IsParams(f) == f.kind = "config" /\ f.n # Junk

\* What is still to be handled of client c, and what the listeners have pushed.
Upstream(c) == ready[c] \o wire[c]
Line == queue \o soon

\* A frame has a number and a time; parameter sets have no time.  Made is what the
\* parser makes up.
Sent == {f \in Frame : IF IsFrame(f) THEN f.n > 0 /\ f.us > 0
                       ELSE f.us = 0 /\ IF f.n = Junk THEN IsBogus(f) ELSE IsParams(f)}
Made == {f \in Frame : f.n = Junk /\ ~IsBogus(f)}
Parsed == {f \in Sent : ~IsBogus(f)} \cup Made
Coming == Sent \cup Made
Pushed == {p \in Packet : p.n # 0}
Nexts == {{"config"}, {"key"}, {"delta", "key", "config"}}
Encoder == [sent : Nat, bogus : Nat, n : Nat, next : Nexts]
Taken == [c : Client, kind : {"key", "delta"}, n : Nat, params : BOOLEAN, pts : Nat \cup {-1}]
Params == [params : BOOLEAN, key : Nat \cup {Junk}]

StreamTyped ==
    /\ encoder \in [Client -> Encoder]
    /\ encoder[1].sent + encoder[2].sent <= MaxPackets
    /\ wire \in [Client -> Seq(Sent)]
    /\ parser \in [Client -> [torn : BOOLEAN, junk : Nat]]
    /\ parser[1].junk + parser[2].junk <= MaxJunk
    /\ ready \in [Client -> Seq(Parsed)]
    /\ call \in [Client -> Parsed \cup {None}]
    /\ cache \in [Client -> Params]
    /\ running \in [Client -> BOOLEAN]
    /\ listens \in [Client -> BOOLEAN]
    /\ seen \in [Client -> Nat \cup {Junk}]
    /\ attached \in 0 .. 2
    /\ clock \in [offset : Nat, last : Nat \cup {-1}]
    /\ soon \in Seq(Pushed) /\ queue \in Seq(Pushed) /\ Len(queue) <= Cap
    /\ out \in [Client -> Taken]
    /\ lost \in [Client -> SUBSET Nat]

\* A client is not called for before it is attached to, nor after the peer moved on.
Attaching(c) ==
    /\ listens[c] => attached = c
    /\ attached < c => seen[c] = 0 /\ call[c] = None

\* The keyframe of the cache is the one the listener is called with.
Caching(c) ==
    /\ cache[c].key <= encoder[c].n
    /\ call[c].kind = "key" => cache[c].key = call[c].n

InLine(c, n) == \E i \in DOMAIN Line : Line[i].c = c /\ Line[i].n = n
Calling(c, n) == IsFrame(call[c]) /\ call[c].n = n
InUpstream(c, n) == \E i \in DOMAIN Upstream(c) : IsFrame(Upstream(c)[i]) /\ Upstream(c)[i].n = n

\* The numbers rise from the sender back to the device, and so do the times.
LineRises ==
    \A i, j \in DOMAIN Line :
        i < j /\ Line[i].c = Line[j].c
            => /\ Line[i].pts < Line[j].pts
               /\ Line[i].n # Junk /\ Line[j].n # Junk => Line[i].n < Line[j].n

UpstreamRises(c) ==
    \A i, j \in DOMAIN Upstream(c) :
        i < j /\ IsFrame(Upstream(c)[i]) /\ IsFrame(Upstream(c)[j])
            => Upstream(c)[i].n < Upstream(c)[j].n

Follows(c) ==
    \A n \in Nat :
        /\ InLine(c, n) => out[c].n < n /\ n <= encoder[c].n
        /\ Calling(c, n) \/ InUpstream(c, n)
             => /\ out[c].n < n /\ n <= encoder[c].n
                /\ \A k \in Nat : InLine(c, k) => k < n
        /\ InUpstream(c, n) => \A k \in Nat : Calling(c, k) => k < n
        /\ n \in lost[c] \/ n = out[c].n => n <= encoder[c].n

\* Only the bootstrap has time 0, and it is the first packet of its stream.
TimesOK(c) ==
    /\ \A i \in DOMAIN Line :
         Line[i].c = c => /\ out[c].pts < Line[i].pts
                          /\ Line[i].pts = 0 \/ Line[i].pts <= clock.last
    /\ out[c].pts = 0 \/ out[c].pts <= clock.last

\* Nothing is pushed before the gate is open, and then what opened it comes first.
Gate(c) ==
    /\ seen[c] = 0 => out[c] = NonePacket(c) /\ \A i \in DOMAIN Line : Line[i].c # c
    /\ seen[c] <= encoder[c].n
    /\ \A n \in Nat :
         /\ InLine(c, n) => seen[c] <= n
         /\ Calling(c, n) \/ InUpstream(c, n) => seen[c] < n

\* The frame that opened the gate is a keyframe, and a keyframe has its parameter sets.
KeysOK(c) ==
    \A i \in DOMAIN Line :
        Line[i].c = c /\ Line[i].n # Junk
            => /\ Line[i].n = seen[c] => Line[i].kind = "key"
               /\ Line[i].kind = "key" => Line[i].params \/ 0 \in lost[c]

\* They come before the first frame.
ParamsFirst(c) ==
    ~cache[c].params /\ 0 \notin lost[c] =>
        /\ ~IsFrame(call[c])
        /\ \A i \in DOMAIN Upstream(c) :
             IsFrame(Upstream(c)[i]) => \E j \in DOMAIN Upstream(c) : j < i /\ IsParams(Upstream(c)[j])
        /\ encoder[c].next # {"config"} => \E j \in DOMAIN Upstream(c) : IsParams(Upstream(c)[j])

\* No frame is missing behind one that is there, unless it is lost.
UpstreamWhole(c) ==
    \A k, n \in Nat :
        /\ Calling(c, k) \/ InUpstream(c, k)
        /\ k < n /\ n <= encoder[c].n
        => InUpstream(c, n) \/ n \in lost[c]

Due(c, n) == listens[c] \/ \E k \in Nat : n < k /\ (InLine(c, k) \/ Calling(c, k))
Opened(c, n) ==
    \/ 0 < seen[c] /\ seen[c] <= n
    \/ \E k \in Nat : 0 < k /\ k < n /\ (InLine(c, k) \/ k = out[c].n)

Whole(c) ==
    \A n \in Nat :
        Opened(c, n) /\ Due(c, n) /\ n <= encoder[c].n
            => \/ n <= out[c].n \/ n \in lost[c]
               \/ InLine(c, n) \/ Calling(c, n) \/ InUpstream(c, n)

ClientOK(c) ==
    /\ parser[c].torn => wire[c] # <<>>
    /\ Attaching(c) /\ Caching(c)
    /\ UpstreamRises(c) /\ Follows(c)
    /\ TimesOK(c)
    /\ Gate(c) /\ KeysOK(c) /\ ParamsFirst(c)
    /\ UpstreamWhole(c) /\ Whole(c)

StreamInvariant ==
    /\ StreamTyped
    /\ LineRises
    /\ \A c \in Client : ClientOK(c)
-----------------------------------------------------------------------------
(* Two sequences one after the other.                                        *)

LEMMA Concatenated ==
    ASSUME NEW S, NEW q \in Seq(S), NEW s \in Seq(S)
    PROVE  /\ Len(q) \in Nat /\ Len(s) \in Nat
           /\ q \o s \in Seq(S) /\ Len(q \o s) = Len(q) + Len(s)
           /\ DOMAIN (q \o s) = 1 .. Len(q) + Len(s)
           /\ \A i \in 1 .. Len(q) : (q \o s)[i] = q[i]
           /\ \A i \in 1 .. Len(s) : (q \o s)[Len(q) + i] = s[i]
<1>1. Len(q) \in Nat /\ Len(s) \in Nat
  BY LenProperties
<1>2. q \o s \in Seq(S) /\ Len(q \o s) = Len(q) + Len(s)
  BY ConcatProperties
<1>3. \A i \in 1 .. Len(q) + Len(s) :
         (q \o s)[i] = IF i <= Len(q) THEN q[i] ELSE s[i - Len(q)]
  BY <1>2, ConcatProperties
<1>4. \A i \in 1 .. Len(q) : (q \o s)[i] = q[i]
  BY <1>1, <1>3
<1>5. ASSUME NEW i \in 1 .. Len(s)
      PROVE  (q \o s)[Len(q) + i] = s[i]
  <2>1. Len(q) + i \in 1 .. Len(q) + Len(s) /\ ~(Len(q) + i <= Len(q))
        /\ (Len(q) + i) - Len(q) = i
    BY <1>1
  <2> QED
    BY <1>3, <2>1
<1> QED
  BY <1>1, <1>2, <1>4, <1>5, LenProperties

LEMMA HeadAndTail ==
    ASSUME NEW S, NEW s \in Seq(S), s # <<>>
    PROVE  /\ Len(s) \in Nat \ {0} /\ DOMAIN s = 1 .. Len(s)
           /\ Head(s) = s[1] /\ Head(s) \in S
           /\ Tail(s) \in Seq(S) /\ Len(Tail(s)) = Len(s) - 1
           /\ DOMAIN Tail(s) = 1 .. Len(s) - 1
           /\ \A i \in 1 .. Len(s) - 1 : Tail(s)[i] = s[i + 1]
  BY HeadTailProperties, EmptySeq, LenProperties

LEMMA ConcatTail ==
    ASSUME NEW S, NEW q \in Seq(S), NEW s \in Seq(S), q # <<>>
    PROVE  /\ q \o s # <<>> /\ Head(q \o s) = Head(q)
           /\ Tail(q) \o s = Tail(q \o s)
<1> DEFINE a == Tail(q) \o s
           b == Tail(q \o s)
<1>1. /\ q \o s \in Seq(S) /\ Len(q) \in Nat \ {0} /\ Len(s) \in Nat
      /\ Len(q \o s) = Len(q) + Len(s)
  BY Concatenated, HeadAndTail
<1>2. q \o s # <<>>
  BY <1>1, EmptySeq
<1>3. Tail(q) \in Seq(S) /\ Len(Tail(q)) = Len(q) - 1
  BY HeadAndTail
<1>4. a \in Seq(S) /\ Len(a) = Len(q) - 1 + Len(s)
  BY <1>3, Concatenated
<1>5. b \in Seq(S) /\ Len(b) = Len(q) + Len(s) - 1
  BY <1>1, <1>2, HeadAndTail
<1>6. ASSUME NEW i \in 1 .. Len(a)
      PROVE  a[i] = b[i]
  <2>1. b[i] = (q \o s)[i + 1]
    BY <1>1, <1>2, <1>4, HeadAndTail
  <2>2. CASE i <= Len(q) - 1
    <3>1. a[i] = Tail(q)[i] /\ Tail(q)[i] = q[i + 1]
      BY <1>1, <1>3, <1>4, <2>2, Concatenated, HeadAndTail
    <3>2. (q \o s)[i + 1] = q[i + 1]
      BY <1>1, <2>2, Concatenated
    <3> QED
      BY <2>1, <3>1, <3>2
  <2>3. CASE i > Len(q) - 1
    <3> DEFINE j == i - (Len(q) - 1)
    <3>1. j \in 1 .. Len(s) /\ i = Len(Tail(q)) + j
      BY <1>1, <1>3, <1>4, <2>3
    <3>2. a[i] = s[j]
      BY <1>3, <3>1, Concatenated
    <3>3. i + 1 = Len(q) + j
      BY <1>1, <1>4
    <3>4. (q \o s)[i + 1] = s[j]
      BY <3>1, <3>3, Concatenated
    <3> QED
      BY <2>1, <3>2, <3>4
  <2> QED
    BY <1>1, <1>4, <2>2, <2>3
<1>7. a = b
  BY <1>1, <1>4, <1>5, <1>6, SeqEqual
<1>8. Head(q \o s) = Head(q)
  BY <1>1, <1>2, Concatenated, HeadAndTail
<1> QED
  BY <1>2, <1>7, <1>8

\* An element that moves from the one to the other.
LEMMA ConcatMove ==
    ASSUME NEW S, NEW q \in Seq(S), NEW s \in Seq(S), s # <<>>
    PROVE  Append(q, Head(s)) \o Tail(s) = q \o s
<1>1. Head(s) \in S /\ Tail(s) \in Seq(S) /\ <<Head(s)>> \in Seq(S)
  BY HeadAndTail
<1>2. Append(q, Head(s)) = q \o <<Head(s)>>
  BY <1>1, AppendIsConcat
<1>3. <<Head(s)>> \o Tail(s) = s
  BY HeadAndTail, HeadTailProperties
<1> QED
  BY <1>1, <1>2, <1>3, ConcatAssociative

LEMMA ConcatAppend ==
    ASSUME NEW S, NEW q \in Seq(S), NEW s \in Seq(S), NEW e \in S
    PROVE  q \o Append(s, e) = Append(q \o s, e)
<1>1. <<e>> \in Seq(S) /\ q \o s \in Seq(S)
  BY Concatenated
<1>2. Append(s, e) = s \o <<e>> /\ Append(q \o s, e) = (q \o s) \o <<e>>
  BY <1>1, AppendIsConcat
<1> QED
  BY <1>1, <1>2, ConcatAssociative

-----------------------------------------------------------------------------

(* How the steps change what is in line.                                     *)

LEMMA LineIs ==
    ASSUME StreamTyped
    PROVE  /\ Line \in Seq(Pushed) /\ Len(Line) \in Nat /\ DOMAIN Line = 1 .. Len(Line)
           /\ \A i \in DOMAIN Line : Line[i] \in Pushed
<1>1. queue \in Seq(Pushed) /\ soon \in Seq(Pushed)
  BY DEF StreamTyped
<1>2. Line \in Seq(Pushed)
  BY <1>1, Concatenated DEF Line
<1> QED
  BY <1>2, LenProperties, ElementOfSeq

\* The packet p comes after those in line.
Joins(p) == p \in Pushed /\ Line \in Seq(Pushed) /\ Line' = Append(Line, p)

\* The first packet in line leaves it.
Leaves == Line # <<>> /\ Line \in Seq(Pushed) /\ Line' = Tail(Line)

LEMMA LinePushed ==
    ASSUME StreamTyped, NEW p \in Pushed, soon' = Append(soon, p), queue' = queue
    PROVE  Joins(p)
<1>1. queue \in Seq(Pushed) /\ soon \in Seq(Pushed)
  BY DEF StreamTyped
<1>2. Line' = queue \o Append(soon, p)
  BY DEF Line
<1> QED
  BY <1>1, <1>2, ConcatAppend, LineIs DEF Line, Joins

LEMMA LineReceived ==
    ASSUME StreamTyped, queue # <<>>, queue' = Tail(queue), soon' = soon
    PROVE  Leaves /\ Head(queue) = Line[1]
<1>1. queue \in Seq(Pushed) /\ soon \in Seq(Pushed)
  BY DEF StreamTyped
<1>2. Line' = Tail(queue) \o soon
  BY DEF Line
<1>3. Line # <<>> /\ Head(Line) = Head(queue) /\ Line' = Tail(Line)
  BY <1>1, <1>2, ConcatTail DEF Line
<1> QED
  BY <1>3, LineIs, HeadAndTail DEF Leaves

\* The loop takes the first packet of soon: the line is the same, or its first packet
\* is evicted.
LEMMA LineEnqueued ==
    ASSUME StreamTyped, soon # <<>>, soon' = Tail(soon), queue' = Enqueued(queue, Head(soon))
    PROVE  /\ soon' \in Seq(Pushed) /\ queue' \in Seq(Pushed) /\ Len(queue') <= Cap
           /\ Len(queue) # Cap => Line' = Line
           /\ Len(queue) = Cap => Leaves /\ Head(queue) = Line[1]
<1>1. queue \in Seq(Pushed) /\ soon \in Seq(Pushed) /\ Len(queue) <= Cap /\ Cap \in Nat \ {0}
      /\ Len(queue) \in Nat
  BY StreamAssumption, LenProperties DEF StreamTyped
<1>2. Head(soon) \in Pushed /\ soon' \in Seq(Pushed)
  BY <1>1, HeadAndTail
<1>3. Line' = queue' \o soon'
  BY DEF Line
<1>4. CASE Len(queue) # Cap
  <2>1. queue' = Append(queue, Head(soon))
    BY <1>4 DEF Enqueued
  <2>2. Append(queue, Head(soon)) \in Seq(Pushed)
        /\ Len(Append(queue, Head(soon))) = Len(queue) + 1
    BY <1>1, <1>2, AppendProperties
  <2>3. Line' = Line
    BY <1>1, <1>3, <2>1, ConcatMove DEF Line
  <2> QED
    <3>1. queue' \in Seq(Pushed) /\ Len(queue') = Len(queue) + 1
      BY <2>1, <2>2, Zenon
    <3> QED
      BY <1>1, <1>2, <1>4, <2>3, <3>1
<1>5. CASE Len(queue) = Cap
  <2>1. queue # <<>> /\ queue' = Append(Tail(queue), Head(soon))
    BY <1>1, <1>5, EmptySeq DEF Enqueued
  <2>2. Tail(queue) \in Seq(Pushed) /\ Len(Tail(queue)) = Len(queue) - 1
    BY <1>1, <2>1, HeadAndTail
  <2>3. Append(Tail(queue), Head(soon)) \in Seq(Pushed)
        /\ Len(Append(Tail(queue), Head(soon))) = Len(Tail(queue)) + 1
    BY <1>2, <2>2, AppendProperties
  <2>4. Line' = Tail(queue) \o soon
    BY <1>1, <1>3, <2>1, <2>2, ConcatMove
  <2>5. Line # <<>> /\ Head(Line) = Head(queue) /\ Line' = Tail(Line)
    BY <1>1, <2>1, <2>4, ConcatTail DEF Line
  <2> QED
    <3>1. queue' \in Seq(Pushed) /\ Len(queue') = Len(queue) - 1 + 1
      BY <2>1, <2>2, <2>3, Zenon
    <3>2. Len(queue') <= Cap
      BY <1>1, <1>5, <3>1
    <3>3. Head(queue) = Line[1] /\ Leaves
      BY <2>5, LineIs, HeadAndTail DEF Leaves
    <3> QED
      BY <1>2, <1>5, <3>1, <3>2, <3>3
<1> QED
  BY <1>4, <1>5

LEMMA Joining ==
    ASSUME NEW p, Joins(p)
    PROVE  /\ Len(Line) \in Nat
           /\ DOMAIN Line = 1 .. Len(Line) /\ DOMAIN Line' = 1 .. Len(Line) + 1
           /\ \A i \in DOMAIN Line : Line'[i] = Line[i] /\ Line[i] \in Pushed
           /\ Line'[Len(Line) + 1] = p /\ p \in Pushed
           /\ \A c, n : InLine(c, n)' <=> InLine(c, n) \/ (p.c = c /\ p.n = n)
<1> DEFINE L == Line
           M == Line'
<1>1. /\ Len(L) \in Nat /\ DOMAIN L = 1 .. Len(L) /\ DOMAIN M = 1 .. Len(L) + 1
      /\ \A i \in 1 .. Len(L) : M[i] = L[i] /\ L[i] \in Pushed
      /\ M[Len(L) + 1] = p /\ p \in Pushed
  BY AppendProperties, LenProperties, ElementOfSeq DEF Joins
<1>2. ASSUME NEW c, NEW n
      PROVE  InLine(c, n)' <=> InLine(c, n) \/ (p.c = c /\ p.n = n)
  <2>1. InLine(c, n)' <=> \E i \in DOMAIN M : M[i].c = c /\ M[i].n = n
    BY DEF InLine
  <2>2. InLine(c, n) <=> \E i \in DOMAIN L : L[i].c = c /\ L[i].n = n
    BY DEF InLine
  <2> HIDE DEF L, M
  <2> QED
    BY <1>1, <2>1, <2>2
<1> QED
  BY <1>1, <1>2

LEMMA Leaving ==
    ASSUME Leaves
    PROVE  /\ Len(Line) \in Nat \ {0}
           /\ DOMAIN Line = 1 .. Len(Line) /\ DOMAIN Line' = 1 .. Len(Line) - 1
           /\ \A i \in DOMAIN Line' : Line'[i] = Line[i + 1]
           /\ \A i \in DOMAIN Line : Line[i] \in Pushed
           /\ \A c, n : InLine(c, n) <=> InLine(c, n)' \/ (Line[1].c = c /\ Line[1].n = n)
<1> DEFINE L == Line
           M == Line'
<1>1. /\ Len(L) \in Nat \ {0} /\ DOMAIN L = 1 .. Len(L) /\ DOMAIN M = 1 .. Len(L) - 1
      /\ \A i \in 1 .. Len(L) - 1 : M[i] = L[i + 1]
      /\ \A i \in 1 .. Len(L) : L[i] \in Pushed
  BY HeadAndTail, LenProperties, ElementOfSeq DEF Leaves
<1>2. ASSUME NEW c, NEW n
      PROVE  InLine(c, n) <=> InLine(c, n)' \/ (Line[1].c = c /\ Line[1].n = n)
  <2>1. InLine(c, n)' <=> \E i \in DOMAIN M : M[i].c = c /\ M[i].n = n
    BY DEF InLine
  <2>2. InLine(c, n) <=> \E i \in DOMAIN L : L[i].c = c /\ L[i].n = n
    BY DEF InLine
  <2>3. Line[1] = L[1]
    OBVIOUS
  <2> HIDE DEF L, M
  <2>4. ASSUME InLine(c, n)
        PROVE  InLine(c, n)' \/ (L[1].c = c /\ L[1].n = n)
    <3>1. PICK i \in DOMAIN L : L[i].c = c /\ L[i].n = n
      BY <2>2, <2>4
    <3>2. CASE i = 1
      BY <3>1, <3>2
    <3>3. CASE i # 1
      <4>1. i - 1 \in DOMAIN M /\ M[i - 1] = L[i]
        BY <1>1, <3>3
      <4> QED
        BY <2>1, <3>1, <4>1
    <3> QED
      BY <3>2, <3>3
  <2>5. ASSUME InLine(c, n)' \/ (L[1].c = c /\ L[1].n = n)
        PROVE  InLine(c, n)
    <3>1. CASE L[1].c = c /\ L[1].n = n
      BY <1>1, <2>2, <3>1
    <3>2. CASE InLine(c, n)'
      <4>1. PICK i \in DOMAIN M : M[i].c = c /\ M[i].n = n
        BY <2>1, <3>2
      <4>2. i + 1 \in DOMAIN L /\ M[i] = L[i + 1]
        BY <1>1, <4>1
      <4> QED
        BY <2>2, <4>1, <4>2
    <3> QED
      BY <2>5, <3>1, <3>2
  <2> QED
    BY <2>3, <2>4, <2>5
<1> QED
  BY <1>1, <1>2

-----------------------------------------------------------------------------
(* How the steps change what is upstream.                                    *)
-----------------------------------------------------------------------------
(* How the steps change what is upstream.                                    *)

LEMMA ComingIs ==
    /\ Sent \subseteq Coming /\ Parsed \subseteq Coming /\ Coming \subseteq Frame
    /\ Parsed \subseteq Frame /\ Sent \subseteq Frame
BY DEF Coming, Sent, Made, Parsed

LEMMA UpstreamIs ==
    ASSUME StreamTyped, NEW c \in Client
    PROVE  /\ wire[c] \in Seq(Coming) /\ ready[c] \in Seq(Coming)
           /\ Upstream(c) \in Seq(Coming) /\ Len(Upstream(c)) \in Nat
           /\ DOMAIN Upstream(c) = 1 .. Len(Upstream(c))
           /\ \A i \in DOMAIN Upstream(c) : Upstream(c)[i] \in Coming
<1>1. wire[c] \in Seq(Sent) /\ ready[c] \in Seq(Parsed)
  BY DEF StreamTyped
<1>2. wire[c] \in Seq(Coming) /\ ready[c] \in Seq(Coming)
  BY <1>1, ComingIs, SeqMonotonic
<1>3. Upstream(c) \in Seq(Coming)
  BY <1>2, Concatenated DEF Upstream
<1> QED
  BY <1>2, <1>3, LenProperties, ElementOfSeq

\* The packet f comes after those upstream.
Grows(c, f) ==
    f \in Sent /\ Upstream(c) \in Seq(Coming) /\ Upstream(c)' = Append(Upstream(c), f)

\* The first k packets upstream are gone; in their place are j that the parser made up.
Shrinks(c, k, j) ==
    /\ k \in Nat /\ j \in {0, 1} /\ k <= Len(Upstream(c)) /\ Upstream(c) \in Seq(Coming)
    /\ Upstream(c)' \in Seq(Coming) /\ Len(Upstream(c)') = Len(Upstream(c)) - k + j
    /\ j = 1 => Upstream(c)'[1].n = Junk
    /\ \A i \in 1 .. Len(Upstream(c)) - k : Upstream(c)'[i + j] = Upstream(c)[i + k]

\* Those that are gone are lost.
Drop(c, k) ==
    \A i \in 1 .. k : /\ IsFrame(Upstream(c)[i]) => Upstream(c)[i].n \in lost'[c]
                      /\ IsParams(Upstream(c)[i]) => 0 \in lost'[c]

LEMMA UpstreamGrows ==
    ASSUME StreamTyped, NEW c \in Client, NEW f \in Sent,
           ready'[c] = ready[c], wire'[c] = Append(wire[c], f)
    PROVE  Grows(c, f)
<1>1. wire[c] \in Seq(Coming) /\ ready[c] \in Seq(Coming) /\ f \in Coming
  BY UpstreamIs, ComingIs
<1>2. Upstream(c)' = ready[c] \o Append(wire[c], f)
  BY DEF Upstream
<1>3. ready[c] \o Append(wire[c], f) = Append(ready[c] \o wire[c], f)
  <2>1. \A r, w \in Seq(Coming), e \in Coming : r \o Append(w, e) = Append(r \o w, e)
    BY ConcatAppend
  <2> QED
    BY <1>1, <2>1, Zenon
<1>4. ready[c] \o wire[c] = Upstream(c)
  BY DEF Upstream
<1> QED
  BY <1>2, <1>3, <1>4, UpstreamIs DEF Grows

LEMMA UpstreamHandled ==
    ASSUME StreamTyped, NEW c \in Client, ready[c] # <<>>,
           ready'[c] = Tail(ready[c]), wire'[c] = wire[c]
    PROVE  Shrinks(c, 1, 0) /\ Upstream(c) # <<>> /\ Head(ready[c]) = Upstream(c)[1]
<1>1. wire[c] \in Seq(Coming) /\ ready[c] \in Seq(Coming)
  BY UpstreamIs
<1>2. Upstream(c)' = Tail(ready[c]) \o wire[c]
  BY DEF Upstream
<1>3. /\ Upstream(c) # <<>> /\ Head(Upstream(c)) = Head(ready[c])
      /\ Upstream(c)' = Tail(Upstream(c))
  BY <1>1, <1>2, ConcatTail DEF Upstream
<1>4. /\ Len(Upstream(c)) \in Nat \ {0} /\ Head(Upstream(c)) = Upstream(c)[1]
      /\ Upstream(c)' \in Seq(Coming) /\ Len(Upstream(c)') = Len(Upstream(c)) - 1
      /\ \A i \in 1 .. Len(Upstream(c)) - 1 : Upstream(c)'[i] = Upstream(c)[i + 1]
  BY <1>3, UpstreamIs, HeadAndTail
<1> QED
  BY <1>3, <1>4, UpstreamIs DEF Shrinks

LEMMA Sliced ==
    ASSUME NEW S, NEW s \in Seq(S), NEW a \in Nat, NEW b \in Nat, a <= b, b <= Len(s)
    PROVE  /\ SubSeq(s, a + 1, b) \in Seq(S) /\ Len(SubSeq(s, a + 1, b)) = b - a
           /\ DOMAIN SubSeq(s, a + 1, b) = 1 .. b - a
           /\ \A i \in 1 .. b - a : SubSeq(s, a + 1, b)[i] = s[a + i]
<1> DEFINE t == SubSeq(s, a + 1, b)
<1>1. Len(s) \in Nat /\ \A i \in a + 1 .. b : s[i] \in S
  BY LenProperties, ElementOfSeq
<1>2. a + 1 \in Int /\ b \in Int
  OBVIOUS
<1>3. /\ t \in Seq(S) /\ Len(t) = IF a + 1 <= b THEN b - (a + 1) + 1 ELSE 0
      /\ \A i \in 1 .. b - (a + 1) + 1 : t[i] = s[a + 1 + i - 1]
  BY <1>1, <1>2, SubSeqProperties
<1>4. Len(t) = b - a /\ b - (a + 1) + 1 = b - a
  BY <1>3
<1>5. ASSUME NEW i \in 1 .. b - a
      PROVE  t[i] = s[a + i]
  <2>1. t[i] = s[a + 1 + i - 1] /\ a + 1 + i - 1 = a + i
    BY <1>3, <1>4
  <2> QED
    BY <2>1
<1> QED
  BY <1>3, <1>4, <1>5, LenProperties

\* A batch is parsed: it is only closer.
LEMMA UpstreamParsed ==
    ASSUME StreamTyped, NEW c \in Client, ready[c] = <<>>, NEW k \in 1 .. Len(wire[c]),
           ~\E i \in 1 .. k : IsBogus(wire[c][i]),
           ready'[c] = SubSeq(wire[c], 1, k),
           wire'[c] = SubSeq(wire[c], k + 1, Len(wire[c]))
    PROVE  /\ wire'[c] \in Seq(Sent) /\ ready'[c] \in Seq(Parsed)
           /\ Upstream(c)' = Upstream(c)
<1> DEFINE w == wire[c]
           a == SubSeq(w, 1, k)
           b == SubSeq(w, k + 1, Len(w))
<1>1. w \in Seq(Sent) /\ Len(w) \in Nat /\ \A i \in 1 .. Len(w) : w[i] \in Sent
  BY LenProperties, ElementOfSeq DEF StreamTyped
<1>2. b \in Seq(Sent)
  BY <1>1, Sliced
<1>3. a \in Seq(Parsed)
  <2>1. \A i \in 1 .. k : w[i] \in Parsed
    BY <1>1 DEF Parsed
  <2>2. 1 \in Int /\ k \in Int
    OBVIOUS
  <2> QED
    BY <2>1, <2>2, SubSeqProperties
<1>4. Upstream(c) = w
  BY <1>1, ConcatEmptySeq DEF Upstream
<1>5. Upstream(c)' = a \o b
  BY DEF Upstream
<1>6. a \o b = SubSeq(w, 1, Len(w)) /\ SubSeq(w, 1, Len(w)) = w
  BY <1>1, ConcatAdjacentSubSeq, SubSeqFull
<1> QED
  BY <1>2, <1>3, <1>4, <1>5, <1>6

\* k packets are dropped with the buffer ...
LEMMA UpstreamCleared ==
    ASSUME StreamTyped, NEW c \in Client, ready[c] = <<>>, NEW k \in 0 .. Len(wire[c]),
           ready'[c] = ready[c], wire'[c] = SubSeq(wire[c], k + 1, Len(wire[c]))
    PROVE  /\ wire'[c] \in Seq(Sent) /\ Len(wire'[c]) = Len(wire[c]) - k
           /\ Upstream(c) = wire[c] /\ Shrinks(c, k, 0)
<1> DEFINE w == wire[c]
           b == SubSeq(w, k + 1, Len(w))
<1>1. w \in Seq(Sent) /\ w \in Seq(Coming) /\ Len(w) \in Nat
  BY UpstreamIs, LenProperties DEF StreamTyped
<1>2. /\ b \in Seq(Sent) /\ b \in Seq(Coming) /\ Len(b) = Len(w) - k
      /\ \A i \in 1 .. Len(w) - k : b[i] = w[k + i]
  <2>1. k \in Nat /\ Len(w) \in Nat /\ k <= Len(w) /\ Len(w) <= Len(w)
    BY <1>1
  <2>2. /\ b \in Seq(Sent) /\ Len(b) = Len(w) - k
        /\ \A i \in 1 .. Len(w) - k : b[i] = w[k + i]
    BY <1>1, <2>1, Sliced
  <2>3. b \in Seq(Coming)
    BY <1>1, <2>1, Sliced
  <2> QED
    BY <2>2, <2>3
<1>3. Upstream(c) = w /\ Upstream(c)' = b
  BY <1>1, <1>2, ConcatEmptySeq DEF Upstream
<1> QED
  BY <1>1, <1>2, <1>3 DEF Shrinks

\* ... or read as the packet g, with those up to m behind it.
LEMMA UpstreamMisread ==
    ASSUME StreamTyped, NEW c \in Client, ready[c] = <<>>, NEW k \in 0 .. Len(wire[c]),
           NEW m \in k .. Len(wire[c]), ~\E i \in k + 1 .. m : IsBogus(wire[c][i]),
           NEW g \in Made, ready'[c] = <<g>> \o SubSeq(wire[c], k + 1, m),
           wire'[c] = SubSeq(wire[c], m + 1, Len(wire[c]))
    PROVE  /\ wire'[c] \in Seq(Sent) /\ Len(wire'[c]) = Len(wire[c]) - m
           /\ ready'[c] \in Seq(Parsed)
           /\ Upstream(c) = wire[c] /\ Shrinks(c, k, 1)
<1> DEFINE w == wire[c]
           a == SubSeq(w, k + 1, m)
           b == SubSeq(w, m + 1, Len(w))
           r == SubSeq(w, k + 1, Len(w))
<1>1. w \in Seq(Sent) /\ w \in Seq(Coming) /\ Len(w) \in Nat /\ \A i \in 1 .. Len(w) : w[i] \in Sent
  BY UpstreamIs, LenProperties, ElementOfSeq DEF StreamTyped
<1>2. b \in Seq(Sent) /\ b \in Seq(Coming) /\ Len(b) = Len(w) - m
  BY <1>1, Sliced
<1>3. a \in Seq(Parsed) /\ a \in Seq(Coming)
  <2>1. \A i \in k + 1 .. m : w[i] \in Parsed
    BY <1>1 DEF Parsed
  <2>2. k + 1 \in Int /\ m \in Int
    OBVIOUS
  <2>3. a \in Seq(Parsed)
    BY <2>1, <2>2, SubSeqProperties
  <2> QED
    BY <2>3, SeqMonotonic, ComingIs
<1>4. /\ r \in Seq(Coming) /\ Len(r) = Len(w) - k
      /\ \A i \in 1 .. Len(w) - k : r[i] = w[k + i]
  <2>1. k \in Nat /\ k <= Len(w) /\ Len(w) <= Len(w)
    BY <1>1
  <2> HIDE DEF w
  <2> QED
    BY <1>1, <2>1, Sliced
<1>5. a \o b = r
  <2>1. k + 1 \in 1 .. Len(w) + 1 /\ m \in (k + 1) - 1 .. Len(w) /\ Len(w) \in m .. Len(w)
    BY <1>1
  <2> QED
    BY <1>1, <2>1, ConcatAdjacentSubSeq
<1>6. <<g>> \in Seq(Parsed) /\ <<g>> \in Seq(Coming) /\ Len(<<g>>) = 1 /\ <<g>>[1] = g
      /\ g.n = Junk
  <2>1. g \in Parsed /\ g \in Coming /\ g.n = Junk
    BY DEF Parsed, Coming, Made
  <2> QED
    BY <2>1
<1>7. Upstream(c) = w
  BY <1>1, ConcatEmptySeq DEF Upstream
<1>8. Upstream(c)' = <<g>> \o r
  <2>1. Upstream(c)' = (<<g>> \o a) \o b
    BY DEF Upstream
  <2> HIDE DEF a, b, r
  <2>2. (<<g>> \o a) \o b = <<g>> \o (a \o b)
    <3>1. \A x, y, z \in Seq(Coming) : (x \o y) \o z = x \o (y \o z)
      BY ConcatAssociative
    <3> QED
      BY <1>2, <1>3, <1>6, <3>1, Zenon
  <2> QED
    BY <1>5, <2>1, <2>2
<1>9. <<g>> \o a \in Seq(Parsed)
  BY <1>3, <1>6, Concatenated
<1> HIDE DEF a, b, r, w
<1>10. /\ <<g>> \o r \in Seq(Coming) /\ Len(<<g>> \o r) = 1 + Len(r)
       /\ \A i \in 1 .. Len(<<g>>) : (<<g>> \o r)[i] = <<g>>[i]
       /\ \A i \in 1 .. Len(r) : (<<g>> \o r)[Len(<<g>>) + i] = r[i]
  BY <1>4, <1>6, Concatenated
<1>11. /\ (<<g>> \o r)[1].n = Junk /\ Len(<<g>> \o r) = Len(w) - k + 1
       /\ \A i \in 1 .. Len(w) - k : (<<g>> \o r)[i + 1] = w[i + k]
  <2>1. (<<g>> \o r)[1] = g
    BY <1>6, <1>10
  <2>2. \A i \in 1 .. Len(w) - k : 1 + i = i + 1 /\ k + i = i + k
    BY <1>1
  <2>3. \A i \in 1 .. Len(w) - k : (<<g>> \o r)[1 + i] = r[i]
    BY <1>4, <1>6, <1>10
  <2> QED
    BY <1>1, <1>4, <1>6, <1>10, <2>1, <2>2, <2>3
<1>12. Shrinks(c, k, 1)
  <2>1. k <= Len(w)
    BY DEF w
  <2> QED
    BY <1>1, <1>7, <1>8, <1>10, <1>11, <2>1 DEF Shrinks
<1> QED
  BY <1>2, <1>7, <1>9, <1>12 DEF a, b, w

LEMMA UpstreamDecodeFails ==
    ASSUME StreamTyped, NEW c \in Client, ready'[c] = <<>>, wire'[c] = wire[c]
    PROVE  /\ Shrinks(c, Len(ready[c]), 0) /\ Len(ready[c]) \in Nat
           /\ \A i \in 1 .. Len(ready[c]) : Upstream(c)[i] = ready[c][i]
<1>1. wire[c] \in Seq(Coming) /\ ready[c] \in Seq(Coming)
  BY UpstreamIs
<1>2. Upstream(c)' = wire[c]
  BY <1>1, ConcatEmptySeq DEF Upstream
<1> DEFINE k == Len(ready[c])
<1>3. Upstream(c) = ready[c] \o wire[c]
  BY DEF Upstream
<1>4. /\ k \in Nat /\ Len(wire[c]) \in Nat /\ Len(Upstream(c)) = k + Len(wire[c])
      /\ \A i \in 1 .. k : Upstream(c)[i] = ready[c][i]
      /\ \A i \in 1 .. Len(wire[c]) : Upstream(c)[k + i] = wire[c][i]
  <2>1. /\ Len(ready[c]) \in Nat /\ Len(wire[c]) \in Nat
        /\ Len(ready[c] \o wire[c]) = Len(ready[c]) + Len(wire[c])
        /\ \A i \in 1 .. Len(ready[c]) : (ready[c] \o wire[c])[i] = ready[c][i]
        /\ \A i \in 1 .. Len(wire[c]) : (ready[c] \o wire[c])[Len(ready[c]) + i] = wire[c][i]
    <3>1. \A r, w \in Seq(Coming) :
             /\ Len(r) \in Nat /\ Len(w) \in Nat /\ Len(r \o w) = Len(r) + Len(w)
             /\ \A i \in 1 .. Len(r) : (r \o w)[i] = r[i]
             /\ \A i \in 1 .. Len(w) : (r \o w)[Len(r) + i] = w[i]
      BY Concatenated
    <3> QED
      BY <1>1, <3>1, Zenon
  <2> QED
    BY <1>3, <2>1
<1> HIDE DEF k
<1>5. /\ Len(Upstream(c)) - k = Len(wire[c]) /\ k <= Len(Upstream(c))
      /\ \A i \in 1 .. Len(wire[c]) : wire[c][i] = Upstream(c)[i + k]
  BY <1>4
<1>6. Shrinks(c, k, 0)
  BY <1>1, <1>2, <1>4, <1>5, UpstreamIs DEF Shrinks
<1> QED
  BY <1>4, <1>6 DEF k

LEMMA Growing ==
    ASSUME NEW c \in Client, NEW f, Grows(c, f)
    PROVE  /\ Len(Upstream(c)) \in Nat
           /\ DOMAIN Upstream(c) = 1 .. Len(Upstream(c))
           /\ DOMAIN Upstream(c)' = 1 .. Len(Upstream(c)) + 1
           /\ \A i \in DOMAIN Upstream(c) :
                Upstream(c)'[i] = Upstream(c)[i] /\ Upstream(c)[i] \in Coming
           /\ Upstream(c)'[Len(Upstream(c)) + 1] = f
           /\ \A n : InUpstream(c, n)' <=> InUpstream(c, n) \/ (IsFrame(f) /\ f.n = n)
<1> DEFINE L == Upstream(c)
           M == Upstream(c)'
<1>0. f \in Coming
  BY ComingIs DEF Grows
<1>1. /\ Len(L) \in Nat /\ DOMAIN L = 1 .. Len(L) /\ DOMAIN M = 1 .. Len(L) + 1
      /\ \A i \in 1 .. Len(L) : M[i] = L[i] /\ L[i] \in Coming
      /\ M[Len(L) + 1] = f
  BY <1>0, AppendProperties, LenProperties, ElementOfSeq DEF Grows
<1>2. ASSUME NEW n
      PROVE  InUpstream(c, n)' <=> InUpstream(c, n) \/ (IsFrame(f) /\ f.n = n)
  <2>1. InUpstream(c, n)' <=> \E i \in DOMAIN M : IsFrame(M[i]) /\ M[i].n = n
    BY DEF InUpstream, IsFrame
  <2>2. InUpstream(c, n) <=> \E i \in DOMAIN L : IsFrame(L[i]) /\ L[i].n = n
    BY DEF InUpstream
  <2> HIDE DEF L, M
  <2> QED
    BY <1>1, <2>1, <2>2
<1> QED
  BY <1>1, <1>2

LEMMA Shrinking ==
    ASSUME NEW c \in Client, NEW k, NEW j, Shrinks(c, k, j)
    PROVE  /\ Len(Upstream(c)) \in Nat /\ k \in Nat /\ j \in {0, 1}
           /\ DOMAIN Upstream(c) = 1 .. Len(Upstream(c))
           /\ DOMAIN Upstream(c)' = 1 .. Len(Upstream(c)) - k + j
           /\ \A i \in DOMAIN Upstream(c)' :
                IF i <= j THEN Upstream(c)'[i].n = Junk
                ELSE i - j + k \in DOMAIN Upstream(c) /\ Upstream(c)'[i] = Upstream(c)[i - j + k]
           /\ \A i \in DOMAIN Upstream(c) :
                i > k => i - k + j \in DOMAIN Upstream(c)'
                         /\ Upstream(c)'[i - k + j] = Upstream(c)[i]
           /\ \A n : InUpstream(c, n)' => InUpstream(c, n)
           /\ \A n : InUpstream(c, n) => \/ InUpstream(c, n)'
                                         \/ \E i \in 1 .. k : i \in DOMAIN Upstream(c)
                                              /\ IsFrame(Upstream(c)[i]) /\ Upstream(c)[i].n = n
<1> DEFINE L == Upstream(c)
           M == Upstream(c)'
<1>1. /\ Len(L) \in Nat /\ k \in Nat /\ k <= Len(L) /\ j \in {0, 1}
      /\ DOMAIN L = 1 .. Len(L) /\ DOMAIN M = 1 .. Len(L) - k + j
      /\ \A i \in 1 .. Len(L) - k : M[i + j] = L[i + k]
      /\ j = 1 => M[1].n = Junk
  BY LenProperties DEF Shrinks
<1>2. ASSUME NEW i \in DOMAIN M
      PROVE  IF i <= j THEN M[i].n = Junk ELSE i - j + k \in DOMAIN L /\ M[i] = L[i - j + k]
  <2>1. CASE i <= j
    <3>1. i = 1 /\ j = 1
      BY <1>1, <2>1
    <3> QED
      BY <1>1, <3>1
  <2>2. CASE ~(i <= j)
    <3>1. i - j \in 1 .. Len(L) - k /\ (i - j) + j = i
      BY <1>1, <2>2
    <3>2. M[(i - j) + j] = L[(i - j) + k]
      BY <1>1, <3>1
    <3>3. (i - j) + k \in DOMAIN L
      BY <1>1, <3>1
    <3> QED
      BY <2>2, <3>1, <3>2, <3>3
  <2> QED
    BY <2>1, <2>2
<1>3. ASSUME NEW i \in DOMAIN L, i > k
      PROVE  i - k + j \in DOMAIN M /\ M[i - k + j] = L[i]
  <2>1. i - k \in 1 .. Len(L) - k /\ (i - k) + k = i /\ (i - k) + j \in 1 .. Len(L) - k + j
    BY <1>1, <1>3
  <2> QED
    BY <1>1, <2>1
<1>4. ASSUME NEW n
      PROVE  /\ InUpstream(c, n)' => InUpstream(c, n)
             /\ InUpstream(c, n) => \/ InUpstream(c, n)'
                                    \/ \E i \in 1 .. k : i \in DOMAIN L /\ IsFrame(L[i]) /\ L[i].n = n
  <2>1. InUpstream(c, n)' <=> \E i \in DOMAIN M : IsFrame(M[i]) /\ M[i].n = n
    BY DEF InUpstream, IsFrame
  <2>2. InUpstream(c, n) <=> \E i \in DOMAIN L : IsFrame(L[i]) /\ L[i].n = n
    BY DEF InUpstream
  <2> HIDE DEF L, M
  <2>3. ASSUME InUpstream(c, n)'
        PROVE  InUpstream(c, n)
    <3>1. PICK i \in DOMAIN M : IsFrame(M[i]) /\ M[i].n = n
      BY <2>1, <2>3
    <3>2. ~(i <= j)
      BY <1>2, <3>1 DEF IsFrame
    <3> QED
      BY <1>2, <2>2, <3>1, <3>2
  <2>4. ASSUME InUpstream(c, n)
        PROVE  InUpstream(c, n)' \/ \E i \in 1 .. k : i \in DOMAIN L /\ IsFrame(L[i]) /\ L[i].n = n
    <3>1. PICK i \in DOMAIN L : IsFrame(L[i]) /\ L[i].n = n
      BY <2>2, <2>4
    <3>2. CASE i > k
      BY <1>3, <2>1, <3>1, <3>2
    <3>3. CASE ~(i > k)
      BY <1>1, <3>1, <3>3
    <3> QED
      BY <3>2, <3>3
  <2> QED
    BY <2>3, <2>4
<1> QED
  BY <1>1, <1>2, <1>3, <1>4

-----------------------------------------------------------------------------
(* What a step does not disturb.                                             *)

\* The step leaves what is upstream, or drops its beginning.
UpstreamKept(d) ==
    /\ lost[d] \subseteq lost'[d]
    /\ \/ Upstream(d)' = Upstream(d)
       \/ \E k \in Nat, j \in {0, 1} : Shrinks(d, k, j) /\ Drop(d, k)

SameClient(d) ==
    /\ encoder'[d] = encoder[d] /\ call'[d] = call[d] /\ cache'[d] = cache[d]
    /\ seen'[d] = seen[d]

\* What is on the way is so still, or lost.
LEMMA NumbersKept ==
    ASSUME NEW d \in Client, SameClient(d), UpstreamKept(d)
    PROVE  /\ \A n : Calling(d, n)' <=> Calling(d, n)
           /\ \A n : InUpstream(d, n)' => InUpstream(d, n)
           /\ \A n : InUpstream(d, n) => InUpstream(d, n)' \/ n \in lost'[d]
<1>1. \A n : Calling(d, n)' <=> Calling(d, n)
  BY DEF Calling, SameClient, IsFrame
<1>2. ASSUME Upstream(d)' = Upstream(d)
      PROVE  \A n : InUpstream(d, n)' <=> InUpstream(d, n)
  BY <1>2 DEF InUpstream, IsFrame
<1>3. ASSUME NEW k \in Nat, NEW j \in {0, 1}, Shrinks(d, k, j), Drop(d, k)
      PROVE  /\ \A n : InUpstream(d, n)' => InUpstream(d, n)
             /\ \A n : InUpstream(d, n) => InUpstream(d, n)' \/ n \in lost'[d]
  BY <1>3, Shrinking DEF Drop
<1> QED
  BY <1>1, <1>2, <1>3 DEF UpstreamKept

\* The parameter sets still come first where they did.
LEMMA ParamsShrink ==
    ASSUME NEW d \in Client, NEW k, NEW j, Shrinks(d, k, j),
           \A i \in 1 .. k : ~IsParams(Upstream(d)[i]),
           \A i \in DOMAIN Upstream(d) :
             IsFrame(Upstream(d)[i]) => \E m \in DOMAIN Upstream(d) : m < i /\ IsParams(Upstream(d)[m])
    PROVE  /\ \A i \in DOMAIN Upstream(d)' :
                IsFrame(Upstream(d)'[i])
                  => \E m \in DOMAIN Upstream(d)' : m < i /\ IsParams(Upstream(d)'[m])
           /\ (\E m \in DOMAIN Upstream(d) : IsParams(Upstream(d)[m]))
                => \E m \in DOMAIN Upstream(d)' : IsParams(Upstream(d)'[m])
<1> DEFINE L == Upstream(d)
           M == Upstream(d)'
<1>1. /\ Len(L) \in Nat /\ k \in Nat /\ j \in {0, 1}
      /\ DOMAIN L = 1 .. Len(L) /\ DOMAIN M = 1 .. Len(L) - k + j
      /\ \A i \in DOMAIN M : IF i <= j THEN M[i].n = Junk
                             ELSE i - j + k \in DOMAIN L /\ M[i] = L[i - j + k]
      /\ \A i \in DOMAIN L : i > k => i - k + j \in DOMAIN M /\ M[i - k + j] = L[i]
  BY Shrinking
<1>2. \A i \in 1 .. k : ~IsParams(L[i])
  OBVIOUS
<1>3. \A i \in DOMAIN L : IsFrame(L[i]) => \E m \in DOMAIN L : m < i /\ IsParams(L[m])
  OBVIOUS
<1> HIDE DEF L, M
<1>4. ASSUME NEW m \in DOMAIN L, IsParams(L[m])
      PROVE  m > k /\ m - k + j \in DOMAIN M /\ IsParams(M[m - k + j])
  <2>1. m > k
    BY <1>1, <1>2, <1>4
  <2> QED
    BY <1>1, <1>4, <2>1
<1>5. ASSUME NEW i \in DOMAIN M, IsFrame(M[i])
      PROVE  \E m \in DOMAIN M : m < i /\ IsParams(M[m])
  <2>1. ~(i <= j)
    BY <1>1, <1>5 DEF IsFrame
  <2>2. i - j + k \in DOMAIN L /\ M[i] = L[i - j + k]
    BY <1>1, <2>1
  <2>3. PICK m \in DOMAIN L : m < i - j + k /\ IsParams(L[m])
    BY <1>3, <1>5, <2>2
  <2>4. m - k + j < i
    BY <1>1, <2>3
  <2> QED
    BY <1>4, <2>3, <2>4
<1>6. ASSUME NEW m \in DOMAIN L, IsParams(L[m])
      PROVE  \E i \in DOMAIN M : IsParams(M[i])
  BY <1>4, <1>6
<1> QED
  BY <1>5, <1>6 DEF L, M

LEMMA ParamsKept ==
    ASSUME NEW d \in Client, ParamsFirst(d), UpstreamKept(d), SameClient(d)
    PROVE  ParamsFirst(d)'
<1>1. SUFFICES ASSUME ~cache[d].params, 0 \notin lost'[d]
               PROVE  ParamsFirst(d)'
  BY DEF ParamsFirst, SameClient
<1>2. 0 \notin lost[d]
  BY <1>1 DEF UpstreamKept
<1>3. /\ ~IsFrame(call[d])
      /\ \A i \in DOMAIN Upstream(d) :
           IsFrame(Upstream(d)[i]) => \E j \in DOMAIN Upstream(d) : j < i /\ IsParams(Upstream(d)[j])
      /\ encoder[d].next # {"config"} => \E j \in DOMAIN Upstream(d) : IsParams(Upstream(d)[j])
  BY <1>1, <1>2 DEF ParamsFirst
<1>4. CASE Upstream(d)' = Upstream(d)
  BY <1>1, <1>2, <1>3, <1>4 DEF ParamsFirst, SameClient, IsFrame, IsParams
<1>5. ASSUME NEW k \in Nat, NEW j \in {0, 1}, Shrinks(d, k, j), Drop(d, k)
      PROVE  ParamsFirst(d)'
  <2>1. \A i \in 1 .. k : ~IsParams(Upstream(d)[i])
    BY <1>1, <1>5 DEF Drop
  <2>2. /\ \A i \in DOMAIN Upstream(d)' :
             IsFrame(Upstream(d)'[i])
               => \E m \in DOMAIN Upstream(d)' : m < i /\ IsParams(Upstream(d)'[m])
        /\ (\E m \in DOMAIN Upstream(d) : IsParams(Upstream(d)[m]))
             => \E m \in DOMAIN Upstream(d)' : IsParams(Upstream(d)'[m])
    BY <1>3, <1>5, <2>1, ParamsShrink
  <2> QED
    BY <1>3, <2>2 DEF ParamsFirst, SameClient, IsFrame, IsParams
<1> QED
  BY <1>4, <1>5 DEF UpstreamKept

LEMMA RisesShrink ==
    ASSUME NEW d \in Client, UpstreamRises(d), NEW k, NEW j, Shrinks(d, k, j)
    PROVE  UpstreamRises(d)'
<1> DEFINE L == Upstream(d)
           M == Upstream(d)'
<1>1. /\ Len(L) \in Nat /\ k \in Nat /\ j \in {0, 1}
      /\ DOMAIN L = 1 .. Len(L) /\ DOMAIN M = 1 .. Len(L) - k + j
      /\ \A i \in DOMAIN M : IF i <= j THEN M[i].n = Junk
                             ELSE i - j + k \in DOMAIN L /\ M[i] = L[i - j + k]
  BY Shrinking
<1>2. \A i, m \in DOMAIN L : i < m /\ IsFrame(L[i]) /\ IsFrame(L[m]) => L[i].n < L[m].n
  BY DEF UpstreamRises
<1>3. UpstreamRises(d)' <=>
         \A i, m \in DOMAIN M : i < m /\ IsFrame(M[i]) /\ IsFrame(M[m]) => M[i].n < M[m].n
  BY DEF UpstreamRises, IsFrame
<1> HIDE DEF L, M
<1>4. ASSUME NEW i \in DOMAIN M, NEW m \in DOMAIN M, i < m, IsFrame(M[i]), IsFrame(M[m])
      PROVE  M[i].n < M[m].n
  <2>1. ~(i <= j) /\ ~(m <= j)
    BY <1>1, <1>4 DEF IsFrame
  <2>2. /\ i - j + k \in DOMAIN L /\ M[i] = L[i - j + k]
        /\ m - j + k \in DOMAIN L /\ M[m] = L[m - j + k]
        /\ i - j + k < m - j + k
    BY <1>1, <1>4, <2>1
  <2> QED
    BY <1>2, <1>4, <2>2
<1> QED
  BY <1>3, <1>4

LEMMA UpstreamRisesKept ==
    ASSUME NEW d \in Client, UpstreamRises(d), UpstreamKept(d)
    PROVE  UpstreamRises(d)'
<1>1. CASE Upstream(d)' = Upstream(d)
  BY <1>1 DEF UpstreamRises, IsFrame
<1> QED
  BY <1>1, RisesShrink DEF UpstreamKept

LEMMA PushedIs ==
    ASSUME NEW p \in Pushed
    PROVE  /\ p.c \in Client /\ p.n \in Nat \cup {Junk} /\ p.n # 0 /\ p.pts \in Nat
           /\ p.params \in BOOLEAN /\ p.kind \in {"key", "delta"} /\ p \in Packet
           /\ p.n # Junk => p.n \in Nat \ {0} /\ p \in Taken
  BY DEF Pushed, Packet, Taken

LEMMA NumbersAre ==
    ASSUME StreamTyped, NEW c \in Client
    PROVE  /\ out[c].n \in Nat /\ out[c].pts \in Nat \cup {-1}
           /\ encoder[c].n \in Nat /\ seen[c] \in Nat \cup {Junk} /\ lost[c] \subseteq Nat
           /\ cache[c].params \in BOOLEAN /\ cache[c].key \in Nat \cup {Junk}
           /\ clock.last \in Int /\ clock.last >= -1
<1>1. out[c] \in Taken /\ encoder[c] \in Encoder /\ cache[c] \in Params
  BY DEF StreamTyped
<1>2. out[c].n \in Nat /\ out[c].pts \in Nat \cup {-1} /\ encoder[c].n \in Nat
  BY <1>1 DEF Taken, Encoder
<1>3. cache[c].params \in BOOLEAN /\ cache[c].key \in Nat \cup {Junk}
  BY <1>1 DEF Params
<1>4. seen[c] \in Nat \cup {Junk} /\ lost[c] \subseteq Nat
      /\ clock.last \in Int /\ clock.last >= -1
  BY DEF StreamTyped
<1> QED
  BY <1>2, <1>3, <1>4

\* Only what was sent is lost.
LostKnown(c) == \A n \in lost[c] : n <= encoder[c].n

\* A step that leaves the line alone.
LEMMA LineSame ==
    ASSUME NEW d \in Client, ClientOK(d), Attaching(d)', SameClient(d), UpstreamKept(d),
           Line' = Line, clock' = clock, out'[d] = out[d], LostKnown(d)',
           parser'[d].torn => wire'[d] # <<>>,
           listens'[d] => listens[d] \/ seen[d] = 0
    PROVE  ClientOK(d)'
<1> USE DEF ClientOK
<1>1. \A n : InLine(d, n)' <=> InLine(d, n)
  BY DEF InLine
<1>2. Caching(d)'
  BY DEF Caching, SameClient
<1>3. UpstreamRises(d)' /\ ParamsFirst(d)'
  BY UpstreamRisesKept, ParamsKept
<1>4. Follows(d)'
  BY <1>1, NumbersKept DEF Follows, SameClient, LostKnown
<1>5. TimesOK(d)'
  BY DEF TimesOK
<1>6. Gate(d)'
  BY <1>1, NumbersKept DEF Gate, SameClient, NonePacket
<1>7. KeysOK(d)'
  BY DEF KeysOK, SameClient, UpstreamKept
<1>8. UpstreamWhole(d)'
  BY NumbersKept DEF UpstreamWhole, SameClient, UpstreamKept
<1>9. Whole(d)'
  <2>1. ASSUME NEW n \in Nat, Opened(d, n)', Due(d, n)'
        PROVE  Opened(d, n) /\ Due(d, n)
    <3>1. Opened(d, n)
      BY <1>1, <2>1 DEF Opened, SameClient
    <3>2. seen[d] # 0
      <4>1. SUFFICES ASSUME seen[d] = 0
                     PROVE  FALSE
        OBVIOUS
      <4>2. out[d].n = 0 /\ \A k : ~InLine(d, k)
        BY <4>1 DEF Gate, NonePacket, InLine
      <4> QED
        BY <3>1, <4>1, <4>2 DEF Opened
    <3> QED
      BY <1>1, <2>1, <3>1, <3>2, NumbersKept DEF Due
  <2> QED
    BY <1>1, <2>1, NumbersKept DEF Whole, SameClient, UpstreamKept
<1> QED
  BY <1>2, <1>3, <1>4, <1>5, <1>6, <1>7, <1>8, <1>9

\* A packet of the other client joins the line.
LEMMA LineJoined ==
    ASSUME StreamTyped, NEW d \in Client, ClientOK(d), Attaching(d)', SameClient(d),
           Upstream(d)' = Upstream(d), UNCHANGED <<out, lost, listens, parser, wire>>,
           NEW p, Joins(p), p.c # d,
           clock'.last \in Int, clock.last <= clock'.last
    PROVE  ClientOK(d)'
<1> USE DEF ClientOK
<1>0. clock.last \in Int /\ out[d].pts \in Int
  BY NumbersAre
<1>1. \A n : InLine(d, n)' <=> InLine(d, n)
  BY Joining
<1>2. UpstreamKept(d)
  BY DEF UpstreamKept
<1>3. Caching(d)'
  BY DEF Caching, SameClient
<1>4. UpstreamRises(d)' /\ ParamsFirst(d)'
  BY <1>2, UpstreamRisesKept, ParamsKept
<1>5. /\ \A n : Calling(d, n)' <=> Calling(d, n)
      /\ \A n : InUpstream(d, n)' <=> InUpstream(d, n)
  BY <1>2, NumbersKept DEF InUpstream, IsFrame
<1>6. Follows(d)' /\ UpstreamWhole(d)'
  BY <1>1, <1>5 DEF Follows, UpstreamWhole, SameClient
<1>7. \A i \in DOMAIN Line' : Line'[i].c = d => i \in DOMAIN Line /\ Line'[i] = Line[i]
  BY Joining
<1>8. Gate(d)'
  BY <1>1, <1>5, <1>7 DEF Gate, SameClient, NonePacket
<1>9. KeysOK(d)'
  BY <1>7 DEF KeysOK, SameClient
<1>10. TimesOK(d)'
  <2>1. ASSUME NEW i \in DOMAIN Line', Line'[i].c = d
        PROVE  /\ out[d].pts < Line'[i].pts
               /\ Line'[i].pts = 0 \/ Line'[i].pts <= clock'.last
    <3>1. i \in DOMAIN Line /\ Line'[i] = Line[i] /\ Line[i] \in Pushed
      BY <1>7, <2>1, Joining
    <3> QED
      BY <1>0, <2>1, <3>1, PushedIs DEF TimesOK
  <2>2. out[d].pts = 0 \/ out[d].pts <= clock'.last
    BY <1>0 DEF TimesOK
  <2> QED
    BY <2>1, <2>2 DEF TimesOK
<1>11. Whole(d)'
  <2>1. ASSUME NEW n \in Nat, Opened(d, n)', Due(d, n)'
        PROVE  Opened(d, n) /\ Due(d, n)
    BY <1>1, <1>5, <2>1 DEF Opened, Due, SameClient
  <2> QED
    BY <1>1, <1>5, <2>1 DEF Whole, SameClient
<1> QED
  BY <1>3, <1>4, <1>6, <1>8, <1>9, <1>10, <1>11

\* The first packet in line goes to the sender, or is evicted; of one that the parser
\* made up, only the time is kept.
LEMMA LineLeft ==
    ASSUME StreamTyped, LineRises, NEW d \in Client, ClientOK(d), Attaching(d)', SameClient(d),
           Upstream(d)' = Upstream(d), UNCHANGED <<listens, clock, parser, wire>>, Leaves,
           lost[d] \subseteq lost'[d], LostKnown(d)',
           \/ out'[d] = out[d] /\ (Line[1].c = d => Line[1].n \in lost'[d] \cup {Junk})
           \/ out'[d].n = out[d].n /\ out'[d].pts = Line[1].pts /\ Line[1].c = d /\ Line[1].n = Junk
           \/ out'[d] = Line[1] /\ Line[1].c = d /\ Line[1].n # Junk
    PROVE  ClientOK(d)'
<1> USE DEF ClientOK
<1>0. /\ Line[1] \in Pushed /\ out[d].pts \in Int /\ out[d].n \in Nat /\ clock.last \in Int
      /\ 1 \in DOMAIN Line /\ encoder[d].n \in Nat /\ seen[d] \in Int
      /\ Line[1].n \in Nat \cup {Junk} /\ Line[1].n # 0 /\ Line[1].pts \in Nat
  <2>1. Line[1] \in Pushed /\ 1 \in DOMAIN Line
    BY Leaving
  <2>2. Line[1].n \in Nat \cup {Junk} /\ Line[1].n # 0 /\ Line[1].pts \in Nat
    BY <2>1, PushedIs
  <2>3. /\ out[d].pts \in Int /\ out[d].n \in Nat /\ clock.last \in Int
        /\ encoder[d].n \in Nat /\ seen[d] \in Int
    BY NumbersAre DEF Junk
  <2> QED
    BY <2>1, <2>2, <2>3
<1>1. \A n : InLine(d, n) <=> InLine(d, n)' \/ (Line[1].c = d /\ Line[1].n = n)
  BY Leaving
<1>2. UpstreamKept(d)
  BY DEF UpstreamKept
<1>3. /\ \A n : Calling(d, n)' <=> Calling(d, n)
      /\ \A n : InUpstream(d, n)' <=> InUpstream(d, n)
  BY <1>2, NumbersKept DEF InUpstream, IsFrame
<1>4. Caching(d)'
  BY DEF Caching, SameClient
<1>5. UpstreamRises(d)' /\ ParamsFirst(d)'
  BY <1>2, UpstreamRisesKept, ParamsKept
<1>6. UpstreamWhole(d)'
  BY <1>3 DEF UpstreamWhole, SameClient
<1>7. \A i \in DOMAIN Line' :
         /\ i + 1 \in DOMAIN Line /\ Line'[i] = Line[i + 1] /\ Line[i + 1] \in Pushed /\ 1 < i + 1
         /\ Line'[i].c = d /\ Line[1].c = d =>
              /\ Line[1].pts < Line'[i].pts
              /\ Line[1].n # Junk /\ Line'[i].n # Junk => Line[1].n < Line'[i].n
  <2>1. ASSUME NEW i \in DOMAIN Line'
        PROVE  /\ i + 1 \in DOMAIN Line /\ Line'[i] = Line[i + 1]
               /\ Line[i + 1] \in Pushed /\ 1 < i + 1
    BY Leaving
  <2> QED
    BY <1>0, <2>1 DEF LineRises
<1>8. \A n \in Nat : InLine(d, n)' => InLine(d, n) /\ (Line[1].c = d => Line[1].n < n)
  <2>1. SUFFICES ASSUME NEW n \in Nat, NEW i \in DOMAIN Line', Line'[i].c = d, Line'[i].n = n,
                        Line[1].c = d
                 PROVE  Line[1].n < n
    BY <1>1 DEF InLine
  <2>2. n # Junk
    BY DEF Junk
  <2>3. CASE Line[1].n = Junk
    BY <2>1, <2>3 DEF Junk
  <2> QED
    BY <1>7, <2>1, <2>2, <2>3
<1>9. Line[1].c = d /\ Line[1].n # Junk =>
        /\ Line[1].n \in Nat /\ InLine(d, Line[1].n)
        /\ out[d].n < Line[1].n /\ Line[1].n <= encoder[d].n
  BY <1>0, <1>1 DEF Follows
<1>10. Follows(d)'
  <2>1. CASE out'[d].n = out[d].n
    BY <1>3, <1>8, <2>1 DEF Follows, SameClient, LostKnown
  <2>2. CASE out'[d] = Line[1] /\ Line[1].c = d /\ Line[1].n # Junk
    <3>1. \A n \in Nat : Calling(d, n) \/ InUpstream(d, n) => Line[1].n < n
      BY <1>9, <2>2 DEF Follows
    <3> QED
      BY <1>3, <1>8, <1>9, <2>2, <3>1 DEF Follows, SameClient, LostKnown
  <2> QED
    BY <2>1, <2>2
<1>11. Gate(d)'
  <2>1. CASE seen[d] = 0
    <3>1. Line[1].c # d
      BY <1>0, <2>1 DEF Gate
    <3>2. out'[d] = out[d]
      BY <3>1
    <3> QED
      BY <1>0, <1>1, <1>3, <1>7, <2>1, <3>2 DEF Gate, SameClient, NonePacket
  <2>2. CASE seen[d] # 0
    BY <1>1, <1>3, <2>2 DEF Gate, SameClient
  <2> QED
    BY <2>1, <2>2
<1>12. KeysOK(d)'
  BY <1>7 DEF KeysOK, SameClient
<1>13. TimesOK(d)'
  <2>1. Line[1].c = d => Line[1].pts = 0 \/ Line[1].pts <= clock.last
    BY <1>0 DEF TimesOK
  <2>2. ASSUME NEW i \in DOMAIN Line', Line'[i].c = d
        PROVE  /\ out'[d].pts < Line'[i].pts
               /\ Line'[i].pts = 0 \/ Line'[i].pts <= clock.last
    <3>1. /\ out[d].pts < Line'[i].pts
          /\ Line'[i].pts = 0 \/ Line'[i].pts <= clock.last
      BY <1>7, <2>2 DEF TimesOK
    <3> QED
      BY <1>7, <2>2, <3>1
  <2>3. out'[d].pts = 0 \/ out'[d].pts <= clock.last
    BY <2>1 DEF TimesOK
  <2> QED
    BY <2>2, <2>3 DEF TimesOK
<1>14. Whole(d)'
  <2>1. SUFFICES ASSUME NEW n \in Nat, Opened(d, n)', Due(d, n)', n <= encoder[d].n
                 PROVE  \/ n <= out'[d].n \/ n \in lost'[d]
                        \/ InLine(d, n)' \/ Calling(d, n)' \/ InUpstream(d, n)'
    BY DEF Whole, SameClient
  <2>2. Due(d, n)
    BY <1>1, <1>3, <2>1 DEF Due
  <2>3. Opened(d, n)
    <3>1. CASE 0 < seen[d] /\ seen[d] <= n
      BY <3>1 DEF Opened
    <3>2. ASSUME NEW k \in Nat, 0 < k, k < n, InLine(d, k)' \/ k = out'[d].n
          PROVE  Opened(d, n)
      <4>1. InLine(d, k) \/ k = out[d].n
        BY <1>1, <3>2
      <4> QED
        BY <3>2, <4>1 DEF Opened
    <3> QED
      BY <2>1, <3>1, <3>2 DEF Opened, SameClient
  <2>4. n <= out[d].n \/ n \in lost[d] \/ InLine(d, n) \/ Calling(d, n) \/ InUpstream(d, n)
    BY <2>1, <2>2, <2>3 DEF Whole
  <2>5. out[d].n <= out'[d].n /\ out'[d].n \in Nat
    BY <1>0, <1>9
  <2>6. CASE n <= out[d].n
    BY <1>0, <2>5, <2>6
  <2>7. CASE InLine(d, n)
    <3>1. n # Junk
      BY DEF Junk
    <3> QED
      BY <1>1, <2>7, <3>1
  <2> QED
    BY <1>3, <2>4, <2>6, <2>7
<1> QED
  BY <1>4, <1>5, <1>6, <1>10, <1>11, <1>12, <1>13, <1>14

LEMMA LeavingRises ==
    ASSUME LineRises, Leaves
    PROVE  LineRises'
<1> DEFINE L == Line
           M == Line'
           Rises(s, i, j) == /\ s[i].pts < s[j].pts
                             /\ s[i].n # Junk /\ s[j].n # Junk => s[i].n < s[j].n
<1>1. /\ \A i \in DOMAIN M : i + 1 \in DOMAIN L /\ M[i] = L[i + 1] /\ i \in Nat
  BY Leaving
<1>2. \A i, j \in DOMAIN L : i < j /\ L[i].c = L[j].c => Rises(L, i, j)
  BY DEF LineRises
<1>3. LineRises' <=>
        \A i, j \in DOMAIN M : i < j /\ M[i].c = M[j].c => Rises(M, i, j)
  BY DEF LineRises
<1> HIDE DEF L, M
<1>4. ASSUME NEW i \in DOMAIN M, NEW j \in DOMAIN M, i < j
      PROVE  M[i].c = M[j].c => Rises(M, i, j)
  <2>1. i + 1 \in DOMAIN L /\ j + 1 \in DOMAIN L /\ i + 1 < j + 1 /\ M[i] = L[i + 1] /\ M[j] = L[j + 1]
    BY <1>1, <1>4
  <2> QED
    BY <1>2, <2>1
<1> QED
  BY <1>3, <1>4

-----------------------------------------------------------------------------
(* The steps of one client: the device sends, the thread handles a packet,   *)
(* the listener pushes it or not.                                            *)

SameLine == UNCHANGED <<Line, out, clock>>

LEMMA Sending ==
    ASSUME StreamTyped, NEW c \in Client, ClientOK(c), NEW f, Grows(c, f), SameLine,
           UNCHANGED <<listens, attached, seen, call, cache, lost>>, wire'[c] # <<>>,
           encoder'[c].n \in Nat,
           encoder'[c].n = IF IsFrame(f) THEN encoder[c].n + 1 ELSE encoder[c].n,
           IsFrame(f) => f.n = encoder'[c].n /\ encoder[c].next # {"config"},
           encoder'[c].next # {"config"} => IsParams(f) \/ encoder[c].next # {"config"}
    PROVE  ClientOK(c)'
<1> USE DEF ClientOK, SameLine
<1> DEFINE L == Upstream(c)
           M == Upstream(c)'
<1>0. /\ encoder[c].n \in Nat /\ cache[c].key \in Int /\ encoder[c].n <= encoder'[c].n
      /\ out[c].n \in Nat /\ seen[c] \in Int /\ lost[c] \subseteq Nat
      /\ IsFrame(f) => f.n \in Nat /\ encoder[c].n < f.n
  BY NumbersAre DEF Junk
<1>1. /\ \A n : InLine(c, n)' <=> InLine(c, n)
      /\ \A n : Calling(c, n)' <=> Calling(c, n)
      /\ \A n : InUpstream(c, n)' <=> InUpstream(c, n) \/ (IsFrame(f) /\ f.n = n)
  BY Growing DEF InLine, Calling, IsFrame
<1>2. /\ Len(L) \in Nat /\ DOMAIN L = 1 .. Len(L) /\ DOMAIN M = 1 .. Len(L) + 1
      /\ \A i \in DOMAIN L : M[i] = L[i] /\ L[i] \in Coming
      /\ M[Len(L) + 1] = f
  BY Growing
<1>3. \A i \in DOMAIN L : IsFrame(L[i]) => L[i].n \in Nat /\ L[i].n <= encoder[c].n
  <2>1. \A i \in DOMAIN L : L[i].n \in Nat \cup {Junk}
    BY <1>2, ComingIs DEF Frame
  <2>2. \A i \in DOMAIN L : IsFrame(L[i]) => InUpstream(c, L[i].n) /\ L[i].n \in Nat
    BY <2>1 DEF InUpstream, IsFrame
  <2> QED
    BY <2>1, <2>2 DEF Follows
<1>4. Attaching(c)' /\ Caching(c)'
  BY <1>0 DEF Attaching, Caching
<1>5. UpstreamRises(c)'
  <2>1. UpstreamRises(c)' <=>
           \A i, j \in DOMAIN M : i < j /\ IsFrame(M[i]) /\ IsFrame(M[j]) => M[i].n < M[j].n
    BY DEF UpstreamRises, IsFrame
  <2>2. \A i, j \in DOMAIN L : i < j /\ IsFrame(L[i]) /\ IsFrame(L[j]) => L[i].n < L[j].n
    BY DEF UpstreamRises
  <2> HIDE DEF L, M
  <2>3. ASSUME NEW i \in DOMAIN M, NEW j \in DOMAIN M, i < j, IsFrame(M[i]), IsFrame(M[j])
        PROVE  M[i].n < M[j].n
    <3>1. i \in DOMAIN L
      BY <1>2, <2>3
    <3>2. CASE j \in DOMAIN L
      BY <1>2, <2>2, <2>3, <3>1, <3>2
    <3>3. CASE j = Len(L) + 1
      BY <1>0, <1>2, <1>3, <2>3, <3>1, <3>3
    <3> QED
      BY <1>2, <3>2, <3>3
  <2> QED
    BY <2>1, <2>3
<1>6. Follows(c)'
  <2>1. /\ \A n \in Nat : InLine(c, n) \/ Calling(c, n) \/ InUpstream(c, n) =>
                            out[c].n < n /\ n <= encoder[c].n
        /\ \A n \in Nat : n \in lost[c] \/ n = out[c].n => n <= encoder[c].n
    BY DEF Follows
  <2>2. IsFrame(f) => out[c].n < f.n
    BY <1>0, <2>1
  <2> QED
    BY <1>0, <1>1, <2>1, <2>2 DEF Follows
<1>7. TimesOK(c)' /\ KeysOK(c)'
  BY DEF TimesOK, KeysOK
<1>8. Gate(c)'
  BY <1>0, <1>1 DEF Gate, NonePacket
<1>9. ParamsFirst(c)'
  <2>1. SUFFICES ASSUME ~cache[c].params, 0 \notin lost[c]
                 PROVE  ParamsFirst(c)'
    BY DEF ParamsFirst
  <2>2. /\ ~IsFrame(call[c])
        /\ \A i \in DOMAIN L : IsFrame(L[i]) => \E j \in DOMAIN L : j < i /\ IsParams(L[j])
        /\ encoder[c].next # {"config"} => \E j \in DOMAIN L : IsParams(L[j])
    BY <2>1 DEF ParamsFirst
  <2>3. ParamsFirst(c)' <=>
          /\ \A i \in DOMAIN M : IsFrame(M[i]) => \E j \in DOMAIN M : j < i /\ IsParams(M[j])
          /\ encoder'[c].next # {"config"} => \E j \in DOMAIN M : IsParams(M[j])
    BY <2>1, <2>2 DEF ParamsFirst, IsFrame, IsParams
  <2> HIDE DEF L, M
  <2>4. ASSUME NEW i \in DOMAIN M, IsFrame(M[i])
        PROVE  \E j \in DOMAIN M : j < i /\ IsParams(M[j])
    <3>1. CASE i \in DOMAIN L
      BY <1>2, <2>2, <2>4, <3>1
    <3>2. CASE i = Len(L) + 1
      BY <1>2, <2>2, <2>4, <3>2
    <3> QED
      BY <1>2, <3>1, <3>2
  <2>5. ASSUME encoder'[c].next # {"config"}
        PROVE  \E j \in DOMAIN M : IsParams(M[j])
    BY <1>2, <2>2, <2>5
  <2> QED
    BY <2>3, <2>4, <2>5
<1>10. \A n \in Nat : n <= encoder'[c].n => n <= encoder[c].n \/ (IsFrame(f) /\ n = f.n)
  BY <1>0
<1>11. UpstreamWhole(c)'
  <2>1. ASSUME NEW k \in Nat, NEW n \in Nat,
               Calling(c, k)' \/ InUpstream(c, k)', k < n, n <= encoder'[c].n
        PROVE  InUpstream(c, n)' \/ n \in lost[c]
    <3>1. CASE n <= encoder[c].n
      <4>1. Calling(c, k) \/ InUpstream(c, k)
        BY <1>0, <1>1, <2>1, <3>1
      <4> QED
        BY <1>1, <2>1, <3>1, <4>1 DEF UpstreamWhole
    <3>2. CASE IsFrame(f) /\ n = f.n
      BY <1>1, <3>2
    <3> QED
      BY <1>10, <2>1, <3>1, <3>2
  <2> QED
    BY <2>1 DEF UpstreamWhole
<1>12. Whole(c)'
  <2>1. ASSUME NEW n \in Nat, Opened(c, n)', Due(c, n)', n <= encoder'[c].n
        PROVE  n <= out[c].n \/ n \in lost[c] \/ InLine(c, n)' \/ Calling(c, n)' \/ InUpstream(c, n)'
    <3>1. CASE n <= encoder[c].n
      <4>1. Opened(c, n) /\ Due(c, n)
        BY <1>1, <2>1 DEF Due, Opened
      <4>2. n <= out[c].n \/ n \in lost[c] \/ InLine(c, n) \/ Calling(c, n) \/ InUpstream(c, n)
        BY <2>1, <3>1, <4>1 DEF Whole
      <4> QED
        BY <1>1, <4>2
    <3>2. CASE IsFrame(f) /\ n = f.n
      BY <1>1, <3>2
    <3> QED
      BY <1>10, <2>1, <3>1, <3>2
  <2> QED
    BY <2>1 DEF Whole
<1> QED
  BY <1>4, <1>5, <1>6, <1>7, <1>8, <1>9, <1>11, <1>12

LEMMA ParsedIs ==
    ASSUME NEW f \in Parsed
    PROVE  /\ f \in Coming /\ f.n \in Nat \cup {Junk} /\ f.us \in Nat
           /\ IsFrame(f) => f.n \in Nat \ {0} /\ f.us > 0 /\ ~IsConfig(f)
                            /\ (IsKey(f) <=> f.kind = "key")
           /\ IsFrame(f) \/ IsParams(f) \/ f.n = Junk
           /\ IsParams(f) => ~IsFrame(f) /\ ~IsKey(f) /\ f.us = 0 /\ IsConfig(f) /\ f.kind # "key"
           /\ f # None
<1>1. f \in Frame /\ f \in Coming
  BY ComingIs
<1>2. f.n \in Nat \cup {Junk} /\ f.us \in Nat
  BY <1>1 DEF Frame
<1>3. f \in Sent \/ f \in Made
  BY DEF Parsed
<1>4. IsFrame(f) => f.n # Junk /\ f.n > 0 /\ f.us > 0
  BY <1>3 DEF Sent, Made, IsFrame
<1>5. IsFrame(f) \/ IsParams(f) \/ f.n = Junk
  BY <1>3 DEF Sent, Made
<1>6. IsParams(f) => ~IsFrame(f) /\ f.us = 0
  BY <1>3 DEF Sent, Made, IsFrame, IsParams
<1>7. f # None
  BY <1>5 DEF None, IsFrame, IsParams, Junk
<1> QED
  BY <1>1, <1>2, <1>4, <1>5, <1>6, <1>7 DEF IsFrame, IsParams, IsKey, IsConfig, Junk

LEMMA NoneIs == ~IsFrame(None) /\ None.us = 0 /\ None.n = 0 /\ None.kind = "none"
  BY DEF None, IsFrame

\* The thread takes a packet from its batch: the cache first, then the listener.
LEMMA Handling ==
    ASSUME StreamTyped, NEW c \in Client, ClientOK(c), SameLine, Shrinks(c, 1, 0),
           UNCHANGED <<listens, attached, seen, lost, encoder, parser, wire>>,
           NEW f \in Parsed, f = Upstream(c)[1], Upstream(c) # <<>>, call[c] = None,
           cache'[c].params \in Found(cache[c].params, f),
           cache'[c].key = IF f.kind = "key" THEN f.n ELSE cache[c].key,
           call'[c] = IF listens[c] THEN f ELSE None
    PROVE  ClientOK(c)'
<1> USE DEF ClientOK, SameLine
<1> DEFINE L == Upstream(c)
           M == Upstream(c)'
<1>0. /\ encoder[c].n \in Nat /\ out[c].n \in Nat /\ cache[c].params \in BOOLEAN
      /\ f.n \in Nat \cup {Junk} /\ (IsFrame(f) => f.n \in Nat \ {0})
      /\ f.kind = "key" => IsFrame(f) \/ f.n = Junk
  BY NumbersAre, ParsedIs
<1>1. /\ Len(L) \in Nat \ {0} /\ DOMAIN L = 1 .. Len(L) /\ DOMAIN M = 1 .. Len(L) - 1
      /\ \A i \in DOMAIN M : i + 1 \in DOMAIN L /\ M[i] = L[i + 1]
  <2>1. Len(L) \in Nat \ {0}
    BY UpstreamIs, EmptySeq
  <2>2. /\ DOMAIN L = 1 .. Len(L) /\ DOMAIN M = 1 .. Len(L) - 1 + 0
        /\ \A i \in DOMAIN M : IF i <= 0 THEN M[i].n = Junk
                               ELSE i - 0 + 1 \in DOMAIN L /\ M[i] = L[i - 0 + 1]
    BY Shrinking
  <2> HIDE DEF L, M
  <2>3. DOMAIN M = 1 .. Len(L) - 1 /\ \A i \in DOMAIN M : ~(i <= 0) /\ i - 0 + 1 = i + 1
    BY <2>1, <2>2
  <2> QED
    BY <2>1, <2>2, <2>3
<1>2. InUpstream(c, f.n) \/ ~IsFrame(f)
  BY <1>1 DEF InUpstream
<1>3. /\ \A n : InLine(c, n)' <=> InLine(c, n)
      /\ \A n : ~Calling(c, n)
      /\ \A n : Calling(c, n)' <=> listens[c] /\ IsFrame(f) /\ f.n = n
      /\ \A n : InUpstream(c, n) <=> InUpstream(c, n)' \/ (IsFrame(f) /\ f.n = n)
  <2>1. \A n : InUpstream(c, n)' => InUpstream(c, n)
    BY Shrinking
  <2>2. \A n : InUpstream(c, n) => \/ InUpstream(c, n)'
                                   \/ \E i \in 1 .. 1 : IsFrame(L[i]) /\ L[i].n = n
    BY Shrinking
  <2>3. \A i \in 1 .. 1 : L[i] = f
    OBVIOUS
  <2>4. \A n : InUpstream(c, n) <=> InUpstream(c, n)' \/ (IsFrame(f) /\ f.n = n)
    BY <1>2, <2>1, <2>2, <2>3
  <2> QED
    BY <2>4, NoneIs DEF InLine, Calling, IsFrame
<1>4. UpstreamRises(c)' /\ \A n : InUpstream(c, n)' /\ IsFrame(f) => f.n < n
  <2>1. UpstreamRises(c)'
    BY RisesShrink
  <2>2. \A i, j \in DOMAIN L : i < j /\ IsFrame(L[i]) /\ IsFrame(L[j]) => L[i].n < L[j].n
    BY DEF UpstreamRises
  <2>3. \A n : InUpstream(c, n)' <=> \E i \in DOMAIN M : IsFrame(M[i]) /\ M[i].n = n
    BY DEF InUpstream, IsFrame
  <2>4. f = L[1]
    OBVIOUS
  <2> HIDE DEF L, M
  <2>5. \A i \in DOMAIN M : i + 1 \in DOMAIN L /\ 1 \in DOMAIN L /\ 1 < i + 1
    BY <1>1
  <2>6. ASSUME NEW n, InUpstream(c, n)', IsFrame(f)
        PROVE  f.n < n
    BY <1>1, <2>2, <2>3, <2>4, <2>5, <2>6
  <2> QED
    BY <2>1, <2>6
<1>5. \A n \in Nat : InLine(c, n) \/ InUpstream(c, n) => out[c].n < n /\ n <= encoder[c].n
  BY DEF Follows
<1>6. Attaching(c)'
  BY <1>0 DEF Attaching, Client, StreamTyped
<1>7. Caching(c)'
  <2>1. f.kind = "key" => f.n <= encoder[c].n
    BY <1>0, <1>2, <1>5 DEF Junk
  <2> QED
    BY <2>1, NoneIs DEF Caching
<1>8. Follows(c)'
  <2>1. /\ \A n \in Nat : InUpstream(c, n) => \A k \in Nat : InLine(c, k) => k < n
        /\ \A n \in Nat : n \in lost[c] \/ n = out[c].n => n <= encoder[c].n
    BY DEF Follows
  <2>2. \A n \in Nat : Calling(c, n)' \/ InUpstream(c, n)' => InUpstream(c, n)
    BY <1>3
  <2>3. \A n \in Nat : InUpstream(c, n)' => \A k \in Nat : Calling(c, k)' => k < n
    BY <1>3, <1>4
  <2> QED
    BY <1>3, <1>5, <2>1, <2>2, <2>3 DEF Follows
<1>9. TimesOK(c)' /\ KeysOK(c)'
  BY DEF TimesOK, KeysOK
<1>10. Gate(c)'
  BY <1>3 DEF Gate, NonePacket
<1>11. ParamsFirst(c)'
  <2>1. SUFFICES ASSUME 0 \notin lost[c], ~cache'[c].params
                 PROVE  ParamsFirst(c)'
    BY DEF ParamsFirst
  <2>2. ~cache[c].params /\ ~IsParams(f)
    BY <1>0, <2>1, ParsedIs DEF Found, IsParams
  <2>3. /\ \A i \in DOMAIN L : IsFrame(L[i]) => \E j \in DOMAIN L : j < i /\ IsParams(L[j])
        /\ encoder[c].next # {"config"} => \E j \in DOMAIN L : IsParams(L[j])
    BY <2>1, <2>2 DEF ParamsFirst
  <2>4. \A i \in 1 .. 1 : ~IsParams(L[i])
    BY <2>2
  <2>5. /\ \A i \in DOMAIN M : IsFrame(M[i]) => \E m \in DOMAIN M : m < i /\ IsParams(M[m])
        /\ (\E m \in DOMAIN L : IsParams(L[m])) => \E m \in DOMAIN M : IsParams(M[m])
    BY <2>3, <2>4, ParamsShrink
  <2>6. ~IsFrame(f)
    <3>1. 1 \in DOMAIN L /\ f = L[1] /\ DOMAIN L = 1 .. Len(L)
      BY <1>1
    <3> HIDE DEF L
    <3> QED
      BY <2>3, <3>1
  <2>7. ~IsFrame(call'[c])
    BY <2>6, NoneIs
  <2> QED
    BY <2>3, <2>5, <2>7 DEF ParamsFirst, IsFrame, IsParams
<1>12. UpstreamWhole(c)'
  <2>1. ASSUME NEW k \in Nat, NEW n \in Nat,
               Calling(c, k)' \/ InUpstream(c, k)', k < n, n <= encoder[c].n
        PROVE  InUpstream(c, n)' \/ n \in lost[c]
    <3>1. InUpstream(c, k) /\ (InUpstream(c, n) \/ n \in lost[c])
      BY <1>3, <2>1 DEF UpstreamWhole
    <3>2. IsFrame(f) => f.n = k \/ f.n < k
      BY <1>3, <1>4, <2>1
    <3> QED
      BY <1>0, <1>3, <2>1, <3>1, <3>2
  <2> QED
    BY <2>1 DEF UpstreamWhole
<1>13. Whole(c)'
  <2>1. ASSUME NEW n \in Nat, Opened(c, n)', Due(c, n)', n <= encoder[c].n
        PROVE  n <= out[c].n \/ n \in lost[c] \/ InLine(c, n)' \/ Calling(c, n)' \/ InUpstream(c, n)'
    <3>1. Due(c, n) /\ Opened(c, n)
      BY <1>3, <2>1 DEF Due, Opened
    <3>2. n <= out[c].n \/ n \in lost[c] \/ InLine(c, n) \/ InUpstream(c, n)
      BY <1>3, <2>1, <3>1 DEF Whole
    <3>3. CASE listens[c]
      BY <1>3, <3>2, <3>3
    <3>4. CASE ~listens[c]
      <4>1. PICK m \in Nat : n < m /\ InLine(c, m)
        BY <1>3, <2>1, <3>4 DEF Due
      <4>2. ~InUpstream(c, n)
        BY <2>1, <4>1 DEF Follows
      <4> QED
        BY <1>3, <3>2, <4>2
    <3> QED
      BY <3>3, <3>4
  <2> QED
    BY <2>1 DEF Whole
<1> QED
  BY <1>4, <1>6, <1>7, <1>8, <1>9, <1>10, <1>11, <1>12, <1>13

\* The listener is called, and lets the packet go by; it may be a keyframe that the
\* parser made up.
LEMMA Skipping ==
    ASSUME StreamTyped, NEW c \in Client, ClientOK(c), SameLine, Upstream(c)' = Upstream(c),
           UNCHANGED <<listens, attached, lost, encoder, cache, parser, wire>>,
           call'[c] = None, attached >= c,
           seen'[c] = seen[c] \/ (seen[c] = 0 /\ seen'[c] = Junk),
           seen[c] = 0 \/ ~IsFrame(call[c])
    PROVE  ClientOK(c)'
<1> USE DEF ClientOK, SameLine
<1>0. /\ encoder[c].n \in Nat /\ seen[c] \in Int /\ seen'[c] <= seen[c] /\ seen'[c] \in Int
      /\ ~(attached < c)
  <2>1. encoder[c].n \in Nat /\ seen[c] \in Int
    BY NumbersAre DEF Junk
  <2>2. ~(attached < c)
    BY DEF StreamTyped, Client
  <2> QED
    BY <2>1, <2>2 DEF Junk
<1>1. /\ \A n : InLine(c, n)' <=> InLine(c, n)
      /\ \A n : ~Calling(c, n)'
      /\ \A n : InUpstream(c, n)' <=> InUpstream(c, n)
  BY NoneIs DEF InLine, Calling, InUpstream, IsFrame
<1>2. Attaching(c)' /\ Caching(c)'
  BY <1>0, NoneIs DEF Attaching, Caching
<1>3. UpstreamRises(c)' /\ TimesOK(c)'
  BY DEF UpstreamRises, TimesOK, IsFrame
<1>4. Follows(c)' /\ UpstreamWhole(c)'
  BY <1>1 DEF Follows, UpstreamWhole
<1>5. Gate(c)'
  <2>1. seen'[c] = 0 => seen[c] = 0
    BY <1>0 DEF Junk
  <2>2. \A n \in Nat : seen[c] <= n => seen'[c] <= n
    BY <1>0
  <2>3. \A n \in Nat : seen[c] < n => seen'[c] < n
    BY <1>0
  <2>4. seen'[c] <= encoder[c].n
    BY <1>0 DEF Gate
  <2> QED
    BY <1>1, <2>1, <2>2, <2>3, <2>4 DEF Gate, NonePacket
<1>6. KeysOK(c)'
  <2>1. seen[c] = 0 => \A i \in DOMAIN Line : Line[i].c # c
    BY DEF Gate
  <2> QED
    BY <2>1 DEF KeysOK
<1>7. ParamsFirst(c)'
  BY NoneIs DEF ParamsFirst, IsFrame, IsParams
<1>8. Whole(c)'
  <2>1. CASE seen[c] # 0
    <3>1. \A n : ~Calling(c, n)
      BY <2>1 DEF Calling
    <3>2. \A n \in Nat : Due(c, n)' => Due(c, n)
      BY <1>1 DEF Due
    <3>3. \A n \in Nat : Opened(c, n)' => Opened(c, n)
      BY <1>1, <2>1 DEF Opened
    <3> QED
      BY <1>1, <3>1, <3>2, <3>3 DEF Whole
  <2>2. CASE seen[c] = 0
    <3>1. out[c].n = 0 /\ \A n : ~InLine(c, n)
      BY <2>2 DEF Gate, NonePacket, InLine
    <3>2. \A n \in Nat : ~Opened(c, n)'
      BY <1>1, <2>2, <3>1 DEF Opened, Junk
    <3> QED
      BY <3>2 DEF Whole
  <2> QED
    BY <2>1, <2>2
<1> QED
  BY <1>2, <1>3, <1>4, <1>5, <1>6, <1>7, <1>8

\* The listener is called, and pushes the packet: as the bootstrap or with the next
\* time.
LEMMA Pushing ==
    ASSUME StreamTyped, NEW c \in Client, ClientOK(c), Upstream(c)' = Upstream(c),
           UNCHANGED <<listens, attached, lost, encoder, cache, out, parser, wire>>,
           call'[c] = None, attached >= c,
           seen'[c] = IF seen[c] = 0 THEN call[c].n ELSE seen[c],
           IsFrame(call[c]) \/ call[c].n = Junk,
           NEW p, Joins(p), p.c = c, p.n = call[c].n,
           p.n # Junk => /\ seen[c] = 0 => p.kind = "key"
                         /\ p.kind = "key" => p.params \/ 0 \in lost[c],
           clock'.last \in Int,
           \/ p.pts = 0 /\ seen[c] = 0 /\ clock'.last = clock.last
           \/ p.pts > 0 /\ p.pts > clock.last /\ clock'.last = p.pts
    PROVE  ClientOK(c)'
<1> USE DEF ClientOK
<1>0. /\ encoder[c].n \in Nat /\ clock.last \in Int /\ out[c].n \in Nat /\ out[c].pts \in Int
      /\ seen[c] \in Nat \cup {Junk} /\ ~(attached < c) /\ lost[c] \subseteq Nat
  <2>1. ~(attached < c)
    BY DEF StreamTyped, Client
  <2> QED
    BY <2>1, NumbersAre
<1>1. /\ Len(Line) \in Nat
      /\ DOMAIN Line = 1 .. Len(Line) /\ DOMAIN Line' = 1 .. Len(Line) + 1
      /\ \A i \in DOMAIN Line : Line'[i] = Line[i] /\ Line[i] \in Pushed
      /\ Line'[Len(Line) + 1] = p /\ p.pts \in Nat /\ p.n \in Nat \cup {Junk} /\ p.n # 0
  BY Joining, PushedIs
<1>2. /\ \A n : InLine(c, n)' <=> InLine(c, n) \/ n = p.n
      /\ \A n : ~Calling(c, n)'
      /\ \A n \in Nat : Calling(c, n) <=> n = p.n
      /\ \A n : InUpstream(c, n)' <=> InUpstream(c, n)
  BY Joining, NoneIs DEF Calling, InUpstream, IsFrame, Junk
<1>3. seen'[c] = 0 => FALSE
  BY <1>1
<1>4. Attaching(c)' /\ Caching(c)'
  BY <1>0, NoneIs DEF Attaching, Caching
<1>5. UpstreamRises(c)'
  BY DEF UpstreamRises, IsFrame
<1>6. p.n \in Nat =>
        /\ Calling(c, p.n) /\ out[c].n < p.n /\ p.n <= encoder[c].n
        /\ \A k \in Nat : InLine(c, k) => k < p.n
        /\ \A n \in Nat : InUpstream(c, n) => p.n < n
  BY <1>2 DEF Follows
<1>7. Follows(c)'
  BY <1>0, <1>1, <1>2, <1>6 DEF Follows
<1>8. TimesOK(c)'
  <2>1. out[c].pts < p.pts /\ (p.pts = 0 \/ p.pts <= clock'.last) /\ clock.last <= clock'.last
    BY <1>0, <1>1 DEF TimesOK, Gate, NonePacket
  <2>2. ASSUME NEW i \in DOMAIN Line', Line'[i].c = c
        PROVE  /\ out[c].pts < Line'[i].pts
               /\ Line'[i].pts = 0 \/ Line'[i].pts <= clock'.last
    <3>1. CASE i \in DOMAIN Line
      BY <1>0, <1>1, <2>1, <2>2, <3>1, PushedIs DEF TimesOK
    <3>2. CASE i = Len(Line) + 1
      BY <1>1, <2>1, <3>2
    <3> QED
      BY <1>1, <3>1, <3>2
  <2>3. out[c].pts = 0 \/ out[c].pts <= clock'.last
    BY <1>0, <2>1 DEF TimesOK
  <2> QED
    BY <2>2, <2>3 DEF TimesOK
<1>9. ASSUME seen[c] = 0
      PROVE  Gate(c)' /\ KeysOK(c)' /\ Whole(c)'
  <2>1. out[c] = NonePacket(c) /\ out[c].n = 0 /\ \A i \in DOMAIN Line : Line[i].c # c
    BY <1>9 DEF Gate, NonePacket
  <2>2. \A n : ~InLine(c, n)
    BY <2>1 DEF InLine
  <2>3. seen'[c] = p.n
    BY <1>9
  <2>4. Gate(c)'
    <3>1. seen'[c] <= encoder[c].n
      BY <1>0, <1>1, <1>6, <2>3 DEF Junk
    <3>2. \A n \in Nat : InLine(c, n)' => seen'[c] <= n
      BY <1>2, <2>2, <2>3
    <3>3. \A n \in Nat : InUpstream(c, n) => seen'[c] < n
      BY <1>1, <1>6, <2>3 DEF Junk
    <3> QED
      BY <1>2, <1>3, <3>1, <3>2, <3>3 DEF Gate
  <2>5. KeysOK(c)'
    BY <1>1, <1>9, <2>1, <2>3 DEF KeysOK
  <2>6. Whole(c)'
    <3>1. SUFFICES ASSUME NEW n \in Nat, Opened(c, n)', n <= encoder[c].n
                   PROVE  n \in lost[c] \/ InLine(c, n)' \/ InUpstream(c, n)'
      BY DEF Whole
    <3>2. p.n \in Nat /\ p.n <= n
      BY <1>1, <1>2, <2>1, <2>2, <2>3, <3>1 DEF Opened, Junk
    <3>3. CASE p.n = n
      BY <1>2, <3>3
    <3>4. CASE p.n < n
      BY <1>2, <1>6, <3>1, <3>2, <3>4 DEF UpstreamWhole
    <3> QED
      BY <3>2, <3>3, <3>4
  <2> QED
    BY <2>4, <2>5, <2>6
<1>10. ASSUME seen[c] # 0
       PROVE  Gate(c)' /\ KeysOK(c)' /\ Whole(c)'
  <2>1. seen'[c] = seen[c]
    BY <1>10
  <2>2. p.n \in Nat => seen[c] < p.n
    BY <1>6 DEF Gate
  <2>3. Gate(c)'
    <3>1. \A n \in Nat : InLine(c, n)' => seen[c] <= n
      BY <1>0, <1>2, <2>2 DEF Gate, Junk
    <3> QED
      BY <1>2, <1>10, <2>1, <3>1 DEF Gate
  <2>4. KeysOK(c)'
    <3>1. ASSUME NEW i \in DOMAIN Line', Line'[i].c = c, Line'[i].n # Junk
          PROVE  /\ Line'[i].n = seen[c] => Line'[i].kind = "key"
                 /\ Line'[i].kind = "key" => Line'[i].params \/ 0 \in lost[c]
      <4>1. CASE i \in DOMAIN Line
        BY <1>1, <3>1, <4>1 DEF KeysOK
      <4>2. CASE i = Len(Line) + 1
        <5>1. Line'[i] = p /\ p.n \in Nat /\ p.n # seen[c]
          BY <1>0, <1>1, <2>2, <3>1, <4>2 DEF Junk
        <5> QED
          BY <3>1, <5>1
      <4> QED
        BY <1>1, <4>1, <4>2
    <3> QED
      BY <2>1, <3>1 DEF KeysOK
  <2>5. Whole(c)'
    <3>1. SUFFICES ASSUME NEW n \in Nat, Opened(c, n)', Due(c, n)', n <= encoder[c].n
                   PROVE  n <= out[c].n \/ n \in lost[c] \/ InLine(c, n)' \/ InUpstream(c, n)'
      BY DEF Whole
    <3>2. Due(c, n)
      BY <1>2, <3>1 DEF Due
    <3>3. CASE Opened(c, n)
      <4>1. n <= out[c].n \/ n \in lost[c] \/ InLine(c, n) \/ Calling(c, n) \/ InUpstream(c, n)
        BY <3>1, <3>2, <3>3 DEF Whole
      <4> QED
        BY <1>2, <4>1
    <3>4. CASE ~Opened(c, n)
      <4>1. p.n \in Nat /\ p.n < n
        BY <1>2, <2>1, <3>1, <3>4 DEF Opened
      <4> QED
        BY <1>2, <1>6, <3>1, <4>1 DEF UpstreamWhole
    <3> QED
      BY <3>3, <3>4
  <2> QED
    BY <2>3, <2>4, <2>5
<1>11. ParamsFirst(c)'
  BY NoneIs DEF ParamsFirst, IsFrame, IsParams
<1>12. UpstreamWhole(c)'
  BY <1>2 DEF UpstreamWhole
<1> QED
  BY <1>4, <1>5, <1>7, <1>8, <1>9, <1>10, <1>11, <1>12

\* ... and the line still rises.
LEMMA JoiningRises ==
    ASSUME StreamTyped, LineRises, NEW c \in Client, ClientOK(c),
           IsFrame(call[c]) \/ call[c].n = Junk,
           NEW p, Joins(p), p.c = c, p.n = call[c].n,
           \/ p.pts = 0 /\ seen[c] = 0
           \/ p.pts > 0 /\ p.pts > clock.last
    PROVE  LineRises'
<1> DEFINE L == Line
           M == Line'
           Rises(s, i, j) == /\ s[i].pts < s[j].pts
                             /\ s[i].n # Junk /\ s[j].n # Junk => s[i].n < s[j].n
<1>1. /\ Len(L) \in Nat /\ DOMAIN L = 1 .. Len(L) /\ DOMAIN M = 1 .. Len(L) + 1
      /\ \A i \in DOMAIN L : M[i] = L[i] /\ L[i] \in Pushed
      /\ M[Len(L) + 1] = p /\ p.pts \in Nat /\ p.n \in Nat \cup {Junk}
  BY Joining, PushedIs
<1>2. \A i, j \in DOMAIN L : i < j /\ L[i].c = L[j].c => Rises(L, i, j)
  BY DEF LineRises
<1>3. LineRises' <=> \A i, j \in DOMAIN M : i < j /\ M[i].c = M[j].c => Rises(M, i, j)
  BY DEF LineRises
<1>4. ASSUME NEW i \in DOMAIN L, L[i].c = c
      PROVE  /\ L[i].n # Junk /\ p.n # Junk => L[i].n < p.n
             /\ L[i].pts < p.pts
  <2>1. L[i].n \in Nat \cup {Junk} /\ L[i].pts \in Nat /\ InLine(c, L[i].n)
    BY <1>1, <1>4, PushedIs DEF InLine
  <2>2. ASSUME L[i].n # Junk, p.n # Junk
        PROVE  L[i].n < p.n
    <3>1. Calling(c, p.n) /\ p.n \in Nat /\ L[i].n \in Nat
      BY <1>1, <2>1, <2>2 DEF Calling
    <3> QED
      BY <2>1, <3>1 DEF ClientOK, Follows
  <2>3. seen[c] # 0 /\ (L[i].pts = 0 \/ L[i].pts <= clock.last)
    BY <1>4 DEF ClientOK, Gate, TimesOK
  <2>4. clock.last \in Int
    BY NumbersAre
  <2> QED
    BY <1>1, <2>1, <2>2, <2>3, <2>4
<1> HIDE DEF L, M
<1>5. ASSUME NEW i \in DOMAIN M, NEW j \in DOMAIN M, i < j, M[i].c = M[j].c
      PROVE  Rises(M, i, j)
  <2>1. i \in DOMAIN L /\ M[i] = L[i]
    BY <1>1, <1>5
  <2>2. CASE j \in DOMAIN L
    BY <1>1, <1>2, <1>5, <2>1, <2>2
  <2>3. CASE j = Len(L) + 1
    BY <1>1, <1>4, <1>5, <2>1, <2>3
  <2> QED
    BY <1>1, <2>2, <2>3
<1> QED
  BY <1>3, <1>5

-----------------------------------------------------------------------------
(* The steps of the device and of the threads.                               *)

\* What one step sends.
Sends(c, f, e) ==
    /\ encoder' = [encoder EXCEPT ![c] = e]
    /\ wire' = [wire EXCEPT ![c] = Append(@, f)]
    /\ encoder[1].sent + encoder[2].sent < MaxPackets /\ e.sent = encoder[c].sent + 1

LEMMA SendsTyped ==
    ASSUME StreamTyped, NEW c \in Client, NEW f \in Sent, NEW e \in Encoder, Sends(c, f, e),
           UNCHANGED <<parser, running, listens, cache, ready, call, seen, attached, clock,
                       track, lost>>
    PROVE  StreamTyped'
<1>1. encoder' \in [Client -> Encoder]
  BY DEF StreamTyped, Sends
<1>2. encoder'[1].sent + encoder'[2].sent <= MaxPackets
  <2>1. encoder \in [Client -> Encoder] /\ MaxPackets \in Nat
    BY StreamAssumption DEF StreamTyped
  <2>2. /\ encoder'[c] = e /\ \A d \in Client : d # c => encoder'[d] = encoder[d]
        /\ encoder[1].sent \in Nat /\ encoder[2].sent \in Nat
    BY <2>1 DEF Sends, Client, Encoder
  <2>3. c = 1 \/ c = 2
    BY DEF Client
  <2> QED
    BY <2>1, <2>2, <2>3 DEF Sends, Client
<1>3. wire' \in [Client -> Seq(Sent)]
  <2>1. wire \in [Client -> Seq(Sent)]
    BY DEF StreamTyped
  <2>2. Append(wire[c], f) \in Seq(Sent)
    BY <2>1, AppendProperties
  <2> QED
    BY <2>1, <2>2 DEF Sends
<1> QED
  BY <1>1, <1>2, <1>3 DEF StreamTyped, track

LEMMA TicksRise ==
    ASSUME NEW us \in Int, NEW last \in Int, last >= -1
    PROVE  /\ Rising(Ticks(us), last) \in Nat /\ Rising(Ticks(us), last) > 0
           /\ Rising(Ticks(us), last) > last
<1>1. ASSUME NEW x \in Nat
      PROVE  (x * 90) \div 1000 \in Int
  OBVIOUS
<1>2. Ticks(us) \in Int
  BY <1>1 DEF Ticks
<1> QED
  BY <1>2 DEF Rising

-----------------------------------------------------------------------------
(* Every step preserves the invariant.                                       *)

LEMMA SendsKeep ==
    ASSUME StreamInvariant, NEW c \in Client, NEW f \in Sent, NEW e \in Encoder, Sends(c, f, e),
           UNCHANGED <<parser, running, listens, cache, ready, call, seen, attached, clock,
                       track, lost>>,
           e.n = IF IsFrame(f) THEN encoder[c].n + 1 ELSE encoder[c].n,
           IsFrame(f) => f.n = e.n /\ encoder[c].next # {"config"},
           e.next # {"config"} => IsParams(f) \/ encoder[c].next # {"config"}
    PROVE  StreamInvariant'
<1>0. StreamTyped /\ LineRises /\ \A d \in Client : ClientOK(d)
  BY DEF StreamInvariant
<1>1. StreamTyped'
  BY <1>0, SendsTyped
<1>2. Line' = Line
  BY DEF Line, track
<1>3. LineRises'
  BY <1>0, <1>2 DEF LineRises
<1>4. encoder'[c] = e /\ wire'[c] = Append(wire[c], f)
  BY <1>0 DEF Sends, StreamTyped
<1>5. ClientOK(c)'
  <2>1. Grows(c, f)
    BY <1>0, <1>4, UpstreamGrows
  <2>2. SameLine
    BY <1>2 DEF SameLine, track
  <2>3. encoder'[c].n \in Nat /\ encoder'[c].n = e.n /\ encoder'[c].next = e.next
    BY <1>4 DEF Encoder
  <2>4. wire'[c] # <<>>
    <3>1. wire[c] \in Seq(Sent)
      BY <1>0 DEF StreamTyped
    <3>2. Len(Append(wire[c], f)) = Len(wire[c]) + 1 /\ Len(wire[c]) \in Nat
      BY <3>1, AppendProperties, LenProperties
    <3>3. Len(<<>>) = 0
      BY EmptySeq
    <3> QED
      BY <1>4, <3>2, <3>3
  <2> QED
    BY <1>0, <2>1, <2>2, <2>3, <2>4, Sending
<1>6. ASSUME NEW d \in Client, d # c
      PROVE  ClientOK(d)'
  <2>1. encoder'[d] = encoder[d] /\ wire'[d] = wire[d]
    BY <1>0, <1>6 DEF Sends, StreamTyped
  <2>2. SameClient(d) /\ UpstreamKept(d)
    BY <2>1 DEF SameClient, UpstreamKept, Upstream
  <2>3. Attaching(d)' /\ LostKnown(d)' /\ (parser'[d].torn => wire'[d] # <<>>)
    <3>1. lost[d] \subseteq Nat
      BY <1>0, NumbersAre
    <3> QED
      BY <1>0, <2>1, <3>1 DEF ClientOK, Attaching, Follows, LostKnown
  <2> QED
    BY <1>0, <1>2, <2>2, <2>3, LineSame DEF track
<1> QED
  BY <1>1, <1>3, <1>5, <1>6 DEF StreamInvariant

LEMMA EmitsKeeps ==
    ASSUME StreamInvariant, NEW c \in Client, Emits(c)
    PROVE  StreamInvariant'
<1>0. encoder[c] \in Encoder
  BY DEF StreamInvariant, StreamTyped
<1>1. PICK kind \in encoder[c].next :
        LET n == encoder[c].n + IF kind = "config" THEN 0 ELSE 1
        IN  /\ encoder' = [encoder EXCEPT ![c].sent = @ + 1, ![c].n = n,
                                          ![c].next = After(kind)]
            /\ \E us \in IF kind = "config" THEN {0} ELSE Micros :
                 wire' = [wire EXCEPT ![c] = Append(@, [kind |-> kind, n |-> n, us |-> us])]
  BY DEF Emits
<1> DEFINE n == encoder[c].n + IF kind = "config" THEN 0 ELSE 1
<1>2. PICK us \in IF kind = "config" THEN {0} ELSE Micros :
        wire' = [wire EXCEPT ![c] = Append(@, [kind |-> kind, n |-> n, us |-> us])]
  BY <1>1
<1> DEFINE f == [kind |-> kind, n |-> n, us |-> us]
<1>3. PICK e : e = [encoder[c] EXCEPT !.sent = @ + 1, !.n = n, !.next = After(kind)]
  OBVIOUS
<1>4. kind \in {"config", "key", "delta"} /\ n \in Nat /\ us \in Nat
      /\ (kind # "config" => n > 0 /\ us > 0 /\ encoder[c].next # {"config"})
      /\ (kind = "config" => us = 0)
  <2>1. kind \in {"config", "key", "delta"}
        /\ (kind # "config" => encoder[c].next # {"config"})
    <3>1. encoder[c].next \in Nexts
      BY <1>0 DEF Encoder
    <3> QED
      BY <3>1 DEF Nexts
  <2>2. encoder[c].n \in Nat
    BY <1>0 DEF Encoder
  <2>3. n \in Nat /\ (kind # "config" => n > 0)
    BY <2>2
  <2>4. us \in Nat /\ (kind # "config" => us > 0) /\ (kind = "config" => us = 0)
    BY StreamAssumption
  <2> QED
    BY <2>1, <2>3, <2>4
<1>5. f \in Sent /\ f.kind = kind /\ (IsFrame(f) <=> kind # "config") /\ (IsParams(f) <=> kind = "config")
  <2>1. f \in Frame /\ f.n = n /\ f.us = us /\ f.kind = kind
    BY <1>4 DEF Frame, Kind
  <2>2. (IsFrame(f) <=> kind # "config") /\ (IsParams(f) <=> kind = "config") /\ f.n # Junk
    BY <1>4, <2>1 DEF IsFrame, IsParams, Junk
  <2> QED
    BY <1>4, <2>1, <2>2 DEF Sent
<1>6. /\ e \in Encoder /\ e.sent = encoder[c].sent + 1 /\ e.n = n /\ e.next = After(kind)
  <2>1. After(kind) \in Nexts
    BY <1>4 DEF After, Nexts
  <2>2. /\ encoder[c].sent \in Nat /\ encoder[c].bogus \in Nat
        /\ DOMAIN encoder[c] = {"sent", "bogus", "n", "next"}
    BY <1>0 DEF Encoder
  <2> HIDE DEF n
  <2>3. /\ e.sent = encoder[c].sent + 1 /\ e.n = n /\ e.next = After(kind)
        /\ e.bogus = encoder[c].bogus /\ DOMAIN e = {"sent", "bogus", "n", "next"}
    BY <1>3, <2>2
  <2>4. e = [sent |-> e.sent, bogus |-> e.bogus, n |-> e.n, next |-> e.next]
    BY <1>3, <2>2, <2>3
  <2> QED
    BY <1>4, <2>1, <2>2, <2>3, <2>4 DEF Encoder
<1>7. encoder' = [encoder EXCEPT ![c] = e]
  <2>1. encoder \in [Client -> Encoder]
    BY DEF StreamInvariant, StreamTyped
  <2>2. encoder' = [encoder EXCEPT ![c].sent = @ + 1, ![c].n = n, ![c].next = After(kind)]
    BY <1>1
  <2> HIDE DEF n
  <2> QED
    BY <1>3, <2>1, <2>2
<1>8. Sends(c, f, e)
  BY <1>2, <1>6, <1>7 DEF Sends, Emits, MaySend
<1>9. e.next # {"config"} => IsParams(f) \/ encoder[c].next # {"config"}
  BY <1>4, <1>5
<1>10. e.n = IF IsFrame(f) THEN encoder[c].n + 1 ELSE encoder[c].n
  <2>1. encoder[c].n \in Nat
    BY <1>0 DEF Encoder
  <2> QED
    BY <1>5, <1>6, <2>1
<1>11. IsFrame(f) => f.n = e.n /\ encoder[c].next # {"config"}
  BY <1>4, <1>5, <1>6
<1> HIDE DEF f
<1> QED
  BY <1>5, <1>6, <1>8, <1>9, <1>10, <1>11, SendsKeep DEF Emits

LEMMA GarblesKeeps ==
    ASSUME StreamInvariant, NEW c \in Client, Garbles(c)
    PROVE  StreamInvariant'
<1>0. encoder[c] \in Encoder /\ encoder \in [Client -> Encoder]
  BY DEF StreamInvariant, StreamTyped
<1> DEFINE f == [kind |-> "bogus", n |-> Junk, us |-> 0]
<1>1. PICK e : e = [encoder[c] EXCEPT !.sent = @ + 1, !.bogus = @ + 1]
  OBVIOUS
<1>2. e \in Encoder /\ e.sent = encoder[c].sent + 1 /\ e.n = encoder[c].n
      /\ e.next = encoder[c].next
  <2>1. /\ encoder[c].sent \in Nat /\ encoder[c].bogus \in Nat /\ encoder[c].n \in Nat
        /\ encoder[c].next \in Nexts /\ DOMAIN encoder[c] = {"sent", "bogus", "n", "next"}
    BY <1>0 DEF Encoder
  <2>2. /\ e.sent = encoder[c].sent + 1 /\ e.n = encoder[c].n /\ e.next = encoder[c].next
        /\ e.bogus = encoder[c].bogus + 1 /\ DOMAIN e = {"sent", "bogus", "n", "next"}
    BY <1>1, <2>1
  <2>3. e = [sent |-> e.sent, bogus |-> e.bogus, n |-> e.n, next |-> e.next]
    BY <1>1, <2>1, <2>2
  <2> QED
    BY <2>1, <2>2, <2>3 DEF Encoder
<1>3. f \in Sent /\ ~IsFrame(f)
  BY DEF Sent, Frame, IsFrame, IsBogus
<1>4. encoder' = [encoder EXCEPT ![c] = e]
  BY <1>0, <1>1 DEF Garbles
<1>5. Sends(c, f, e)
  BY <1>2, <1>4 DEF Sends, Garbles, MaySend
<1> HIDE DEF f
<1> QED
  BY <1>2, <1>3, <1>5, SendsKeep DEF Garbles

\* The thread changes what is upstream, and nothing else.
LEMMA UpstreamKeeps ==
    ASSUME StreamInvariant, StreamTyped', NEW c \in Client,
           \A d \in Client : d # c => /\ ready'[d] = ready[d] /\ wire'[d] = wire[d]
                                      /\ lost'[d] = lost[d] /\ parser'[d].torn = parser[d].torn,
           UpstreamKept(c), LostKnown(c)', parser'[c].torn => wire'[c] # <<>>,
           UNCHANGED <<encoder, running, listens, cache, call, seen, attached, clock, track>>
    PROVE  StreamInvariant'
<1>0. StreamTyped /\ LineRises /\ \A d \in Client : ClientOK(d)
  BY DEF StreamInvariant
<1>1. Line' = Line /\ UNCHANGED <<out, clock, listens, attached, encoder, call, cache, seen>>
  BY DEF Line, track
<1>2. LineRises'
  BY <1>0, <1>1 DEF LineRises
<1>3. ASSUME NEW d \in Client
      PROVE  ClientOK(d)'
  <2>1. SameClient(d) /\ Attaching(d)'
    BY <1>0, <1>1 DEF SameClient, ClientOK, Attaching
  <2>2. UpstreamKept(d) /\ LostKnown(d)' /\ (parser'[d].torn => wire'[d] # <<>>)
    <3>1. CASE d = c
      BY <3>1
    <3>2. CASE d # c
      <4>1. lost[d] \subseteq Nat
        BY <1>0, NumbersAre
      <4>2. lost'[d] = lost[d] /\ wire'[d] = wire[d] /\ parser'[d].torn = parser[d].torn
            /\ Upstream(d)' = Upstream(d) /\ encoder' = encoder
        BY <1>1, <3>2 DEF Upstream
      <4> QED
        BY <1>0, <4>1, <4>2 DEF UpstreamKept, ClientOK, Follows, LostKnown
    <3> QED
      BY <3>1, <3>2
  <2> QED
    BY <1>0, <1>1, <2>1, <2>2, LineSame
<1> QED
  BY <1>2, <1>3 DEF StreamInvariant

LEMMA ParseKeeps ==
    ASSUME StreamInvariant, NEW c \in Client, Parse(c)
    PROVE  StreamInvariant'
<1>0. StreamTyped /\ LineRises /\ \A d \in Client : ClientOK(d)
  BY DEF StreamInvariant
<1>1. PICK k \in 1 .. Len(wire[c]) :
        /\ ~\E i \in 1 .. k : IsBogus(wire[c][i])
        /\ ready' = [ready EXCEPT ![c] = SubSeq(wire[c], 1, k)]
        /\ wire' = [wire EXCEPT ![c] = SubSeq(wire[c], k + 1, Len(wire[c]))]
  BY DEF Parse, First, Drops
<1>2. wire \in [Client -> Seq(Sent)] /\ ready \in [Client -> Seq(Parsed)] /\ lost[c] \subseteq Nat
  BY <1>0 DEF StreamTyped
<1>3. /\ ready'[c] = SubSeq(wire[c], 1, k)
      /\ wire'[c] = SubSeq(wire[c], k + 1, Len(wire[c]))
      /\ ready[c] = <<>>
      /\ UNCHANGED <<encoder, parser, running, listens, cache, call, seen, attached, clock, track, lost>>
  BY <1>1, <1>2 DEF Parse, Parses
<1>4. /\ wire'[c] \in Seq(Sent) /\ ready'[c] \in Seq(Parsed) /\ Upstream(c)' = Upstream(c)
  BY <1>0, <1>1, <1>3, UpstreamParsed
<1>5. wire' \in [Client -> Seq(Sent)] /\ ready' \in [Client -> Seq(Parsed)]
  <2>1. wire' \in [Client -> Seq(Sent)]
    BY <1>1, <1>2, <1>4
  <2>2. ready' \in [Client -> Seq(Parsed)]
    BY <1>1, <1>2, <1>4
  <2> QED
    BY <2>1, <2>2
<1>6. StreamTyped'
  BY <1>0, <1>3, <1>5 DEF StreamTyped, track
<1>7. \A d \in Client : d # c => /\ ready'[d] = ready[d] /\ wire'[d] = wire[d]
                                 /\ lost'[d] = lost[d] /\ parser'[d].torn = parser[d].torn
  BY <1>1, <1>2, <1>3
<1>8. UpstreamKept(c) /\ LostKnown(c)' /\ ~parser'[c].torn
  BY <1>0, <1>2, <1>3, <1>4 DEF UpstreamKept, ClientOK, Follows, LostKnown, Parse
<1> QED
  BY <1>3, <1>6, <1>7, <1>8, UpstreamKeeps

\* What a dropped packet adds to what is lost.
LEMMA GoneIs ==
    ASSUME NEW s, NEW k \in Nat, DOMAIN s = 1 .. k, \A i \in 1 .. k : s[i] \in Coming
    PROVE  /\ Gone(s) \subseteq Nat
           /\ \A i \in 1 .. k : /\ IsFrame(s[i]) => s[i].n \in Gone(s)
                                /\ IsParams(s[i]) => 0 \in Gone(s)
           /\ \A n \in Gone(s) : n = 0 \/ \E i \in 1 .. k : IsFrame(s[i]) /\ s[i].n = n
<1>1. ASSUME NEW i \in 1 .. k
      PROVE  /\ Number(s[i]) \in Nat \cup {Junk}
             /\ IsFrame(s[i]) => Number(s[i]) = s[i].n /\ s[i].n # Junk
             /\ IsParams(s[i]) => Number(s[i]) = 0
             /\ IsFrame(s[i]) \/ Number(s[i]) = 0 \/ Number(s[i]) = Junk
  <2>1. s[i] \in Frame /\ (s[i] \in Sent \/ s[i] \in Made)
    BY ComingIs DEF Coming
  <2>2. s[i].n \in Nat \cup {Junk}
    BY <2>1 DEF Frame
  <2>3. IsFrame(s[i]) \/ IsParams(s[i]) \/ s[i].n = Junk
    BY <2>1 DEF Sent, Made
  <2> QED
    BY <2>2, <2>3 DEF Number, IsFrame, IsParams
<1>2. Gone(s) = {Number(s[i]) : i \in 1 .. k} \ {Junk}
  BY DEF Gone
<1>3. \A i \in 1 .. k : IsParams(s[i]) => 0 \in Gone(s)
  BY <1>1, <1>2 DEF Junk
<1> QED
  BY <1>1, <1>2, <1>3

\* The buffer is cleared, or misread: k packets are lost, and of the next perhaps what
\* was there.
LEMMA Losing ==
    ASSUME StreamTyped, NEW c \in Client, ClientOK(c), NEW k \in Nat, NEW cut \in {0, 1},
           k + cut <= Len(wire[c]), NEW j, Upstream(c) = wire[c], Shrinks(c, k, j),
           Loses(c, k + cut), encoder' = encoder
    PROVE  /\ lost' \in [Client -> SUBSET Nat]
           /\ \A d \in Client : d # c => lost'[d] = lost[d]
           /\ UpstreamKept(c) /\ LostKnown(c)'
<1> DEFINE w == wire[c]
           s == SubSeq(w, 1, k + cut)
<1>1. /\ w \in Seq(Coming) /\ \A i \in 1 .. Len(w) : w[i] \in Coming
      /\ lost \in [Client -> SUBSET Nat] /\ Len(w) \in Nat
  <2>1. w \in Seq(Coming)
    BY UpstreamIs
  <2> QED
    BY <2>1, LenProperties, ElementOfSeq DEF StreamTyped
<1>2. k + cut \in Nat /\ k + cut <= Len(w)
  OBVIOUS
<1>3. /\ DOMAIN s = 1 .. k + cut /\ \A i \in 1 .. k + cut : s[i] = w[i] /\ s[i] \in Coming
  <2>1. /\ SubSeq(w, 0 + 1, k + cut) \in Seq(Coming) /\ DOMAIN SubSeq(w, 0 + 1, k + cut) = 1 .. (k + cut) - 0
        /\ \A i \in 1 .. (k + cut) - 0 : SubSeq(w, 0 + 1, k + cut)[i] = w[0 + i]
    BY <1>1, <1>2, Sliced
  <2>2. 0 + 1 = 1 /\ (k + cut) - 0 = k + cut /\ \A i \in 1 .. k + cut : 0 + i = i
    BY <1>2
  <2> QED
    BY <1>1, <1>2, <2>1, <2>2
<1>4. /\ Gone(s) \subseteq Nat
      /\ \A i \in 1 .. k + cut : /\ IsFrame(s[i]) => s[i].n \in Gone(s)
                                 /\ IsParams(s[i]) => 0 \in Gone(s)
      /\ \A n \in Gone(s) : n = 0 \/ \E i \in 1 .. k + cut : IsFrame(s[i]) /\ s[i].n = n
  <2> HIDE DEF s
  <2> QED
    BY <1>2, <1>3, GoneIs
<1>5. lost' = [lost EXCEPT ![c] = lost[c] \cup Gone(s)]
  BY DEF Loses, First
<1> HIDE DEF s
<1>6. lost'[c] = lost[c] \cup Gone(s) /\ lost' \in [Client -> SUBSET Nat]
      /\ \A d \in Client : d # c => lost'[d] = lost[d]
  BY <1>1, <1>4, <1>5
<1>7. Drop(c, k)
  <2>1. \A i \in 1 .. k : i \in 1 .. k + cut /\ Upstream(c)[i] = s[i]
    BY <1>2, <1>3
  <2> QED
    BY <1>4, <1>6, <2>1 DEF Drop
<1>8. UpstreamKept(c)
  <2>1. j \in {0, 1}
    BY DEF Shrinks
  <2> QED
    BY <1>6, <1>7, <2>1 DEF UpstreamKept
<1>9. LostKnown(c)'
  <2>1. \A n \in lost[c] : n <= encoder[c].n
    BY <1>1 DEF ClientOK, Follows
  <2>2. ASSUME NEW n \in Gone(s)
        PROVE  n <= encoder[c].n
    <3>1. CASE n = 0
      BY <3>1, NumbersAre
    <3>2. ASSUME NEW i \in 1 .. k + cut, IsFrame(s[i]), s[i].n = n
          PROVE  n <= encoder[c].n
      <4>1. i \in DOMAIN Upstream(c) /\ Upstream(c)[i] = s[i]
        BY <1>1, <1>2, <1>3, UpstreamIs
      <4>2. InUpstream(c, n) /\ n \in Nat
        BY <1>4, <3>2, <4>1 DEF InUpstream
      <4> QED
        BY <4>2 DEF ClientOK, Follows
    <3> QED
      BY <1>4, <3>1, <3>2
  <2> QED
    BY <1>6, <2>1, <2>2 DEF LostKnown
<1> QED
  BY <1>6, <1>8, <1>9

\* Where there is a packet, the sequence is not empty.
LEMMA SomeLeft ==
    ASSUME NEW S, NEW s \in Seq(S), Len(s) > 0
    PROVE  s # <<>>
  BY EmptySeq

LEMMA ClearKeeps ==
    ASSUME StreamInvariant, NEW c \in Client, Clear(c)
    PROVE  StreamInvariant'
<1>0. StreamTyped /\ ClientOK(c)
  BY DEF StreamInvariant
<1>1. PICK k \in 0 .. Len(wire[c]), cut \in {0, 1} :
        /\ k + cut \in 1 .. Len(wire[c])
        /\ wire' = [wire EXCEPT ![c] = SubSeq(wire[c], k + 1, Len(wire[c]))]
        /\ Loses(c, k + cut)
        /\ parser' = [parser EXCEPT ![c].torn = cut = 1]
  BY DEF Clear, Drops
<1>2. /\ wire \in [Client -> Seq(Sent)] /\ parser \in [Client -> [torn : BOOLEAN, junk : Nat]]
      /\ Len(wire[c]) \in Nat /\ parser[1].junk + parser[2].junk <= MaxJunk
  BY <1>0, LenProperties DEF StreamTyped
<1>3. /\ wire'[c] = SubSeq(wire[c], k + 1, Len(wire[c])) /\ ready[c] = <<>>
      /\ UNCHANGED <<encoder, running, listens, cache, ready, call, seen, attached, clock, track>>
  BY <1>1, <1>2 DEF Clear, Parses
<1>4. /\ wire'[c] \in Seq(Sent) /\ Len(wire'[c]) = Len(wire[c]) - k
      /\ Upstream(c) = wire[c] /\ Shrinks(c, k, 0)
  BY <1>0, <1>3, UpstreamCleared
<1>5. /\ lost' \in [Client -> SUBSET Nat]
      /\ \A d \in Client : d # c => lost'[d] = lost[d]
      /\ UpstreamKept(c) /\ LostKnown(c)'
  <2>1. k + cut <= Len(wire[c])
    BY <1>1
  <2> QED
    BY <1>0, <1>1, <1>3, <1>4, <2>1, Losing
<1>6. wire' \in [Client -> Seq(Sent)] /\ parser' \in [Client -> [torn : BOOLEAN, junk : Nat]]
      /\ parser'[1].junk + parser'[2].junk <= MaxJunk
  <2>1. wire' \in [Client -> Seq(Sent)]
    BY <1>1, <1>2, <1>4
  <2>2. parser' \in [Client -> [torn : BOOLEAN, junk : Nat]]
    BY <1>1, <1>2
  <2>3. parser'[1].junk = parser[1].junk /\ parser'[2].junk = parser[2].junk
    BY <1>1, <1>2 DEF Client
  <2> QED
    BY <1>2, <2>1, <2>2, <2>3
<1>7. StreamTyped'
  BY <1>0, <1>3, <1>5, <1>6 DEF StreamTyped, track
<1>8. \A d \in Client : d # c => /\ ready'[d] = ready[d] /\ wire'[d] = wire[d]
                                 /\ lost'[d] = lost[d] /\ parser'[d].torn = parser[d].torn
  BY <1>1, <1>2, <1>3, <1>5
<1>9. parser'[c].torn => wire'[c] # <<>>
  <2>1. parser'[c].torn => cut = 1
    BY <1>1, <1>2
  <2>2. cut = 1 => Len(wire'[c]) > 0
    BY <1>1, <1>2, <1>4
  <2> QED
    BY <1>4, <2>1, <2>2, SomeLeft
<1> QED
  BY <1>3, <1>5, <1>7, <1>8, <1>9, UpstreamKeeps

LEMMA MisreadKeeps ==
    ASSUME StreamInvariant, NEW c \in Client, Misread(c)
    PROVE  StreamInvariant'
<1>0. StreamTyped /\ ClientOK(c)
  BY DEF StreamInvariant
<1>1. PICK k \in 0 .. Len(wire[c]), cut \in {0, 1}, kind \in Kind, us \in Micros \cup {0} :
        /\ k + cut \in 1 .. Len(wire[c])
        /\ Loses(c, k + cut)
        /\ parser' = [parser EXCEPT ![c].torn = cut = 1, ![c].junk = @ + 1]
        /\ \E m \in k .. Len(wire[c]) :
             /\ cut = 1 => m = k
             /\ ~\E i \in k + 1 .. m : IsBogus(wire[c][i])
             /\ ready' = [ready EXCEPT ![c] =
                  <<[kind |-> kind, n |-> Junk, us |-> us]>> \o SubSeq(wire[c], k + 1, m)]
             /\ wire' = [wire EXCEPT ![c] = SubSeq(wire[c], m + 1, Len(wire[c]))]
  BY DEF Misread, Drops
<1> DEFINE g == [kind |-> kind, n |-> Junk, us |-> us]
<1>2. PICK m \in k .. Len(wire[c]) :
        /\ cut = 1 => m = k
        /\ ~\E i \in k + 1 .. m : IsBogus(wire[c][i])
        /\ ready' = [ready EXCEPT ![c] = <<g>> \o SubSeq(wire[c], k + 1, m)]
        /\ wire' = [wire EXCEPT ![c] = SubSeq(wire[c], m + 1, Len(wire[c]))]
  BY <1>1
<1>3. g \in Made
  <2>1. us \in Nat
    BY StreamAssumption
  <2>2. g \in Frame /\ g.n = Junk /\ g.kind = kind
    BY <2>1 DEF Frame
  <2> QED
    BY <2>2 DEF Made, IsBogus, Kind
<1> HIDE DEF g
<1>4. /\ wire \in [Client -> Seq(Sent)] /\ parser \in [Client -> [torn : BOOLEAN, junk : Nat]]
      /\ ready \in [Client -> Seq(Parsed)]
      /\ Len(wire[c]) \in Nat /\ parser[1].junk + parser[2].junk < MaxJunk /\ MaxJunk \in Nat
  BY <1>0, LenProperties, StreamAssumption DEF StreamTyped, Misread
<1>5. /\ wire'[c] = SubSeq(wire[c], m + 1, Len(wire[c])) /\ ready[c] = <<>>
      /\ ready'[c] = <<g>> \o SubSeq(wire[c], k + 1, m)
      /\ UNCHANGED <<encoder, running, listens, cache, call, seen, attached, clock, track>>
  BY <1>2, <1>4 DEF Misread, Parses
<1>6. /\ wire'[c] \in Seq(Sent) /\ Len(wire'[c]) = Len(wire[c]) - m
      /\ ready'[c] \in Seq(Parsed)
      /\ Upstream(c) = wire[c] /\ Shrinks(c, k, 1)
  BY <1>0, <1>2, <1>3, <1>5, UpstreamMisread
<1>7. /\ lost' \in [Client -> SUBSET Nat]
      /\ \A d \in Client : d # c => lost'[d] = lost[d]
      /\ UpstreamKept(c) /\ LostKnown(c)'
  <2>1. k + cut <= Len(wire[c]) /\ k \in Nat
    BY <1>1
  <2> QED
    BY <1>0, <1>1, <1>5, <1>6, <2>1, Losing
<1>8. /\ wire' \in [Client -> Seq(Sent)] /\ ready' \in [Client -> Seq(Parsed)]
      /\ parser' \in [Client -> [torn : BOOLEAN, junk : Nat]]
      /\ parser'[1].junk + parser'[2].junk <= MaxJunk
  <2>1. wire' \in [Client -> Seq(Sent)]
    BY <1>2, <1>4, <1>6
  <2>2. ready' \in [Client -> Seq(Parsed)]
    BY <1>2, <1>4, <1>6
  <2>3. PICK q : q = [parser[c] EXCEPT !.torn = cut = 1, !.junk = @ + 1]
    OBVIOUS
  <2>4. q \in [torn : BOOLEAN, junk : Nat] /\ q.junk = parser[c].junk + 1
    <3>1. parser[c] \in [torn : BOOLEAN, junk : Nat] /\ (cut = 1) \in BOOLEAN
      BY <1>4
    <3>2. parser[c].junk \in Nat /\ DOMAIN parser[c] = {"torn", "junk"}
      BY <3>1
    <3>3. q.junk = parser[c].junk + 1 /\ q.torn = (cut = 1) /\ DOMAIN q = {"torn", "junk"}
      BY <2>3, <3>2
    <3>4. q = [torn |-> q.torn, junk |-> q.junk]
      BY <2>3, <3>2, <3>3
    <3>5. q.torn \in BOOLEAN
      BY <3>1, <3>3, Zenon
    <3>6. q.junk \in Nat
      BY <3>2, <3>3
    <3>7. \A t \in BOOLEAN, o \in Nat :
             [torn |-> t, junk |-> o] \in [torn : BOOLEAN, junk : Nat]
      OBVIOUS
    <3>8. q \in [torn : BOOLEAN, junk : Nat]
      BY <3>4, <3>5, <3>6, <3>7, Zenon
    <3> QED
      BY <3>3, <3>8, Zenon
  <2>5. parser' = [parser EXCEPT ![c] = q]
    BY <1>1, <1>4, <2>3
  <2>6. parser' \in [Client -> [torn : BOOLEAN, junk : Nat]] /\ parser'[c] = q
        /\ \A d \in Client : d # c => parser'[d] = parser[d]
    BY <1>4, <2>4, <2>5
  <2>7. parser'[1].junk + parser'[2].junk <= MaxJunk
    <3>1. c = 1 \/ c = 2
      BY DEF Client
    <3>2. parser[1].junk \in Nat /\ parser[2].junk \in Nat
      BY <1>4 DEF Client
    <3>3. CASE c = 1
      BY <1>4, <2>4, <2>6, <3>2, <3>3 DEF Client
    <3>4. CASE c = 2
      BY <1>4, <2>4, <2>6, <3>2, <3>4 DEF Client
    <3> QED
      BY <3>1, <3>3, <3>4
  <2> QED
    BY <2>1, <2>2, <2>6, <2>7
<1>9. StreamTyped'
  BY <1>0, <1>5, <1>7, <1>8 DEF StreamTyped, track
<1>10. \A d \in Client : d # c => /\ ready'[d] = ready[d] /\ wire'[d] = wire[d]
                                  /\ lost'[d] = lost[d] /\ parser'[d].torn = parser[d].torn
  BY <1>1, <1>2, <1>4, <1>7
<1>11. parser'[c].torn => wire'[c] # <<>>
  <2>1. parser'[c].torn => cut = 1
    BY <1>1, <1>4
  <2>2. cut = 1 => Len(wire'[c]) > 0
    BY <1>1, <1>2, <1>4, <1>6
  <2> QED
    BY <1>6, <2>1, <2>2, SomeLeft
<1> QED
  BY <1>5, <1>7, <1>9, <1>10, <1>11, UpstreamKeeps

LEMMA DecodeFailsKeeps ==
    ASSUME StreamInvariant, NEW c \in Client, DecodeFails(c)
    PROVE  StreamInvariant'
<1>0. StreamTyped /\ ClientOK(c)
  BY DEF StreamInvariant
<1>1. /\ ready' = [ready EXCEPT ![c] = <<>>]
      /\ lost' = [lost EXCEPT ![c] = lost[c] \cup Gone(ready[c])]
      /\ UNCHANGED <<encoder, wire, parser, running, listens, cache, call, seen, attached, clock, track>>
  BY DEF DecodeFails, stream
<1>2. ready \in [Client -> Seq(Parsed)] /\ lost \in [Client -> SUBSET Nat] /\ ready[c] \in Seq(Coming)
  BY <1>0, UpstreamIs DEF StreamTyped
<1>3. /\ Len(ready[c]) \in Nat /\ DOMAIN ready[c] = 1 .. Len(ready[c])
      /\ \A i \in 1 .. Len(ready[c]) : ready[c][i] \in Coming
  BY <1>2, LenProperties, ElementOfSeq
<1>4. /\ Gone(ready[c]) \subseteq Nat
      /\ \A i \in 1 .. Len(ready[c]) : /\ IsFrame(ready[c][i]) => ready[c][i].n \in Gone(ready[c])
                                       /\ IsParams(ready[c][i]) => 0 \in Gone(ready[c])
      /\ \A n \in Gone(ready[c]) :
           n = 0 \/ \E i \in 1 .. Len(ready[c]) : IsFrame(ready[c][i]) /\ ready[c][i].n = n
  <2> DEFINE r == ready[c]
  <2>1. Len(r) \in Nat /\ DOMAIN r = 1 .. Len(r) /\ \A i \in 1 .. Len(r) : r[i] \in Coming
    BY <1>3
  <2> HIDE DEF r
  <2>2. /\ Gone(r) \subseteq Nat
        /\ \A i \in 1 .. Len(r) : /\ IsFrame(r[i]) => r[i].n \in Gone(r)
                                  /\ IsParams(r[i]) => 0 \in Gone(r)
        /\ \A n \in Gone(r) : n = 0 \/ \E i \in 1 .. Len(r) : IsFrame(r[i]) /\ r[i].n = n
    BY <2>1, GoneIs
  <2> QED
    BY <2>2 DEF r
<1>5. lost'[c] = lost[c] \cup Gone(ready[c]) /\ lost' \in [Client -> SUBSET Nat]
      /\ ready' \in [Client -> Seq(Parsed)] /\ ready'[c] = <<>>
  BY <1>1, <1>2, <1>4, EmptySeq
<1>6. StreamTyped'
  BY <1>0, <1>1, <1>5 DEF StreamTyped, track
<1>7. /\ Shrinks(c, Len(ready[c]), 0) /\ Len(ready[c]) \in Nat
      /\ \A i \in 1 .. Len(ready[c]) : Upstream(c)[i] = ready[c][i]
  BY <1>0, <1>1, <1>5, UpstreamDecodeFails
<1>8. UpstreamKept(c)
  <2>1. Drop(c, Len(ready[c]))
    BY <1>4, <1>5, <1>7 DEF Drop
  <2> QED
    BY <1>5, <1>7, <2>1 DEF UpstreamKept
<1>9. LostKnown(c)'
  <2>1. \A n \in lost[c] : n <= encoder[c].n
    BY <1>0, <1>2 DEF ClientOK, Follows
  <2>2. ASSUME NEW n \in Gone(ready[c])
        PROVE  n <= encoder[c].n
    <3>1. CASE n = 0
      BY <1>0, <3>1, NumbersAre
    <3>2. ASSUME NEW i \in 1 .. Len(ready[c]), IsFrame(ready[c][i]), ready[c][i].n = n
          PROVE  n <= encoder[c].n
      <4>1. i \in DOMAIN Upstream(c) /\ Upstream(c)[i] = ready[c][i]
        <5>1. Len(ready[c]) <= Len(Upstream(c)) /\ Len(Upstream(c)) \in Nat
              /\ DOMAIN Upstream(c) = 1 .. Len(Upstream(c))
          BY <1>0, <1>7, UpstreamIs DEF Shrinks
        <5> QED
          BY <1>3, <1>7, <5>1
      <4>2. InUpstream(c, n) /\ n \in Nat
        BY <1>4, <3>2, <4>1 DEF InUpstream
      <4> QED
        BY <1>0, <4>2 DEF ClientOK, Follows
    <3> QED
      BY <1>4, <3>1, <3>2
  <2>3. encoder'[c].n = encoder[c].n
    BY <1>1
  <2> QED
    BY <1>5, <2>1, <2>2, <2>3 DEF LostKnown
<1>10. \A d \in Client : d # c => /\ ready'[d] = ready[d] /\ wire'[d] = wire[d]
                                  /\ lost'[d] = lost[d] /\ parser'[d].torn = parser[d].torn
  BY <1>1, <1>2
<1>11. parser'[c].torn => wire'[c] # <<>>
  BY <1>0, <1>1 DEF ClientOK
<1> QED
  BY <1>1, <1>6, <1>8, <1>9, <1>10, <1>11, UpstreamKeeps

LEMMA HandleKeeps ==
    ASSUME StreamInvariant, NEW c \in Client, Handle(c)
    PROVE  StreamInvariant'
<1>0. StreamTyped /\ LineRises /\ \A d \in Client : ClientOK(d)
  BY DEF StreamInvariant
<1> DEFINE f == Head(ready[c])
<1>1. PICK params \in Found(cache[c].params, f) :
        cache' = [cache EXCEPT ![c] =
            [params |-> params, key |-> IF f.kind = "key" THEN f.n ELSE cache[c].key]]
  BY DEF Handle
<1>2. /\ ready' = [ready EXCEPT ![c] = Tail(@)]
      /\ call' = [call EXCEPT ![c] = IF listens[c] THEN f ELSE None]
      /\ ready[c] # <<>> /\ call[c] = None
      /\ UNCHANGED <<encoder, wire, parser, running, listens, seen, attached, clock, track, lost>>
  BY DEF Handle, stream
<1>3. /\ ready \in [Client -> Seq(Parsed)] /\ call \in [Client -> Parsed \cup {None}]
      /\ cache \in [Client -> Params]
  BY <1>0 DEF StreamTyped
<1>4. f \in Parsed /\ Tail(ready[c]) \in Seq(Parsed)
  BY <1>2, <1>3, HeadAndTail
<1>5. [params |-> params, key |-> IF f.kind = "key" THEN f.n ELSE cache[c].key] \in Params
  <2>1. f.n \in Nat \cup {Junk}
    BY <1>4, ParsedIs
  <2>2. cache[c].params \in BOOLEAN /\ cache[c].key \in Nat \cup {Junk}
    BY <1>0, NumbersAre
  <2>3. params \in BOOLEAN
    BY <1>1, <2>2 DEF Found
  <2> QED
    BY <2>1, <2>2, <2>3 DEF Params
<1>6. StreamTyped'
  <2>1. ready' \in [Client -> Seq(Parsed)]
    BY <1>2, <1>3, <1>4
  <2>2. call' \in [Client -> Parsed \cup {None}]
    BY <1>2, <1>3, <1>4
  <2>3. cache' \in [Client -> Params]
    BY <1>1, <1>3, <1>5
  <2> QED
    BY <1>0, <1>2, <2>1, <2>2, <2>3 DEF StreamTyped, track
<1>7. Line' = Line /\ out' = out
  BY <1>2 DEF Line, track
<1>8. LineRises'
  BY <1>0, <1>7 DEF LineRises
<1>9. ClientOK(c)'
  <2>1. ready'[c] = Tail(ready[c]) /\ wire'[c] = wire[c]
    BY <1>2, <1>3
  <2>2. Shrinks(c, 1, 0) /\ Upstream(c) # <<>> /\ f = Upstream(c)[1]
    BY <1>0, <1>2, <2>1, UpstreamHandled
  <2>3. /\ cache'[c].params \in Found(cache[c].params, f)
        /\ cache'[c].key = IF f.kind = "key" THEN f.n ELSE cache[c].key
        /\ call'[c] = IF listens[c] THEN f ELSE None
    BY <1>1, <1>2, <1>3
  <2>4. SameLine
    BY <1>2, <1>7 DEF SameLine
  <2> HIDE DEF f
  <2> QED
    BY <1>0, <1>2, <1>4, <2>2, <2>3, <2>4, Handling
<1>10. ASSUME NEW d \in Client, d # c
       PROVE  ClientOK(d)'
  <2>1. SameClient(d) /\ UpstreamKept(d)
    BY <1>1, <1>2, <1>3, <1>10 DEF SameClient, UpstreamKept, Upstream
  <2>2. Attaching(d)' /\ LostKnown(d)' /\ (parser'[d].torn => wire'[d] # <<>>)
    <3>1. lost[d] \subseteq Nat
      BY <1>0, NumbersAre
    <3> QED
      BY <1>0, <1>2, <2>1, <3>1 DEF ClientOK, Attaching, SameClient, Follows, LostKnown
  <2> QED
    BY <1>0, <1>2, <1>7, <2>1, <2>2, LineSame
<1> QED
  BY <1>6, <1>8, <1>9, <1>10 DEF StreamInvariant

\* The peer the listener is called for is attached.
LEMMA Called ==
    ASSUME StreamInvariant, NEW c \in Client, Listen(c)
    PROVE  attached >= c
<1>1. StreamTyped /\ Attaching(c) /\ call[c] # None
  BY DEF StreamInvariant, ClientOK, Listen
<1> QED
  BY <1>1 DEF Attaching, StreamTyped, Client

\* The listener takes the packet of the thread, and pushes nothing.
LEMMA SkippingKeeps ==
    ASSUME StreamInvariant, NEW c \in Client, Listen(c), UNCHANGED <<soon, clock>>,
           NEW s \in Nat \cup {Junk}, seen' = [seen EXCEPT ![c] = s],
           s = seen[c] \/ (seen[c] = 0 /\ s = Junk),
           seen[c] = 0 \/ ~IsFrame(call[c])
    PROVE  StreamInvariant'
<1>0. StreamTyped /\ LineRises /\ \A d \in Client : ClientOK(d)
  BY DEF StreamInvariant
<1>1. /\ call' = [call EXCEPT ![c] = None]
      /\ UNCHANGED <<stream, listens, cache, ready, attached, queue, out, lost>>
  BY DEF Listen
<1>2. call \in [Client -> Parsed \cup {None}] /\ seen \in [Client -> Nat \cup {Junk}]
  BY <1>0 DEF StreamTyped
<1>3. call' \in [Client -> Parsed \cup {None}] /\ seen' \in [Client -> Nat \cup {Junk}]
      /\ seen'[c] = s /\ \A d \in Client : d # c => seen'[d] = seen[d]
  BY <1>1, <1>2
<1>4. StreamTyped'
  BY <1>0, <1>1, <1>3 DEF StreamTyped, stream
<1>5. Line' = Line /\ \A d \in Client : Upstream(d)' = Upstream(d)
  BY <1>1 DEF Line, Upstream, stream
<1>6. LineRises'
  BY <1>0, <1>5 DEF LineRises
<1>7. ClientOK(c)'
  <2>1. SameLine /\ call'[c] = None /\ encoder' = encoder /\ parser' = parser /\ wire' = wire
    BY <1>1, <1>2, <1>5 DEF SameLine, stream
  <2> QED
    BY <1>0, <1>1, <1>3, <1>5, <2>1, Called, Skipping
<1>8. ASSUME NEW d \in Client, d # c
      PROVE  ClientOK(d)'
  <2>1. SameClient(d) /\ UpstreamKept(d)
    BY <1>1, <1>2, <1>3, <1>5, <1>8 DEF SameClient, UpstreamKept, stream
  <2>2. Attaching(d)' /\ LostKnown(d)' /\ (parser'[d].torn => wire'[d] # <<>>)
    <3>1. lost[d] \subseteq Nat
      BY <1>0, NumbersAre
    <3> QED
      BY <1>0, <1>1, <2>1, <3>1 DEF ClientOK, Attaching, SameClient, Follows, LostKnown, stream
  <2> QED
    BY <1>0, <1>1, <1>5, <2>1, <2>2, LineSame
<1> QED
  BY <1>4, <1>6, <1>7, <1>8 DEF StreamInvariant

\* ... and pushes the packet p.
LEMMA PushingKeeps ==
    ASSUME StreamInvariant, NEW c \in Client, Listen(c),
           IsFrame(call[c]) \/ call[c].n = Junk,
           NEW p \in Pushed, soon' = Append(soon, p), p.c = c, p.n = call[c].n,
           seen' = [seen EXCEPT ![c] = IF seen[c] = 0 THEN call[c].n ELSE seen[c]],
           p.n # Junk => /\ seen[c] = 0 => p.kind = "key"
                         /\ p.kind = "key" => p.params \/ 0 \in lost[c],
           clock' \in [offset : Nat, last : Nat \cup {-1}],
           \/ p.pts = 0 /\ seen[c] = 0 /\ clock'.last = clock.last
           \/ p.pts > 0 /\ p.pts > clock.last /\ clock'.last = p.pts
    PROVE  StreamInvariant'
<1>0. StreamTyped /\ LineRises /\ \A d \in Client : ClientOK(d)
  BY DEF StreamInvariant
<1>1. /\ call' = [call EXCEPT ![c] = None]
      /\ UNCHANGED <<stream, listens, cache, ready, attached, queue, out, lost>>
  BY DEF Listen
<1>2. /\ call \in [Client -> Parsed \cup {None}] /\ seen \in [Client -> Nat \cup {Junk}]
      /\ soon \in Seq(Pushed)
  BY <1>0 DEF StreamTyped
<1>3. Joins(p)
  BY <1>0, <1>1, LinePushed
<1>4. seen' \in [Client -> Nat \cup {Junk}] /\ \A d \in Client : d # c => seen'[d] = seen[d]
      /\ seen'[c] = IF seen[c] = 0 THEN call[c].n ELSE seen[c]
  <2>1. call[c].n \in Nat \cup {Junk}
    BY PushedIs
  <2> QED
    BY <1>2, <2>1
<1>5. StreamTyped'
  <2>1. call' \in [Client -> Parsed \cup {None}]
    BY <1>1, <1>2
  <2>2. soon' \in Seq(Pushed)
    BY <1>2, AppendProperties
  <2> QED
    BY <1>0, <1>1, <1>4, <2>1, <2>2 DEF StreamTyped, stream
<1>6. \A d \in Client : Upstream(d)' = Upstream(d)
  BY <1>1 DEF Upstream, stream
<1>7. LineRises'
  BY <1>0, <1>3, JoiningRises
<1>8. clock'.last \in Int /\ clock.last <= clock'.last
  <2>1. clock'.last \in Nat \cup {-1} /\ p.pts \in Nat
    BY PushedIs
  <2> QED
    BY <1>0, <2>1, NumbersAre
<1>9. ClientOK(c)'
  <2>1. call'[c] = None /\ encoder' = encoder /\ parser' = parser /\ wire' = wire
    BY <1>1, <1>2 DEF stream
  <2> QED
    BY <1>0, <1>1, <1>3, <1>4, <1>6, <1>8, <2>1, Called, Pushing
<1>10. ASSUME NEW d \in Client, d # c
       PROVE  ClientOK(d)'
  <2>1. SameClient(d)
    BY <1>1, <1>2, <1>4, <1>10 DEF SameClient, stream
  <2>2. Attaching(d)'
    BY <1>0, <1>1, <2>1 DEF ClientOK, Attaching, SameClient
  <2>3. parser' = parser /\ wire' = wire
    BY <1>1 DEF stream
  <2> QED
    BY <1>0, <1>1, <1>3, <1>6, <1>8, <1>10, <2>1, <2>2, <2>3, LineJoined
<1> QED
  BY <1>5, <1>7, <1>9, <1>10 DEF StreamInvariant

LEMMA ListenKeeps ==
    ASSUME StreamInvariant, NEW c \in Client, Listen(c)
    PROVE  StreamInvariant'
<1> DEFINE f == call[c]
           opens == seen[c] = 0 /\ IsKey(f)
<1>0. /\ seen \in [Client -> Nat \cup {Junk}] /\ f \in Parsed
      /\ cache[c].params \in BOOLEAN /\ cache[c].key \in Nat \cup {Junk}
      /\ Caching(c) /\ ParamsFirst(c) /\ f # None
      /\ clock \in [offset : Nat, last : Nat \cup {-1}]
  <2>1. StreamTyped /\ Caching(c) /\ ParamsFirst(c)
    BY DEF StreamInvariant, ClientOK
  <2> QED
    BY <2>1, NumbersAre DEF StreamTyped, Listen
<1>1. /\ f.n \in Nat \cup {Junk} /\ f.us \in Nat
      /\ IsFrame(f) => f.n \in Nat \ {0} /\ f.us > 0 /\ (IsKey(f) <=> f.kind = "key")
      /\ IsFrame(f) \/ IsParams(f) \/ f.n = Junk
      /\ IsParams(f) => ~IsFrame(f) /\ ~IsKey(f) /\ f.us = 0
  BY <1>0, ParsedIs
<1>2. /\ seen' = [seen EXCEPT ![c] = IF opens THEN f.n ELSE seen[c]]
      /\ IF Gated(c, f) THEN UNCHANGED <<soon, clock>>
         ELSE IF opens /\ cache[c].params /\ cache[c].key # 0 THEN PushBootstrap(c, f)
         ELSE PushFrame(c, f)
  BY DEF Listen
<1>3. Gated(c, f) => seen[c] = 0 /\ ~opens
  BY DEF Gated
<1>4. ~Gated(c, f) => (opens <=> seen[c] = 0)
  BY DEF Gated
<1> HIDE DEF opens
<1>5. PICK s : s = IF opens THEN f.n ELSE seen[c]
  OBVIOUS
<1>6. s \in Nat \cup {Junk} /\ seen' = [seen EXCEPT ![c] = s]
  BY <1>0, <1>1, <1>2, <1>5
<1>7. ASSUME ~Gated(c, f)
      PROVE  seen' = [seen EXCEPT ![c] = IF seen[c] = 0 THEN f.n ELSE seen[c]]
  BY <1>2, <1>4, <1>7
<1>8. CASE Gated(c, f)
  <2>1. s = seen[c] /\ seen[c] = 0
    BY <1>3, <1>5, <1>8
  <2> QED
    BY <1>2, <1>6, <1>8, <2>1, SkippingKeeps
<1>9. CASE ~Gated(c, f) /\ ~(opens /\ cache[c].params /\ cache[c].key # 0) /\ f.us = 0
  <2>1. UNCHANGED <<soon, clock>>
    BY <1>2, <1>9 DEF PushFrame
  <2>2. ~IsFrame(f)
    BY <1>1, <1>9
  <2>3. s = seen[c] \/ (seen[c] = 0 /\ s = Junk)
    <3>1. opens => seen[c] = 0 /\ f.n = Junk
      BY <1>1, <2>2 DEF opens
    <3> QED
      BY <1>5, <3>1
  <2> QED
    BY <1>6, <2>1, <2>2, <2>3, SkippingKeeps
<1>10. CASE ~Gated(c, f) /\ opens /\ cache[c].params /\ cache[c].key # 0
  <2> DEFINE p == [c |-> c, kind |-> "key", params |-> TRUE, pts |-> 0,
                   n |-> IF f.n = Junk THEN Junk ELSE cache[c].key]
  <2>1. soon' = Append(soon, p) /\ clock' = clock
    BY <1>2, <1>10 DEF PushBootstrap
  <2>2. IsKey(f) /\ seen[c] = 0
    BY <1>10 DEF opens
  <2>3. f.n # Junk => IsFrame(f) /\ cache[c].key = f.n
    BY <1>0, <1>1, <2>2 DEF Caching
  <2>4. p.n = f.n /\ f.n # 0 /\ (IsFrame(f) \/ f.n = Junk)
    BY <1>1, <2>3 DEF Junk
  <2>5. p \in Pushed
    <3>1. p \in Packet
      BY <1>1, <2>4 DEF Packet
    <3> QED
      BY <2>4, <3>1 DEF Pushed
  <2>6. p.c = c /\ p.kind = "key" /\ p.params /\ p.pts = 0
    OBVIOUS
  <2> HIDE DEF p
  <2> QED
    BY <1>0, <1>7, <1>10, <2>1, <2>2, <2>4, <2>5, <2>6, PushingKeeps
<1>11. CASE ~Gated(c, f) /\ ~(opens /\ cache[c].params /\ cache[c].key # 0) /\ f.us # 0
  <2>1. PushFrame(c, f)
    BY <1>2, <1>11
  <2>2. PICK pts : pts = Rising(Ticks(f.us - Offset(f.us)), clock.last)
    OBVIOUS
  <2>3. Offset(f.us) \in Nat
    BY <1>0, <1>1 DEF Offset
  <2>4. pts \in Nat /\ pts > 0 /\ pts > clock.last
    <3>1. f.us - Offset(f.us) \in Int /\ clock.last \in Int /\ clock.last >= -1
      BY <1>0, <1>1, <2>3
    <3>2. \A us, last \in Int : last >= -1 =>
            LET r == Rising(Ticks(us), last) IN r \in Nat /\ r > 0 /\ r > last
      BY TicksRise
    <3> QED
      BY <2>2, <3>1, <3>2
  <2> DEFINE p == [c |-> c, kind |-> IF IsKey(f) THEN "key" ELSE "delta", n |-> f.n, pts |-> pts,
                   params |-> IsKey(f) /\ cache[c].params]
  <2>5. clock' = [offset |-> Offset(f.us), last |-> pts] /\ soon' = Append(soon, p)
    BY <1>11, <2>1, <2>2 DEF PushFrame
  <2>6. IsFrame(f) \/ f.n = Junk
    BY <1>1, <1>11
  <2>7. p \in Pushed
    <3>1. f.n \in Nat \cup {Junk} /\ f.n # 0
      BY <1>1, <2>6 DEF Junk
    <3>2. (IsKey(f) /\ cache[c].params) \in BOOLEAN
      BY <1>0
    <3>3. p \in Packet
      BY <2>4, <3>1, <3>2 DEF Packet
    <3> QED
      BY <3>1, <3>3 DEF Pushed
  <2>8. p.c = c /\ p.n = f.n /\ (p.kind = "key" <=> IsKey(f)) /\ p.pts = pts
        /\ (p.params <=> IsKey(f) /\ cache[c].params)
    OBVIOUS
  <2>9. p.n # Junk => /\ seen[c] = 0 => p.kind = "key"
                      /\ p.kind = "key" => p.params \/ 0 \in lost[c]
    <3>1. SUFFICES ASSUME f.n # Junk
                   PROVE  /\ seen[c] = 0 => IsKey(f)
                          /\ IsKey(f) => cache[c].params \/ 0 \in lost[c]
      BY <2>8
    <3>2. seen[c] = 0 => IsKey(f)
      BY <1>4, <1>11 DEF opens
    <3>3. cache[c].params \/ 0 \in lost[c]
      BY <1>0, <2>6, <3>1 DEF ParamsFirst
    <3> QED
      BY <3>2, <3>3
  <2>10. clock' \in [offset : Nat, last : Nat \cup {-1}] /\ clock'.last = pts
    BY <2>3, <2>4, <2>5
  <2> HIDE DEF p
  <2> QED
    BY <1>7, <1>11, <2>4, <2>5, <2>6, <2>7, <2>8, <2>9, <2>10, PushingKeeps
<1> QED
  BY <1>8, <1>9, <1>10, <1>11

LEMMA EnqueueKeeps ==
    ASSUME StreamInvariant, Enqueue
    PROVE  StreamInvariant'
<1>0. StreamTyped /\ LineRises /\ \A d \in Client : ClientOK(d)
  BY DEF StreamInvariant
<1>1. /\ soon # <<>> /\ soon' = Tail(soon) /\ queue' = Enqueued(queue, Head(soon))
      /\ lost' = [d \in Client |-> IF Len(queue) = Cap /\ Head(queue).c = d
                                   THEN lost[d] \cup ({Head(queue).n} \ {Junk}) ELSE lost[d]]
      /\ UNCHANGED <<stream, listens, cache, ready, call, seen, attached, clock, out>>
  BY DEF Enqueue
<1>2. /\ soon' \in Seq(Pushed) /\ queue' \in Seq(Pushed) /\ Len(queue') <= Cap
      /\ Len(queue) # Cap => Line' = Line
      /\ Len(queue) = Cap => Leaves /\ Head(queue) = Line[1]
  BY <1>0, <1>1, LineEnqueued
<1>3. Len(queue) = Cap => /\ Line[1].n \in Nat \cup {Junk} /\ 1 \in DOMAIN Line
                          /\ Line[1] \in Pushed
  BY <1>2, Leaving, PushedIs
<1>4. lost' \in [Client -> SUBSET Nat]
  <2>1. lost \in [Client -> SUBSET Nat]
    BY <1>0 DEF StreamTyped
  <2>2. Len(queue) = Cap => {Head(queue).n} \ {Junk} \subseteq Nat
    BY <1>2, <1>3
  <2>3. ASSUME NEW d \in Client
        PROVE  lost'[d] \in SUBSET Nat
    <3>1. lost[d] \subseteq Nat
      BY <2>1
    <3>2. lost'[d] = IF Len(queue) = Cap /\ Head(queue).c = d
                     THEN lost[d] \cup ({Head(queue).n} \ {Junk}) ELSE lost[d]
      BY <1>1
    <3> QED
      BY <2>2, <3>1, <3>2
  <2>4. lost' = [d \in Client |-> lost'[d]]
    BY <1>1
  <2> QED
    BY <2>3, <2>4
<1>5. StreamTyped'
  BY <1>0, <1>1, <1>2, <1>4 DEF StreamTyped, stream
<1>6. LineRises'
  BY <1>0, <1>2, LeavingRises DEF LineRises
<1>7. ASSUME NEW d \in Client
      PROVE  ClientOK(d)'
  <2>1. SameClient(d) /\ Upstream(d)' = Upstream(d) /\ Attaching(d)'
        /\ (parser'[d].torn => wire'[d] # <<>>)
    <3>1. SameClient(d) /\ Upstream(d)' = Upstream(d)
      BY <1>1 DEF SameClient, Upstream, stream
    <3> QED
      BY <1>0, <1>1, <3>1 DEF ClientOK, Attaching, stream
  <2>2. /\ lost[d] \subseteq lost'[d] /\ lost[d] \subseteq Nat
        /\ Len(queue) = Cap /\ Line[1].c = d => Line[1].n \in lost'[d] \cup {Junk}
        /\ ~(Len(queue) = Cap /\ Line[1].c = d) => lost'[d] = lost[d]
        /\ lost'[d] \subseteq lost[d] \cup ({Line[1].n} \ {Junk})
    <3>1. lost'[d] = IF Len(queue) = Cap /\ Line[1].c = d
                     THEN lost[d] \cup ({Line[1].n} \ {Junk}) ELSE lost[d]
      BY <1>1, <1>2
    <3>2. lost[d] \subseteq Nat
      BY <1>0, NumbersAre
    <3> QED
      BY <3>1, <3>2
  <2>3. LostKnown(d)'
    <3>1. \A n \in lost[d] : n <= encoder[d].n
      BY <1>0, <2>2 DEF ClientOK, Follows
    <3>2. Len(queue) = Cap /\ Line[1].c = d /\ Line[1].n # Junk => Line[1].n <= encoder[d].n
      <4>1. SUFFICES ASSUME Len(queue) = Cap, Line[1].c = d, Line[1].n # Junk
                     PROVE  Line[1].n <= encoder[d].n
        OBVIOUS
      <4>2. Line[1].n \in Nat /\ InLine(d, Line[1].n)
        BY <1>3, <4>1 DEF InLine
      <4> QED
        BY <1>0, <4>2 DEF ClientOK, Follows
    <3>3. encoder' = encoder
      BY <1>1 DEF stream
    <3> QED
      BY <2>2, <3>1, <3>2, <3>3 DEF LostKnown
  <2>4. parser' = parser /\ wire' = wire
    BY <1>1 DEF stream
  <2>5. CASE Len(queue) # Cap
    <3>1. UpstreamKept(d)
      BY <2>1, <2>2 DEF UpstreamKept
    <3> QED
      BY <1>0, <1>1, <1>2, <2>1, <2>3, <2>5, <3>1, LineSame
  <2>6. CASE Len(queue) = Cap
    BY <1>0, <1>1, <1>2, <2>1, <2>2, <2>3, <2>4, <2>6, LineLeft
  <2> QED
    BY <2>5, <2>6
<1> QED
  BY <1>5, <1>6, <1>7 DEF StreamInvariant

\* What the sender takes is the first packet in line.
LEMMA Received ==
    ASSUME StreamTyped, Recv
    PROVE  /\ Leaves /\ Head(queue) = Line[1] /\ Line[1] \in Pushed /\ 1 \in DOMAIN Line
           /\ Line[1].c \in Client /\ out' \in [Client -> Taken]
           /\ out'[Line[1].c] = IF Line[1].n = Junk THEN [out[Line[1].c] EXCEPT !.pts = Line[1].pts]
                                ELSE Line[1]
           /\ Line[1].n = Junk => /\ out'[Line[1].c].n = out[Line[1].c].n
                                  /\ out'[Line[1].c].pts = Line[1].pts
           /\ \A d \in Client : d # Line[1].c => out'[d] = out[d]
<1>1. queue # <<>> /\ queue' = Tail(queue) /\ soon' = soon
  BY DEF Recv
<1>2. Leaves /\ Head(queue) = Line[1]
  BY <1>1, LineReceived
<1>3. Line[1] \in Pushed /\ 1 \in DOMAIN Line
  BY <1>2, Leaving
<1> DEFINE p == Line[1]
<1>4. p.c \in Client /\ p.pts \in Nat /\ (p.n # Junk => p \in Taken) /\ out \in [Client -> Taken]
  BY <1>3, PushedIs DEF StreamTyped
<1>5. PICK q : q = IF p.n = Junk THEN [out[p.c] EXCEPT !.pts = p.pts] ELSE p
  OBVIOUS
<1>6. out' = [out EXCEPT ![p.c] = q]
  BY <1>2, <1>4, <1>5 DEF Recv
<1>7. q \in Taken /\ (p.n = Junk => q.n = out[p.c].n /\ q.pts = p.pts)
  <2>1. CASE p.n = Junk
    <3>1. out[p.c] \in Taken
      BY <1>4
    <3> HIDE DEF p
    <3>2. q = [out[p.c] EXCEPT !.pts = p.pts]
      BY <1>5, <2>1
    <3> QED
      BY <1>4, <3>1, <3>2 DEF Taken
  <2>2. CASE p.n # Junk
    BY <1>4, <1>5, <2>2
  <2> QED
    BY <2>1, <2>2
<1> HIDE DEF p
<1>8. /\ out'[p.c] = q /\ out' \in [Client -> Taken]
      /\ \A d \in Client : d # p.c => out'[d] = out[d]
  BY <1>4, <1>6, <1>7
<1>9. /\ out'[p.c] = IF p.n = Junk THEN [out[p.c] EXCEPT !.pts = p.pts] ELSE p
      /\ p.n = Junk => out'[p.c].n = out[p.c].n /\ out'[p.c].pts = p.pts
  BY <1>5, <1>7, <1>8
<1> QED
  BY <1>2, <1>3, <1>4, <1>8, <1>9 DEF p

LEMMA RecvKeeps ==
    ASSUME StreamInvariant, Recv
    PROVE  StreamInvariant'
<1>0. StreamTyped /\ LineRises /\ \A d \in Client : ClientOK(d)
  BY DEF StreamInvariant
<1>1. /\ queue # <<>> /\ queue' = Tail(queue)
      /\ UNCHANGED <<encoder, wire, parser, running, listens, cache, ready, call, seen, attached,
                     clock, soon, lost>>
  BY DEF Recv, stream
<1>2. /\ Leaves /\ Line[1] \in Pushed /\ out' \in [Client -> Taken]
      /\ out'[Line[1].c] = IF Line[1].n = Junk THEN [out[Line[1].c] EXCEPT !.pts = Line[1].pts]
                           ELSE Line[1]
      /\ Line[1].n = Junk => /\ out'[Line[1].c].n = out[Line[1].c].n
                             /\ out'[Line[1].c].pts = Line[1].pts
      /\ \A d \in Client : d # Line[1].c => out'[d] = out[d]
  BY <1>0, Received
<1>3. StreamTyped'
  <2>1. queue' \in Seq(Pushed) /\ Len(queue') <= Cap
    <3>1. queue \in Seq(Pushed) /\ Len(queue) <= Cap /\ Cap \in Nat
      BY <1>0, StreamAssumption DEF StreamTyped
    <3>2. Tail(queue) \in Seq(Pushed) /\ Len(Tail(queue)) = Len(queue) - 1 /\ Len(queue) \in Nat
      BY <1>1, <3>1, HeadAndTail
    <3> QED
      BY <1>1, <3>1, <3>2
  <2> QED
    BY <1>0, <1>1, <1>2, <2>1 DEF StreamTyped
<1>4. LineRises'
  BY <1>0, <1>2, LeavingRises
<1>5. ASSUME NEW d \in Client
      PROVE  ClientOK(d)'
  <2>1. SameClient(d) /\ Upstream(d)' = Upstream(d)
    BY <1>1 DEF SameClient, Upstream
  <2>2. Attaching(d)' /\ LostKnown(d)'
    <3>1. lost[d] \subseteq Nat
      BY <1>0, NumbersAre
    <3> QED
      BY <1>0, <1>1, <3>1 DEF ClientOK, Attaching, Follows, LostKnown
  <2>3. \/ out'[d] = out[d] /\ Line[1].c # d
        \/ out'[d].n = out[d].n /\ out'[d].pts = Line[1].pts /\ Line[1].c = d /\ Line[1].n = Junk
        \/ out'[d] = Line[1] /\ Line[1].c = d /\ Line[1].n # Junk
    <3>1. CASE Line[1].c # d
      BY <1>2, <3>1
    <3>2. CASE Line[1].c = d /\ Line[1].n = Junk
      BY <1>2, <3>2
    <3>3. CASE Line[1].c = d /\ Line[1].n # Junk
      BY <1>2, <3>3
    <3> QED
      BY <3>1, <3>2, <3>3
  <2> QED
    BY <1>0, <1>1, <1>2, <2>1, <2>2, <2>3, LineLeft
<1> QED
  BY <1>3, <1>4, <1>5 DEF StreamInvariant

\* A step that moves the peer, or stops or starts a client.
LEMMA PeerMovesKeeps ==
    ASSUME StreamInvariant,
           UNCHANGED <<encoder, wire, parser, cache, ready, call, seen, clock, track, lost>>,
           running' \in [Client -> BOOLEAN], listens' \in [Client -> BOOLEAN],
           attached' \in 0 .. 2, attached <= attached',
           \A d \in Client : listens'[d] => attached' = d /\ (listens[d] \/ seen[d] = 0)
    PROVE  StreamInvariant'
<1>0. StreamTyped /\ LineRises /\ \A d \in Client : ClientOK(d)
  BY DEF StreamInvariant
<1>1. StreamTyped'
  BY <1>0 DEF StreamTyped, track
<1>2. Line' = Line /\ out' = out /\ \A d \in Client : Upstream(d)' = Upstream(d)
  BY DEF Line, Upstream, track
<1>3. LineRises'
  BY <1>0, <1>2 DEF LineRises
<1>4. ASSUME NEW d \in Client
      PROVE  ClientOK(d)'
  <2>1. SameClient(d) /\ UpstreamKept(d)
    BY <1>2 DEF SameClient, UpstreamKept
  <2>2. Attaching(d)'
    <3>1. attached' < d => attached < d
      BY <1>0 DEF StreamTyped, Client
    <3> QED
      BY <1>0, <3>1 DEF ClientOK, Attaching
  <2>3. LostKnown(d)' /\ (parser'[d].torn => wire'[d] # <<>>)
    <3>1. lost[d] \subseteq Nat
      BY <1>0, NumbersAre
    <3> QED
      BY <1>0, <3>1 DEF ClientOK, Follows, LostKnown
  <2> QED
    BY <1>0, <1>2, <2>1, <2>2, <2>3, LineSame
<1> QED
  BY <1>1, <1>3, <1>4 DEF StreamInvariant

LEMMA AttachKeeps ==
    ASSUME StreamInvariant, NEW c \in Client, Attach(c)
    PROVE  StreamInvariant'
<1>1. StreamTyped /\ Attaching(c)
  BY DEF StreamInvariant, ClientOK
<1>2. attached < c /\ attached' = c /\ listens' = [d \in Client |-> d = c]
      /\ UNCHANGED <<encoder, wire, parser, running, cache, ready, call, seen, clock, track, lost>>
  BY DEF Attach, ListensOnly, stream
<1>3. seen[c] = 0
  BY <1>1, <1>2 DEF Attaching
<1>4. attached' \in 0 .. 2 /\ attached <= attached'
  BY <1>1, <1>2 DEF StreamTyped, Client
<1>5. listens' \in [Client -> BOOLEAN] /\ \A d \in Client : listens'[d] <=> d = c
  BY <1>2
<1>6. running' \in [Client -> BOOLEAN]
  BY <1>1, <1>2 DEF StreamTyped
<1> QED
  BY <1>2, <1>3, <1>4, <1>5, <1>6, PeerMovesKeeps

LEMMA StopKeeps ==
    ASSUME StreamInvariant, Stop
    PROVE  StreamInvariant'
<1>1. StreamTyped /\ \A d \in Client : Attaching(d)
  BY DEF StreamInvariant, ClientOK
<1>2. running' \in [Client -> BOOLEAN]
  BY <1>1 DEF StreamTyped, Stop
<1> QED
  BY <1>1, <1>2, PeerMovesKeeps DEF Stop, StreamTyped, Attaching

LEMMA ReplaceKeeps ==
    ASSUME StreamInvariant, Replace
    PROVE  StreamInvariant'
<1>1. StreamTyped /\ \A d \in Client : Attaching(d)
  BY DEF StreamInvariant, ClientOK
<1>2. listens \in [Client -> BOOLEAN] /\ running \in [Client -> BOOLEAN] /\ attached \in 0 .. 2
  BY <1>1 DEF StreamTyped
<1>3. running' \in [Client -> BOOLEAN] /\ listens' \in [Client -> BOOLEAN]
      /\ \A d \in Client : listens'[d] => listens[d]
  BY <1>2 DEF Replace
<1> QED
  BY <1>1, <1>2, <1>3, PeerMovesKeeps DEF Replace, Attaching

LEMMA StreamInvariantInit ==
    StreamInit => StreamInvariant
<1> SUFFICES ASSUME StreamInit
             PROVE  StreamInvariant
  OBVIOUS
<1>1. /\ encoder = [c \in Client |-> [sent |-> 0, bogus |-> 0, n |-> 0, next |-> {"config"}]]
      /\ wire = [c \in Client |-> <<>>] /\ ready = [c \in Client |-> <<>>]
      /\ parser = [c \in Client |-> [torn |-> FALSE, junk |-> 0]]
      /\ call = [c \in Client |-> None] /\ seen = [c \in Client |-> 0]
      /\ listens = [c \in Client |-> FALSE]
      /\ cache = [c \in Client |-> [params |-> FALSE, key |-> 0]]
      /\ out = [c \in Client |-> NonePacket(c)] /\ soon = <<>> /\ queue = <<>>
      /\ running = [c \in Client |-> c = 1] /\ attached = 0
      /\ clock = [offset |-> 0, last |-> -1] /\ lost = [c \in Client |-> {}]
  BY DEF StreamInit
<1>2. <<>> \in Seq(Sent) /\ <<>> \in Seq(Parsed) /\ <<>> \in Seq(Pushed) /\ Len(<<>>) = 0
  BY EmptySeq
<1>3. StreamTyped
  <2>1. encoder \in [Client -> Encoder] /\ encoder[1].sent = 0 /\ encoder[2].sent = 0
    BY <1>1 DEF Client, Nexts, Encoder
  <2>2. /\ wire \in [Client -> Seq(Sent)] /\ ready \in [Client -> Seq(Parsed)]
        /\ soon \in Seq(Pushed) /\ queue \in Seq(Pushed) /\ Len(queue) <= Cap
    BY <1>1, <1>2, StreamAssumption
  <2>3. /\ call \in [Client -> Parsed \cup {None}] /\ seen \in [Client -> Nat \cup {Junk}]
        /\ running \in [Client -> BOOLEAN] /\ listens \in [Client -> BOOLEAN]
        /\ attached \in 0 .. 2 /\ clock \in [offset : Nat, last : Nat \cup {-1}]
        /\ lost \in [Client -> SUBSET Nat]
    BY <1>1
  <2>4. cache \in [Client -> Params]
    BY <1>1 DEF Params
  <2>5. out \in [Client -> Taken]
    BY <1>1 DEF Taken, NonePacket
  <2>6. encoder[1].sent + encoder[2].sent <= MaxPackets
    BY <2>1, StreamAssumption
  <2>7. parser \in [Client -> [torn : BOOLEAN, junk : Nat]]
        /\ parser[1].junk + parser[2].junk <= MaxJunk
    BY <1>1, StreamAssumption DEF Client
  <2> QED
    BY <2>1, <2>2, <2>3, <2>4, <2>5, <2>6, <2>7 DEF StreamTyped
<1>4. DOMAIN Line = {} /\ \A c \in Client : DOMAIN Upstream(c) = {}
  <2>1. Line = <<>> /\ \A c \in Client : Upstream(c) = <<>>
    BY <1>1, <1>2, ConcatEmptySeq DEF Line, Upstream
  <2> QED
    BY <2>1
<1>5. LineRises
  BY <1>4 DEF LineRises
<1>6. ASSUME NEW c \in Client
      PROVE  ClientOK(c)
  <2>1. /\ encoder[c].n = 0 /\ encoder[c].next = {"config"} /\ call[c] = None /\ seen[c] = 0
        /\ ~listens[c] /\ cache[c].key = 0 /\ out[c] = NonePacket(c) /\ ~parser[c].torn
        /\ clock.last = -1 /\ DOMAIN Upstream(c) = {} /\ lost[c] = {}
    BY <1>1, <1>4
  <2>2. \A n : ~InLine(c, n) /\ ~InUpstream(c, n) /\ ~Calling(c, n)
    BY <1>4, <2>1, NoneIs DEF InLine, InUpstream, Calling
  <2>3. Attaching(c) /\ Caching(c) /\ UpstreamRises(c) /\ KeysOK(c) /\ ParamsFirst(c)
    BY <1>4, <2>1, NoneIs DEF Attaching, Caching, UpstreamRises, KeysOK, ParamsFirst
  <2>4. Follows(c) /\ Gate(c) /\ UpstreamWhole(c)
    BY <1>4, <2>1, <2>2 DEF Follows, Gate, UpstreamWhole, NonePacket
  <2>5. TimesOK(c)
    BY <1>4, <2>1 DEF TimesOK, NonePacket
  <2>6. Whole(c)
    BY <2>1, <2>2 DEF Whole, Opened, NonePacket
  <2> QED
    BY <2>1, <2>3, <2>4, <2>5, <2>6 DEF ClientOK
<1> QED
  BY <1>3, <1>5, <1>6 DEF StreamInvariant

LEMMA StreamInvariantStep ==
    StreamInvariant /\ [StreamNext]_streamVars => StreamInvariant'
<1> SUFFICES ASSUME StreamInvariant, [StreamNext]_streamVars
             PROVE  StreamInvariant'
  OBVIOUS
<1>1. ASSUME NEW c \in Client, Emits(c) \/ Garbles(c)
      PROVE  StreamInvariant'
  BY <1>1, EmitsKeeps, GarblesKeeps
<1>2. ASSUME NEW c \in Client, Parse(c) \/ Clear(c) \/ Misread(c)
      PROVE  StreamInvariant'
  BY <1>2, ParseKeeps, ClearKeeps, MisreadKeeps
<1>3. ASSUME NEW c \in Client, Handle(c) \/ DecodeFails(c)
      PROVE  StreamInvariant'
  BY <1>3, HandleKeeps, DecodeFailsKeeps
<1>4. ASSUME NEW c \in Client, Listen(c) \/ Attach(c)
      PROVE  StreamInvariant'
  BY <1>4, ListenKeeps, AttachKeeps
<1>5. CASE Enqueue \/ Recv
  BY <1>5, EnqueueKeeps, RecvKeeps
<1>6. CASE Stop \/ Replace
  BY <1>6, StopKeeps, ReplaceKeeps
<1>7. CASE UNCHANGED streamVars
  <2>1. StreamTyped /\ \A d \in Client : Attaching(d)
    BY DEF StreamInvariant, ClientOK
  <2> QED
    BY <1>7, <2>1, PeerMovesKeeps DEF streamVars, StreamTyped, Attaching, track, stream
<1> QED
  BY <1>1, <1>2, <1>3, <1>4, <1>5, <1>6, <1>7 DEF StreamNext

-----------------------------------------------------------------------------
(* What it gives.                                                            *)

LEMMA StreamTypes ==
    StreamInvariant => StreamTypeOK
<1> SUFFICES ASSUME StreamInvariant
             PROVE  StreamTypeOK
  OBVIOUS
<1>0. StreamTyped /\ \A c \in Client : ClientOK(c)
  BY DEF StreamInvariant
<1>1. /\ encoder \in [Client -> Encoder] /\ parser \in [Client -> [torn : BOOLEAN, junk : Nat]]
      /\ encoder[1].sent + encoder[2].sent <= MaxPackets /\ MaxPackets \in Nat
      /\ parser[1].junk + parser[2].junk <= MaxJunk /\ MaxJunk \in Nat
  BY <1>0, StreamAssumption DEF StreamTyped
<1>2. Seq(Sent) \subseteq Seq(Frame) /\ Seq(Parsed) \subseteq Seq(Frame)
      /\ Seq(Pushed) \subseteq Seq(Packet) /\ Parsed \subseteq Frame
  <2>1. Sent \subseteq Frame /\ Parsed \subseteq Frame /\ Pushed \subseteq Packet
    BY ComingIs DEF Pushed
  <2>2. \A S, T : S \subseteq T => Seq(S) \subseteq Seq(T)
    BY SeqMonotonic
  <2> QED
    BY <2>1, <2>2
<1>3. ASSUME NEW c \in Client
      PROVE  /\ encoder[c].sent \in 0 .. MaxPackets /\ parser[c].junk \in 0 .. MaxJunk
             /\ wire[c] \in Seq(Frame) /\ ready[c] \in Seq(Frame)
             /\ parser[c].torn => wire[c] # <<>>
             /\ cache[c].params \in BOOLEAN /\ cache[c].key \in Junk .. encoder[c].n
             /\ call[c] \in Frame \cup {None}
             /\ seen[c] \in Junk .. encoder[c].n /\ lost[c] \subseteq 0 .. encoder[c].n
             /\ out[c].n \in 0 .. encoder[c].n
             /\ listens[c] => attached = c
  <2>1. encoder[c].sent \in 0 .. MaxPackets /\ parser[c].junk \in 0 .. MaxJunk
    <3>1. encoder[1].sent \in Nat /\ encoder[2].sent \in Nat /\ (c = 1 \/ c = 2)
          /\ parser[1].junk \in Nat /\ parser[2].junk \in Nat
      BY <1>1 DEF Client, Encoder
    <3> QED
      BY <1>1, <3>1
  <2>2. wire[c] \in Seq(Frame) /\ ready[c] \in Seq(Frame) /\ call[c] \in Frame \cup {None}
    <3>1. wire[c] \in Seq(Sent) /\ ready[c] \in Seq(Parsed) /\ call[c] \in Parsed \cup {None}
      BY <1>0 DEF StreamTyped
    <3> QED
      BY <1>2, <3>1
  <2>3. /\ Caching(c) /\ Gate(c) /\ Follows(c) /\ Attaching(c)
        /\ parser[c].torn => wire[c] # <<>>
    BY <1>0 DEF ClientOK
  <2>4. cache[c].params \in BOOLEAN /\ cache[c].key \in Junk .. encoder[c].n
        /\ seen[c] \in Junk .. encoder[c].n
    BY <1>0, <2>3, NumbersAre DEF Caching, Gate, Junk
  <2>5. lost[c] \subseteq 0 .. encoder[c].n /\ out[c].n \in 0 .. encoder[c].n
    <3>1. lost[c] \subseteq Nat /\ out[c].n \in Nat /\ encoder[c].n \in Nat
      BY <1>0, NumbersAre
    <3> QED
      BY <2>3, <3>1 DEF Follows
  <2> QED
    BY <2>1, <2>2, <2>3, <2>4, <2>5 DEF Attaching
<1>4. /\ soon \in Seq(Packet) /\ queue \in Seq(Packet)
      /\ clock.offset \in Nat /\ clock.last \in Nat \cup {-1}
  BY <1>0, <1>2 DEF StreamTyped
<1>5. /\ running \in [Client -> BOOLEAN] /\ attached \in 0 .. 2 /\ Len(queue) <= Cap
  BY <1>0 DEF StreamTyped
<1> QED
  BY <1>3, <1>4, <1>5 DEF StreamTypeOK

\* Only Recv hands the sender a packet.
LEMMA OutMoves ==
    ASSUME StreamInvariant, [StreamNext]_streamVars, NEW c \in Client, out'[c] # out[c]
    PROVE  /\ Line[1].c = c /\ 1 \in DOMAIN Line /\ Line[1] \in Pushed
           /\ out'[c].pts = Line[1].pts
           /\ out'[c].n # out[c].n => Line[1].n # Junk /\ out'[c] = Line[1]
<1>0. StreamTyped
  BY DEF StreamInvariant
<1>1. Recv
  BY DEF StreamNext, streamVars, stream, track, Emits, Garbles, Parse, Clear, Misread, Handle,
         DecodeFails, Listen, Attach, Enqueue, Stop, Replace
<1> QED
  BY <1>0, <1>1, Received

\* The sender takes the frames of a stream one after the other.
LEMMA NextInLine ==
    ASSUME StreamInvariant, NEW c \in Client, Line[1].c = c, 1 \in DOMAIN Line, Line[1].n # Junk,
           Since(c) # Junk
    PROVE  Since(c) \in 1 .. Line[1].n /\ Since(c) .. Line[1].n - 1 \subseteq lost[c]
<1>0. StreamTyped /\ LineRises /\ Follows(c) /\ Whole(c) /\ Gate(c)
  BY DEF StreamInvariant, ClientOK
<1>1. /\ \A i \in DOMAIN Line : i \in Nat /\ (i = 1 \/ 1 < i) /\ Line[i].n \in Nat \cup {Junk}
      /\ Line[1].n \in Nat
  <2>1. /\ \A i \in DOMAIN Line : Line[i] \in Pushed
        /\ DOMAIN Line = 1 .. Len(Line) /\ Len(Line) \in Nat
    BY <1>0, LineIs
  <2>2. \A i \in DOMAIN Line : i \in Nat /\ (i = 1 \/ 1 < i)
    BY <2>1
  <2>3. \A i \in DOMAIN Line : Line[i].n \in Nat \cup {Junk}
    BY <2>1, PushedIs
  <2> QED
    BY <2>2, <2>3
<1>2. out[c].n \in Nat /\ encoder[c].n \in Nat /\ seen[c] \in Nat \cup {Junk}
  BY <1>0, NumbersAre
<1>3. InLine(c, Line[1].n)
  BY DEF InLine
<1>4. out[c].n < Line[1].n /\ Line[1].n <= encoder[c].n /\ seen[c] <= Line[1].n /\ seen[c] # 0
  BY <1>0, <1>1, <1>3 DEF Follows, Gate
<1>5. Since(c) \in Nat /\ Since(c) > 0 /\ Since(c) <= Line[1].n /\ out[c].n < Since(c)
  BY <1>1, <1>2, <1>4 DEF Since
<1>6. ASSUME NEW n \in Nat, Since(c) <= n, n < Line[1].n
      PROVE  n \in lost[c]
  <2>1. Due(c, n)
    BY <1>1, <1>3, <1>6 DEF Due
  <2>2. Opened(c, n)
    <3>1. CASE out[c].n = 0
      BY <1>5, <1>6, <3>1 DEF Opened, Since
    <3>2. CASE out[c].n # 0
      BY <1>2, <1>6, <3>2 DEF Opened, Since
    <3> QED
      BY <3>1, <3>2
  <2>3. ~(n <= out[c].n) /\ n <= encoder[c].n
    BY <1>1, <1>2, <1>4, <1>5, <1>6
  <2>4. n \in lost[c] \/ InLine(c, n) \/ Calling(c, n) \/ InUpstream(c, n)
    BY <1>0, <2>1, <2>2, <2>3 DEF Whole
  <2>5. ~InLine(c, n)
    <3>1. SUFFICES ASSUME NEW i \in DOMAIN Line, Line[i].c = c, Line[i].n = n
                   PROVE  FALSE
      BY DEF InLine
    <3>2. n # Junk
      BY <1>6 DEF Junk
    <3>3. i = 1 \/ Line[1].n < Line[i].n
      BY <1>0, <1>1, <3>1, <3>2 DEF LineRises
    <3> QED
      BY <1>1, <1>6, <3>1, <3>3
  <2>6. ~Calling(c, n) /\ ~InUpstream(c, n)
    <3>1. Calling(c, n) \/ InUpstream(c, n) => Line[1].n < n
      BY <1>0, <1>1, <1>3, <1>6 DEF Follows
    <3> QED
      BY <1>1, <1>6, <3>1
  <2> QED
    BY <2>4, <2>5, <2>6
<1>7. \A n \in Since(c) .. Line[1].n - 1 : n \in Nat /\ Since(c) <= n /\ n < Line[1].n
  BY <1>1, <1>5
<1>8. Since(c) \in 1 .. Line[1].n
  BY <1>1, <1>5
<1> QED
  BY <1>6, <1>7, <1>8

-----------------------------------------------------------------------------

LEMMA StreamInvariantHolds ==
    StreamSpec => []StreamInvariant
BY StreamInvariantInit, StreamInvariantStep, PTL DEF StreamSpec

\* The types; the frames that are cached, taken and lost are ones the device sent, the
\* listener is registered on the attached client alone, and the track's queue never
\* exceeds its maxsize (_enqueue of video_track.py).
THEOREM StreamTypeCorrect ==
    StreamSpec => []StreamTypeOK
BY StreamInvariantHolds, StreamTypes, PTL

\* From the keyframe that opened the gate on, the sender takes each frame of a stream
\* in its turn, but for those the parser dropped or the queue evicted, whatever the
\* parser reads after a bogus header, and whatever the cache, the listener's gate, the
\* event loop, the queue and a reconfigure do in between (_consume_video_packets of
\* scrcpycore.py, _listener of peer_manager.py, push_bootstrap, push_frame and recv of
\* video_track.py).
THEOREM StreamPlayable ==
    StreamSpec => Playable
<1>1. ASSUME StreamInvariant, [StreamNext]_streamVars, NEW c \in Client,
             out'[c].n # out[c].n
      PROVE  /\ out'[c].n > out[c].n
             /\ Since(c) # Junk => /\ Since(c) \in 1 .. out'[c].n
                                   /\ Since(c) .. out'[c].n - 1 \subseteq lost[c]
             /\ out'[c].n = seen[c] => out'[c].kind = "key"
             /\ out'[c].kind = "key" => out'[c].params \/ 0 \in lost[c]
  <2>1. /\ Line[1].c = c /\ out'[c] = Line[1] /\ 1 \in DOMAIN Line
        /\ Line[1] \in Pushed /\ Line[1].n # Junk
    BY <1>1, OutMoves
  <2>2. StreamTyped /\ Follows(c) /\ KeysOK(c)
    BY <1>1 DEF StreamInvariant, ClientOK
  <2>3. out'[c].n > out[c].n
    <3>1. Line[1].n \in Nat /\ InLine(c, Line[1].n) /\ out[c].n \in Nat
      BY <2>1, <2>2, PushedIs, NumbersAre DEF InLine
    <3> QED
      BY <2>1, <2>2, <3>1 DEF Follows
  <2>4. Since(c) # Junk => /\ Since(c) \in 1 .. out'[c].n
                           /\ Since(c) .. out'[c].n - 1 \subseteq lost[c]
    BY <1>1, <2>1, NextInLine
  <2>5. /\ out'[c].n = seen[c] => out'[c].kind = "key"
        /\ out'[c].kind = "key" => out'[c].params \/ 0 \in lost[c]
    BY <2>1, <2>2 DEF KeysOK
  <2> QED
    BY <2>3, <2>4, <2>5
<1>2. StreamInvariant /\ [StreamNext]_streamVars =>
        [\A c \in Client : out'[c].n # out[c].n =>
           /\ out'[c].n > out[c].n
           /\ Since(c) # Junk => /\ Since(c) \in 1 .. out'[c].n
                                 /\ Since(c) .. out'[c].n - 1 \subseteq lost[c]
           /\ out'[c].n = seen[c] => out'[c].kind = "key"
           /\ out'[c].kind = "key" => out'[c].params \/ 0 \in lost[c]]_streamVars
  BY <1>1
<1> QED
  BY <1>2, StreamInvariantHolds, PTL DEF StreamSpec, Playable

\* Within a stream the times of the packets the sender takes rise strictly, for
\* every clock of the device and whatever the parser makes up (Rising: the monotonic
\* guard of _push_packet).
THEOREM StreamTimesRise ==
    StreamSpec => TimesRise
<1>1. ASSUME StreamInvariant, [StreamNext]_streamVars, NEW c \in Client, out'[c] # out[c]
      PROVE  out'[c].pts > out[c].pts
  <2>1. Line[1].c = c /\ out'[c].pts = Line[1].pts /\ 1 \in DOMAIN Line /\ Line[1] \in Pushed
    BY <1>1, OutMoves
  <2>2. StreamTyped /\ TimesOK(c)
    BY <1>1 DEF StreamInvariant, ClientOK
  <2>3. out[c].pts < Line[1].pts
    BY <2>1, <2>2 DEF TimesOK
  <2> QED
    BY <2>1, <2>2, <2>3, NumbersAre, PushedIs
<1>2. StreamInvariant /\ [StreamNext]_streamVars =>
        [\A c \in Client : out'[c] # out[c] => out'[c].pts > out[c].pts]_streamVars
  BY <1>1
<1> QED
  BY <1>2, StreamInvariantHolds, PTL DEF StreamSpec, TimesRise
=============================================================================
