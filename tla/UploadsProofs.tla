--------------------------- MODULE UploadsProofs ---------------------------
(* Theorems of Uploads, for every value of its constants: any number of      *)
(* files, of keys, of chunks and of connections lost.                        *)
(*                                                                           *)
(* The parts of the invariant are about one upload each, and are written     *)
(* over the values of its state: t is the tab, c its connection, s and r     *)
(* what is under way to and from the server, x its transfer, q a finaliser,  *)
(* g what the device got.                                                    *)
EXTENDS Uploads, SequenceTheorems, TLAPS

Tab == [at : {"idle", "ok", "failed"} \cup Busy, kind : Kind, force : BOOLEAN, seq : 0 .. Chunks]
Conn == [drops : 0 .. MaxDrops, open : BOOLEAN]
Finaliser == [at : Step, whole : BOOLEAN, verdict : Verdict, conn : 0 .. MaxDrops]
Given == {"nothing", "cut", "whole"}
Msg == [t : {"push", "chunk", "end"}, seq : 0 .. Chunks]
Reply == {"ready", "ok", "error", "mismatch"}
Final == {"ok", "mismatch"}

EndIn(s) == \E i \in 1 .. Len(s) : s[i].t = "end"
PushIn(s) == \E i \in 1 .. Len(s) : s[i].t = "push"
FinalIn(r) == \E i \in 1 .. Len(r) : r[i] \in Final
ReadyIn(r) == \E i \in 1 .. Len(r) : r[i] = "ready"
ErrorIn(r) == \E i \in 1 .. Len(r) : r[i] = "error"

WireOK(c, s) ==
    /\ \A i \in 1 .. Len(s) : s[i].t = "chunk" => s[i].seq < Chunks
    /\ ~c.open => s = <<>>

TabOK(t) ==
    /\ t.at = "stream" => t.seq < Chunks
    /\ t.at \in {"idle", "asked"} => t.seq = 0

\* The tab asks once, and is told once to stream.
PushOnce(t, s, r) ==
    /\ t.at \in {"idle", "stream", "ended"} => ~PushIn(s) /\ ~ReadyIn(r)
    /\ PushIn(s) => ~ReadyIn(r)
    /\ \A i, k \in 1 .. Len(s) : s[i].t = "push" /\ s[k].t = "push" => i = k
    /\ \A i, k \in 1 .. Len(r) : r[i] = "ready" /\ r[k] = "ready" => i = k

\* A file.end is sent once: it is under way, or its finaliser is at work, or the
\* verdict is under way, or heard, or lost.
EndOnce(t, s, r, q) ==
    /\ EndIn(s) => t.at \in {"ended", "failed"} /\ q.at = "idle" /\ ~FinalIn(r)
    /\ q.at # "idle" => t.at \in {"ended", "failed"} /\ ~FinalIn(r)
    /\ FinalIn(r) => t.at \in {"ended", "failed"}
    /\ \A i, k \in 1 .. Len(r) : r[i] \in Final /\ r[k] \in Final => i = k

\* The last chunk is right before the file.end, until it is taken; then it was
\* the last one missing, or the tab will hear, before any verdict, that it was not.
EndAfterAll(t, s, r, x) ==
    \A i \in 1 .. Len(s) : s[i].t = "end" =>
       /\ i = Len(s)
       /\ IF i = 1 THEN x \in {-1, Chunks} \/ t.at \notin Waiting \/ ErrorIn(r)
          ELSE s[i - 1] = Message("chunk", Chunks - 1)

\* A file that is cut is finalised for a tab that waits no more, or has the error
\* under way, or lost the connection the verdict is for.
CutIsTold(t, c, r, q) ==
    q.at # "idle" => /\ q.conn <= c.drops
                     /\ ~q.whole /\ q.conn = c.drops /\ t.at \in Waiting => ErrorIn(r)

OkIsWhole(t, r, g) ==
    \A i \in 1 .. Len(r) : r[i] = "ok" /\ t.at \in Waiting =>
       g = "whole" \/ \E k \in 1 .. i - 1 : r[k] = "error"

Gave(q, g) == q.at # "idle" /\ q.verdict = "ok" /\ q.whole => g = "whole"

\* The form is at work for a tab that waits for it, which none else then serves.
FormOK(t, q, force) ==
    q.at # "idle" => q.whole /\ t.at = "form" /\ t.force = force

\* Only an apk is installed, and only with force is anything uninstalled for it.
ApkOK(t, q, path) ==
    /\ q.at \in {"install", "uninstall", "retry", "clean"} => t.kind # "file"
    /\ q.at = "uninstall" => path = "forced" /\ q.verdict = "mismatch"

JobsOK(t, qs, g) ==
    /\ \A p \in Path : Gave(qs[p], g) /\ ApkOK(t, qs[p], p)
    /\ FormOK(t, qs["form"], FALSE) /\ FormOK(t, qs["forced"], TRUE)

JobsOf(u) == [p \in Path |-> job[<<u, p>>]]

UpOK(t, c, s, r, x, qs, g) ==
    /\ WireOK(c, s) /\ TabOK(t) /\ PushOnce(t, s, r)
    /\ EndOnce(t, s, r, qs["channel"])
    /\ EndAfterAll(t, s, r, x)
    /\ CutIsTold(t, c, r, qs["channel"])
    /\ OkIsWhole(t, r, g)
    /\ JobsOK(t, qs, g)
    /\ t.at = "ok" => g = "whole"

UploadOK(u) == UpOK(tab[u], conn[u], sent[u], replies[u], transfers[u], JobsOf(u), given[u])

LoopOK == loop = {u \in Uploads : Working(Channel(u))} /\ \A u, v \in loop : u = v

\* Who left the device without the app has not heard ok.
Told ==
    app = "none" => \E u \in Uploads :
        /\ tab[u].force
        /\ \/ tab[u].at = "failed"
           \/ /\ job[<<u, "forced">>].at \in {"retry", "clean", "answer"}
              /\ job[<<u, "forced">>].verdict # "ok"

\* TypeOK, with the sequences as such.
Typed ==
    /\ tab \in [Uploads -> Tab] /\ conn \in [Uploads -> Conn]
    /\ sent \in [Uploads -> Seq(Msg)] /\ replies \in [Uploads -> Seq(Reply)]
    /\ transfers \in [Uploads -> -1 .. Chunks]
    /\ job \in [Job -> Finaliser]
    /\ files \subseteq {"server", "device"} \X Job
    /\ app \in Keys \cup {"none"}
    /\ given \in [Uploads -> Given]

Invariant ==
    /\ Typed
    /\ LoopOK
    /\ \A u \in Uploads : UploadOK(u)
    /\ Told

-----------------------------------------------------------------------------
(* Sequences, and what is on the wire when a message is added or taken.      *)

LEMMA TailIs ==
    ASSUME NEW S, NEW s \in Seq(S), s # <<>>
    PROVE  /\ Tail(s) \in Seq(S) /\ Len(s) \in Nat /\ Len(s) >= 1
           /\ Len(Tail(s)) = Len(s) - 1
           /\ \A i \in 1 .. Len(s) - 1 : Tail(s)[i] = s[i + 1]
           /\ Head(s) = s[1] /\ s[1] \in S
OBVIOUS

LEMMA AppendIs ==
    ASSUME NEW S, NEW s \in Seq(S), NEW e \in S
    PROVE  /\ Append(s, e) \in Seq(S) /\ Len(s) \in Nat
           /\ Len(Append(s, e)) = Len(s) + 1
           /\ \A i \in 1 .. Len(s) : Append(s, e)[i] = s[i]
           /\ Append(s, e)[Len(s) + 1] = e
OBVIOUS

LEMMA ConcatIs ==
    ASSUME NEW S, NEW s \in Seq(S), NEW e \in S, NEW f \in S
    PROVE  /\ s \o <<e>> = Append(s, e)
           /\ s \o (<<e>> \o <<>>) = Append(s, e)
           /\ s \o (<<e>> \o <<f>>) = Append(Append(s, e), f)
<1>1. <<e>> \in Seq(S) /\ <<f>> \in Seq(S) /\ <<e, f>> \in Seq(S)
  OBVIOUS
<1>2. <<e>> \o <<>> = <<e>>
  BY <1>1, ConcatEmptySeq
<1>3. <<e>> \o <<f>> = <<e, f>>
  <2>1. /\ <<e>> \o <<f>> \in Seq(S)
        /\ Len(<<e>> \o <<f>>) = 2
        /\ (<<e>> \o <<f>>)[1] = e /\ (<<e>> \o <<f>>)[2] = f
    BY <1>1, ConcatProperties
  <2>2. \A i \in 1 .. 2 : (<<e>> \o <<f>>)[i] = <<e, f>>[i]
    BY <2>1
  <2>3. Len(<<e, f>>) = 2
    OBVIOUS
  <2>4. \A i \in 1 .. Len(<<e>> \o <<f>>) : (<<e>> \o <<f>>)[i] = <<e, f>>[i]
    BY <2>1, <2>2
  <2>5. Len(<<e>> \o <<f>>) = Len(<<e, f>>)
    BY <2>1, <2>3
  <2> QED
    BY <1>1, <2>1, <2>4, <2>5, SeqEqual
<1>4. s \o <<e>> = Append(s, e)
  OBVIOUS
<1>5. s \o <<e, f>> = Append(Append(s, e), f)
  OBVIOUS
<1> QED
  BY <1>2, <1>3, <1>4, <1>5

LEMMA TailHas ==
    ASSUME NEW S, NEW s \in Seq(S), s # <<>>
    PROVE  /\ PushIn(Tail(s)) => PushIn(s)
           /\ EndIn(Tail(s)) => EndIn(s)
           /\ ReadyIn(Tail(s)) => ReadyIn(s)
           /\ FinalIn(Tail(s)) => FinalIn(s)
           /\ ErrorIn(s) /\ s[1] # "error" => ErrorIn(Tail(s))
<1>1. /\ Len(s) \in Nat /\ Len(s) >= 1 /\ Len(Tail(s)) = Len(s) - 1
      /\ \A i \in 1 .. Len(s) - 1 : Tail(s)[i] = s[i + 1]
  BY TailIs
<1>2. \A i \in 1 .. Len(s) - 1 : i + 1 \in 1 .. Len(s)
  BY <1>1
<1>3. \A i \in 1 .. Len(s) : i = 1 \/ (i - 1 \in 1 .. Len(s) - 1 /\ (i - 1) + 1 = i)
  BY <1>1
<1>4. ErrorIn(s) /\ s[1] # "error" => ErrorIn(Tail(s))
  <2> SUFFICES ASSUME NEW i \in 1 .. Len(s), s[i] = "error", s[1] # "error"
               PROVE  \E k \in 1 .. Len(Tail(s)) : Tail(s)[k] = "error"
    BY DEF ErrorIn
  <2>1. i - 1 \in 1 .. Len(s) - 1 /\ Tail(s)[i - 1] = s[(i - 1) + 1] /\ (i - 1) + 1 = i
    BY <1>1, <1>3
  <2> QED
    BY <1>1, <2>1
<1> QED
  BY <1>1, <1>2, <1>4 DEF PushIn, EndIn, ReadyIn, FinalIn

LEMMA AppendHas ==
    ASSUME NEW S, NEW s \in Seq(S), NEW e \in S
    PROVE  /\ PushIn(Append(s, e)) <=> PushIn(s) \/ e.t = "push"
           /\ EndIn(Append(s, e)) <=> EndIn(s) \/ e.t = "end"
           /\ ReadyIn(Append(s, e)) <=> ReadyIn(s) \/ e = "ready"
           /\ FinalIn(Append(s, e)) <=> FinalIn(s) \/ e \in Final
           /\ ErrorIn(Append(s, e)) <=> ErrorIn(s) \/ e = "error"
<1>1. /\ Len(s) \in Nat /\ Len(Append(s, e)) = Len(s) + 1
      /\ \A i \in 1 .. Len(s) : Append(s, e)[i] = s[i]
      /\ Append(s, e)[Len(s) + 1] = e
  BY AppendIs
<1>2. \A i : i \in 1 .. Len(s) + 1 <=> i \in 1 .. Len(s) \/ i = Len(s) + 1
  BY <1>1
<1> QED
  BY <1>1, <1>2 DEF PushIn, EndIn, ReadyIn, FinalIn, ErrorIn

LEMMA EmptyHas ==
    /\ <<>> \in Seq(Msg) /\ <<>> \in Seq(Reply) /\ Len(<<>>) = 0
    /\ ~PushIn(<<>>) /\ ~EndIn(<<>>) /\ ~ReadyIn(<<>>) /\ ~FinalIn(<<>>) /\ ~ErrorIn(<<>>)
BY DEF PushIn, EndIn, ReadyIn, FinalIn, ErrorIn

LEMMA MessagesAre ==
    /\ Message("push", 0) \in Msg /\ Message("push", 0).t = "push"
    /\ Message("end", 0) \in Msg /\ Message("end", 0).t = "end"
    /\ \A i \in 0 .. Chunks : /\ Message("chunk", i) \in Msg
                              /\ Message("chunk", i).t = "chunk" /\ Message("chunk", i).seq = i
    /\ \A v \in {"ready", "ok", "error", "mismatch"} : v \in Reply
BY UploadsAssumption DEF Message, Msg, Reply

-----------------------------------------------------------------------------
(* A step that acts on one upload.                                           *)

LEMMA JobIs ==
    /\ \A j \in Job : j[1] \in Uploads /\ j[2] \in Path /\ j = <<j[1], j[2]>>
    /\ \A u \in Uploads, p \in Path :
          <<u, p>> \in Job /\ <<u, p>>[1] = u /\ <<u, p>>[2] = p
    /\ Path = {"channel", "form", "forced"}
    /\ \A u : Channel(u) = <<u, "channel">>
BY DEF Job, Path, Channel

LEMMA JobsAre ==
    ASSUME Typed, NEW u \in Uploads
    PROVE  /\ JobsOf(u) \in [Path -> Finaliser]
           /\ \A p \in Path : JobsOf(u)[p] = job[<<u, p>>]
BY JobIs DEF Typed, JobsOf

\* What the upload has after the step.
Puts(u, t, c, s, r, x, g) ==
    /\ tab' = [tab EXCEPT ![u] = t] /\ conn' = [conn EXCEPT ![u] = c]
    /\ sent' = [sent EXCEPT ![u] = s] /\ replies' = [replies EXCEPT ![u] = r]
    /\ transfers' = [transfers EXCEPT ![u] = x] /\ given' = [given EXCEPT ![u] = g]

LEMMA ActsInv ==
    ASSUME Invariant, NEW u \in Uploads,
           NEW t \in Tab, NEW c \in Conn, NEW s \in Seq(Msg), NEW r \in Seq(Reply),
           NEW x \in -1 .. Chunks, NEW qs \in [Path -> Finaliser], NEW g \in Given,
           Puts(u, t, c, s, r, x, g),
           job' \in [Job -> Finaliser],
           \A v \in Uploads, p \in Path :
              job'[<<v, p>>] = IF v = u THEN qs[p] ELSE job[<<v, p>>],
           files' \subseteq {"server", "device"} \X Job, app' \in Keys \cup {"none"},
           LoopOK', Told',
           UpOK(t, c, s, r, x, qs, g)
    PROVE  Invariant'
<1>1. Typed'
  BY DEF Invariant, Typed, Puts
<1>2. \A v \in Uploads : UploadOK(v)'
  <2> TAKE v \in Uploads
  <2>1. CASE v = u
    <3>1. JobsOf(u)' = qs
      BY DEF JobsOf
    <3>2. /\ tab'[u] = t /\ conn'[u] = c /\ sent'[u] = s /\ replies'[u] = r
          /\ transfers'[u] = x /\ given'[u] = g
      BY DEF Invariant, Typed, Puts
    <3> QED
      BY <2>1, <3>1, <3>2 DEF UploadOK
  <2>2. CASE v # u
    <3>1. JobsOf(v)' = JobsOf(v)
      BY <2>2 DEF JobsOf
    <3>2. /\ tab'[v] = tab[v] /\ conn'[v] = conn[v] /\ sent'[v] = sent[v]
          /\ replies'[v] = replies[v] /\ transfers'[v] = transfers[v] /\ given'[v] = given[v]
      BY <2>2 DEF Invariant, Typed, Puts
    <3> QED
      BY <3>1, <3>2 DEF Invariant, UploadOK
  <2> QED
    BY <2>1, <2>2
<1> QED
  BY <1>1, <1>2 DEF Invariant

LEMMA Now ==
    ASSUME Invariant, NEW u \in Uploads
    PROVE  /\ tab[u] \in Tab /\ conn[u] \in Conn /\ sent[u] \in Seq(Msg)
           /\ replies[u] \in Seq(Reply) /\ transfers[u] \in -1 .. Chunks
           /\ JobsOf(u) \in [Path -> Finaliser] /\ given[u] \in Given
           /\ JobsOf(u)["channel"] = job[Channel(u)]
           /\ JobsOf(u)["form"] = job[<<u, "form">>]
           /\ JobsOf(u)["forced"] = job[<<u, "forced">>]
           /\ UpOK(tab[u], conn[u], sent[u], replies[u], transfers[u], JobsOf(u), given[u])
<1>1. UpOK(tab[u], conn[u], sent[u], replies[u], transfers[u], JobsOf(u), given[u])
  BY DEF Invariant, UploadOK
<1>2. /\ tab[u] \in Tab /\ conn[u] \in Conn /\ sent[u] \in Seq(Msg)
      /\ replies[u] \in Seq(Reply) /\ transfers[u] \in -1 .. Chunks /\ given[u] \in Given
  BY DEF Invariant, Typed
<1>3. JobsOf(u) \in [Path -> Finaliser]
  <2>1. Typed
    BY DEF Invariant
  <2> QED
    BY <2>1, JobsAre
<1>4. /\ JobsOf(u)["channel"] = job[Channel(u)]
      /\ JobsOf(u)["form"] = job[<<u, "form">>]
      /\ JobsOf(u)["forced"] = job[<<u, "forced">>]
  <2>1. Typed
    BY DEF Invariant
  <2> QED
    BY <2>1, JobsAre, JobIs
<1> QED
  BY <1>1, <1>2, <1>3, <1>4

\* The finalisers go on as they were.
LEMMA TabInv ==
    ASSUME Invariant, NEW u \in Uploads,
           NEW t \in Tab, NEW c \in Conn, NEW s \in Seq(Msg), NEW r \in Seq(Reply),
           NEW x \in -1 .. Chunks, Puts(u, t, c, s, r, x, given[u]),
           UNCHANGED <<job, loop, app>>,
           files' \subseteq files \cup {Server(j) : j \in Job},
           tab[u].force => t.force, tab[u].at = "failed" => t.at = "failed",
           UpOK(t, c, s, r, x, JobsOf(u), given[u])
    PROVE  Invariant'
<1>1. PICK g, qs : g = given[u] /\ qs = JobsOf(u)
  OBVIOUS
<1>2. /\ job' \in [Job -> Finaliser] /\ qs \in [Path -> Finaliser]
      /\ \A v \in Uploads, p \in Path :
            job'[<<v, p>>] = IF v = u THEN qs[p] ELSE job[<<v, p>>]
      /\ g \in Given
  BY <1>1, JobsAre DEF Invariant, Typed
<1>3. files' \subseteq {"server", "device"} \X Job /\ app' \in Keys \cup {"none"}
  <2>1. {Server(j) : j \in Job} \subseteq {"server", "device"} \X Job
    BY DEF Server
  <2> QED
    BY <2>1 DEF Invariant, Typed
<1>4. LoopOK'
  BY DEF Invariant, LoopOK, Working
<1>6. Told'
  <2> SUFFICES ASSUME app = "none"
               PROVE  \E v \in Uploads :
                 /\ tab'[v].force
                 /\ \/ tab'[v].at = "failed"
                    \/ /\ job[<<v, "forced">>].at \in {"retry", "clean", "answer"}
                       /\ job[<<v, "forced">>].verdict # "ok"
    BY DEF Told
  <2>1. PICK w \in Uploads :
           /\ tab[w].force
           /\ \/ tab[w].at = "failed"
              \/ /\ job[<<w, "forced">>].at \in {"retry", "clean", "answer"}
                 /\ job[<<w, "forced">>].verdict # "ok"
    BY DEF Invariant, Told
  <2>2. tab'[w].force /\ (tab[w].at = "failed" => tab'[w].at = "failed")
    BY <2>1 DEF Invariant, Typed, Puts
  <2> QED
    BY <2>1, <2>2
<1>7. UpOK(t, c, s, r, x, qs, g) /\ Puts(u, t, c, s, r, x, g)
  BY <1>1
<1> QED
  BY <1>2, <1>3, <1>4, <1>6, <1>7, ActsInv

-----------------------------------------------------------------------------
(* The tab.                                                                  *)

\* What the finalisers ask of the tab holds of any tab that waits for none.
LEMMA AtRest ==
    ASSUME NEW t \in Tab, NEW u \in Tab, NEW qs \in [Path -> Finaliser], NEW g,
           JobsOK(t, qs, g), t.at # "form",
           u.kind = t.kind \/ qs["channel"].at = "idle"
    PROVE  JobsOK(u, qs, g) /\ qs["form"].at = "idle" /\ qs["forced"].at = "idle"
<1>1. qs["form"].at = "idle" /\ qs["forced"].at = "idle"
  BY DEF JobsOK, FormOK
<1>2. \A p \in Path : Gave(qs[p], g) /\ ApkOK(u, qs[p], p)
  BY <1>1 DEF JobsOK, ApkOK, Path
<1> QED
  BY <1>1, <1>2 DEF JobsOK, FormOK

LEMMA FailsOK ==
    ASSUME NEW t \in Tab, NEW c \in Conn, NEW s \in Seq(Msg), NEW r \in Seq(Reply),
           NEW x, NEW qs \in [Path -> Finaliser], NEW g,
           UpOK(t, c, s, r, x, qs, g), t.at # "form",
           NEW u \in Tab, u.at = "failed", u.kind = t.kind,
           t.at \in Waiting \cup {"failed"}
    PROVE  UpOK(u, c, s, r, x, qs, g)
<1>1. JobsOK(u, qs, g)
  BY AtRest DEF UpOK
<1>2. WireOK(c, s) /\ TabOK(u) /\ PushOnce(u, s, r) /\ OkIsWhole(u, r, g)
  BY DEF UpOK, TabOK, PushOnce, OkIsWhole, Waiting
<1>3. EndOnce(u, s, r, qs["channel"])
  BY DEF UpOK, EndOnce
<1>4. EndAfterAll(u, s, r, x)
  BY DEF UpOK, EndAfterAll, Waiting
<1>5. CutIsTold(u, c, r, qs["channel"])
  BY DEF UpOK, CutIsTold, Waiting
<1> QED
  BY <1>1, <1>2, <1>3, <1>4, <1>5 DEF UpOK

\* A variable that is left alone.
LEMMA Same ==
    ASSUME Invariant, NEW u \in Uploads
    PROVE  /\ tab = [tab EXCEPT ![u] = tab[u]] /\ conn = [conn EXCEPT ![u] = conn[u]]
           /\ sent = [sent EXCEPT ![u] = sent[u]]
           /\ replies = [replies EXCEPT ![u] = replies[u]]
           /\ transfers = [transfers EXCEPT ![u] = transfers[u]]
           /\ given = [given EXCEPT ![u] = given[u]]
BY DEF Invariant, Typed

LEMMA TimeoutInv ==
    ASSUME Invariant, NEW u \in Uploads, Timeout(u)
    PROVE  Invariant'
<1>1. PICK t : t = [tab[u] EXCEPT !.at = "failed"]
  OBVIOUS
<1>2. t \in Tab /\ t.at = "failed" /\ t.kind = tab[u].kind /\ t.force = tab[u].force
  BY <1>1, Now DEF Tab
<1>3. tab' = [tab EXCEPT ![u] = t] /\ tab[u].at \in Waiting
      /\ UNCHANGED <<conn, sent, replies, transfers, loop, job, files, app, given>>
  BY <1>1 DEF Timeout, Armed
<1>4. UpOK(t, conn[u], sent[u], replies[u], transfers[u], JobsOf(u), given[u])
  BY <1>2, <1>3, Now, FailsOK DEF Waiting
<1>5. Puts(u, t, conn[u], sent[u], replies[u], transfers[u], given[u])
  BY <1>3, Same DEF Puts
<1>6. files' = files /\ tab[u].at # "failed"
  BY <1>3 DEF Waiting
<1> QED
  BY <1>2, <1>3, <1>4, <1>5, <1>6, Now, TabInv

\* With an open channel the message joins what is under way; without, it is lost.
LEMMA SendsIs ==
    ASSUME Invariant, NEW u \in Uploads, NEW ms, Sends(u, ms)
    PROVE  sent' = [sent EXCEPT ![u] = IF conn[u].open THEN sent[u] \o ms ELSE sent[u]]
BY DEF Sends

LEMMA DropInv ==
    ASSUME Invariant, NEW u \in Uploads, Drop(u)
    PROVE  Invariant'
<1> DEFINE c == conn[u]  r == replies[u]  x == transfers[u]  qs == JobsOf(u)  g == given[u]
<1>1. /\ tab[u].at = "idle"
      /\ UNCHANGED <<conn, replies, transfers, loop, job, files, app, given>>
  BY DEF Drop
<1>2. PICK k \in Kind :
         tab' = [tab EXCEPT ![u].kind = k,
                            ![u].at = IF conn[u].open THEN "asked" ELSE "form"]
  BY DEF Drop
<1>3. PICK t : t = [tab[u] EXCEPT !.kind = k, !.at = IF c.open THEN "asked" ELSE "form"]
  OBVIOUS
<1>4. /\ t \in Tab /\ t.at = (IF c.open THEN "asked" ELSE "form")
      /\ t.force = tab[u].force /\ t.seq = tab[u].seq
  <2>1. (IF c.open THEN "asked" ELSE "form") \in Busy
    BY DEF Busy, Waiting
  <2>2. tab[u] \in Tab
    BY Now
  <2> QED
    BY <1>3, <2>1, <2>2 DEF Tab
<1>5. tab' = [tab EXCEPT ![u] = t]
  BY <1>2, <1>3
<1>6. PICK s : s = IF c.open THEN Append(sent[u], Message("push", 0)) ELSE sent[u]
  OBVIOUS
<1>7. /\ sent' = [sent EXCEPT ![u] = s] /\ s \in Seq(Msg)
  <2>1. PICK m \in Msg : m = Message("push", 0)
    BY MessagesAre
  <2>2. sent[u] \in Seq(Msg)
    BY Now
  <2>3. sent[u] \o <<m>> = Append(sent[u], m) /\ Append(sent[u], m) \in Seq(Msg)
    BY <2>2, AppendIs, ConcatIs
  <2>4. Sends(u, <<m>>)
    BY <2>1 DEF Drop
  <2>5. sent' = [sent EXCEPT ![u] = IF c.open THEN sent[u] \o <<m>> ELSE sent[u]]
    BY <2>4, SendsIs
  <2> HIDE DEF c
  <2>6. s = IF c.open THEN sent[u] \o <<m>> ELSE sent[u]
    BY <1>6, <2>1, <2>3
  <2>7. s \in Seq(Msg)
    BY <2>2, <2>3, <2>6
  <2> QED
    BY <2>5, <2>6, <2>7
<1>8. UpOK(tab[u], c, sent[u], r, x, qs, g)
  BY Now
<1>9. /\ c \in Conn /\ sent[u] \in Seq(Msg) /\ r \in Seq(Reply) /\ tab[u] \in Tab
      /\ qs \in [Path -> Finaliser]
  BY Now
<1> HIDE DEF c, r, x, qs, g
<1>10. /\ ~PushIn(sent[u]) /\ ~ReadyIn(r) /\ ~EndIn(sent[u]) /\ ~FinalIn(r)
       /\ qs["channel"].at = "idle" /\ ~PushIn(sent[u]) /\ tab[u].seq = 0
  BY <1>1, <1>8 DEF UpOK, PushOnce, EndOnce, TabOK
<1>11. /\ ~EndIn(s) /\ WireOK(c, s) /\ (t.at # "asked" => ~PushIn(s))
       /\ \A i, n \in 1 .. Len(s) : s[i].t = "push" /\ s[n].t = "push" => i = n
  <2>1. CASE c.open
    <3>1. /\ s = Append(sent[u], Message("push", 0)) /\ Message("push", 0) \in Msg
          /\ Message("push", 0).t = "push"
      BY <1>6, <2>1, MessagesAre
    <3>2. /\ Len(sent[u]) \in Nat /\ Len(s) = Len(sent[u]) + 1
          /\ \A i \in 1 .. Len(sent[u]) : s[i] = sent[u][i]
          /\ s[Len(sent[u]) + 1].t = "push"
      BY <1>9, <3>1, AppendIs
    <3>3. ~EndIn(s)
      BY <1>9, <1>10, <3>1, AppendHas
    <3>4. \A i \in 1 .. Len(s) : i \in 1 .. Len(sent[u]) \/ i = Len(sent[u]) + 1
      BY <3>2
    <3>5. WireOK(c, s)
      BY <1>8, <2>1, <3>2, <3>4 DEF UpOK, WireOK
    <3>6. \A i, n \in 1 .. Len(s) : s[i].t = "push" /\ s[n].t = "push" => i = n
      BY <1>10, <3>2, <3>4 DEF PushIn
    <3> QED
      BY <1>4, <2>1, <3>3, <3>5, <3>6
  <2>2. CASE ~c.open
    BY <1>6, <1>8, <1>10, <2>2 DEF UpOK, PushIn
  <2> QED
    BY <2>1, <2>2
<1>12. TabOK(t) /\ PushOnce(t, s, r) /\ EndOnce(t, s, r, qs["channel"])
  BY <1>4, <1>8, <1>10, <1>11 DEF UpOK, TabOK, PushOnce, EndOnce
<1>13. EndAfterAll(t, s, r, x) /\ CutIsTold(t, c, r, qs["channel"]) /\ OkIsWhole(t, r, g)
  BY <1>10, <1>11 DEF EndAfterAll, EndIn, CutIsTold, OkIsWhole, FinalIn, Final
<1>14. JobsOK(t, qs, g)
  BY <1>1, <1>4, <1>8, <1>9, <1>10, AtRest DEF UpOK
<1>15. UpOK(t, c, s, r, x, qs, g)
  BY <1>4, <1>11, <1>12, <1>13, <1>14 DEF UpOK
<1>16. UpOK(t, c, s, replies[u], transfers[u], JobsOf(u), given[u])
  BY <1>15 DEF r, x, qs, g
<1>17. Puts(u, t, c, s, replies[u], transfers[u], given[u])
  BY <1>1, <1>5, <1>7, Same DEF Puts, c
<1>18. files' = files /\ tab[u].at # "failed"
  BY <1>1
<1> QED
  BY <1>1, <1>4, <1>7, <1>9, <1>16, <1>17, <1>18, Now, TabInv

\* A chunk, and the file.end behind the last one.
LEMMA ChunkAdded ==
    ASSUME NEW c \in Conn, c.open, NEW s \in Seq(Msg), WireOK(c, s), ~PushIn(s), ~EndIn(s),
           NEW k \in 0 .. Chunks, k < Chunks
    PROVE  LET a == Append(s, Message("chunk", k))
           IN  /\ a \in Seq(Msg) /\ WireOK(c, a) /\ ~PushIn(a) /\ ~EndIn(a)
               /\ Len(a) \in Nat /\ Len(a) >= 1 /\ a[Len(a)] = Message("chunk", k)
<1>1. PICK m \in Msg : m = Message("chunk", k)
  BY MessagesAre
<1>2. m.t = "chunk" /\ m.seq = k
  BY <1>1, MessagesAre
<1>3. PICK a : a = Append(s, m)
  OBVIOUS
<1>4. /\ a \in Seq(Msg) /\ Len(s) \in Nat /\ Len(a) = Len(s) + 1
      /\ \A i \in 1 .. Len(s) : a[i] = s[i]
      /\ a[Len(s) + 1] = m
  BY <1>3, AppendIs
<1>5. ~PushIn(a) /\ ~EndIn(a)
  BY <1>2, <1>3, AppendHas
<1>6. \A i \in 1 .. Len(a) : i \in 1 .. Len(s) \/ i = Len(s) + 1
  BY <1>4
<1>7. WireOK(c, a)
  BY <1>2, <1>4, <1>6 DEF WireOK
<1> QED
  BY <1>1, <1>3, <1>4, <1>5, <1>7

LEMMA EndAdded ==
    ASSUME NEW c \in Conn, c.open, NEW s \in Seq(Msg), WireOK(c, s), ~PushIn(s), ~EndIn(s),
           Len(s) >= 1, s[Len(s)] = Message("chunk", Chunks - 1)
    PROVE  LET a == Append(s, Message("end", 0))
           IN  /\ a \in Seq(Msg) /\ WireOK(c, a) /\ ~PushIn(a)
               /\ \A t, r, x : EndAfterAll(t, a, r, x)
<1>1. PICK m \in Msg : m = Message("end", 0)
  BY MessagesAre
<1>2. m.t = "end"
  BY <1>1, MessagesAre
<1>3. PICK a : a = Append(s, m)
  OBVIOUS
<1>4. /\ a \in Seq(Msg) /\ Len(s) \in Nat /\ Len(a) = Len(s) + 1
      /\ \A i \in 1 .. Len(s) : a[i] = s[i]
      /\ a[Len(s) + 1] = m
  BY <1>3, AppendIs
<1>5. ~PushIn(a)
  BY <1>2, <1>3, AppendHas
<1>6. \A i \in 1 .. Len(a) : i \in 1 .. Len(s) \/ i = Len(s) + 1
  BY <1>4
<1>7. WireOK(c, a)
  BY <1>2, <1>4, <1>6 DEF WireOK
<1>8. ASSUME NEW t, NEW r, NEW x
      PROVE  EndAfterAll(t, a, r, x)
  <2> SUFFICES ASSUME NEW i \in 1 .. Len(a), a[i].t = "end"
               PROVE  i = Len(a) /\ i # 1 /\ a[i - 1] = Message("chunk", Chunks - 1)
    BY DEF EndAfterAll
  <2>1. i = Len(s) + 1
    BY <1>4, <1>6 DEF EndIn
  <2>2. i - 1 = Len(s) /\ Len(s) \in 1 .. Len(s)
    BY <1>4, <2>1
  <2> QED
    BY <1>4, <2>1, <2>2
<1> QED
  BY <1>1, <1>3, <1>4, <1>5, <1>7, <1>8

LEMMA StreamInv ==
    ASSUME Invariant, NEW u \in Uploads, Stream(u)
    PROVE  Invariant'
<1> DEFINE c == conn[u]  r == replies[u]  x == transfers[u]  qs == JobsOf(u)  g == given[u]
           k == tab[u].seq  last == k + 1 = Chunks
<1>1. /\ tab[u].at = "stream"
      /\ tab' = [tab EXCEPT ![u].seq = @ + 1, ![u].at = IF last THEN "ended" ELSE @]
      /\ UNCHANGED <<conn, replies, transfers, loop, job, files, app, given>>
  BY DEF Stream
<1>2. /\ c \in Conn /\ sent[u] \in Seq(Msg) /\ r \in Seq(Reply) /\ tab[u] \in Tab
      /\ qs \in [Path -> Finaliser]
      /\ UpOK(tab[u], c, sent[u], r, x, qs, g)
  BY Now
<1>3. /\ ~PushIn(sent[u]) /\ ~ReadyIn(r) /\ ~EndIn(sent[u]) /\ ~FinalIn(r)
      /\ qs["channel"].at = "idle" /\ k < Chunks /\ k \in 0 .. Chunks /\ WireOK(c, sent[u])
  BY <1>1, <1>2 DEF UpOK, PushOnce, EndOnce, TabOK, Tab
<1>4. PICK t : t = [tab[u] EXCEPT !.seq = @ + 1, !.at = IF last THEN "ended" ELSE "stream"]
  OBVIOUS
<1>5. /\ t \in Tab /\ t.at = (IF last THEN "ended" ELSE "stream") /\ t.seq = k + 1
      /\ t.force = tab[u].force /\ t.kind = tab[u].kind
  <2>1. k + 1 \in 0 .. Chunks /\ (IF last THEN "ended" ELSE "stream") \in Busy
    BY <1>3, UploadsAssumption DEF Busy, Waiting
  <2> HIDE DEF last
  <2> QED
    BY <1>2, <1>4, <2>1 DEF Tab
<1>6. tab' = [tab EXCEPT ![u] = t]
  BY <1>1, <1>4
<1>7. PICK m \in Msg : m = Message("chunk", k)
  BY <1>3, MessagesAre
<1>8. PICK e \in Msg : e = Message("end", 0)
  BY MessagesAre
<1>9. PICK s : s = IF ~c.open THEN sent[u]
                   ELSE IF last THEN Append(Append(sent[u], m), e) ELSE Append(sent[u], m)
  OBVIOUS
<1>10. sent' = [sent EXCEPT ![u] = s]
  <2>1. Sends(u, <<m>> \o IF last THEN <<e>> ELSE <<>>)
    BY <1>7, <1>8 DEF Stream
  <2>2. /\ sent[u] \o (<<m>> \o <<>>) = Append(sent[u], m)
        /\ sent[u] \o (<<m>> \o <<e>>) = Append(Append(sent[u], m), e)
    BY <1>2, ConcatIs
  <2>3. sent' = [sent EXCEPT ![u] =
                   IF c.open THEN sent[u] \o (<<m>> \o IF last THEN <<e>> ELSE <<>>) ELSE sent[u]]
    BY <2>1 DEF Sends
  <2> HIDE DEF c, last
  <2>4. s = IF c.open THEN sent[u] \o (<<m>> \o IF last THEN <<e>> ELSE <<>>) ELSE sent[u]
    BY <1>9, <2>2
  <2> QED
    BY <2>3, <2>4
<1> HIDE DEF c, r, x, qs, g
<1>11. /\ s \in Seq(Msg) /\ WireOK(c, s) /\ ~PushIn(s)
       /\ EndIn(s) => last
       /\ EndAfterAll(t, s, r, x)
  <2>1. CASE ~c.open
    BY <1>2, <1>3, <1>9, <2>1 DEF EndAfterAll, EndIn
  <2>2. CASE c.open
    <3> DEFINE a == Append(sent[u], m)
    <3>1. /\ a \in Seq(Msg) /\ WireOK(c, a) /\ ~PushIn(a) /\ ~EndIn(a)
          /\ Len(a) >= 1 /\ a[Len(a)] = Message("chunk", k)
      BY <1>2, <1>3, <1>7, <2>2, ChunkAdded
    <3> HIDE DEF a
    <3>2. CASE last
      <4>1. k = Chunks - 1
        BY <1>3, <3>2, UploadsAssumption
      <4>2. LET b == Append(a, e)
            IN  b \in Seq(Msg) /\ WireOK(c, b) /\ ~PushIn(b) /\ EndAfterAll(t, b, r, x)
        BY <1>2, <1>8, <2>2, <3>1, <4>1, EndAdded
      <4> QED
        BY <1>9, <2>2, <3>2, <4>2 DEF a
    <3>3. CASE ~last
      BY <1>9, <2>2, <3>1, <3>3 DEF EndAfterAll, EndIn, a
    <3> QED
      BY <3>2, <3>3
  <2> QED
    BY <2>1, <2>2
<1>12. TabOK(t)
  <2>1. ~last => k + 1 < Chunks
    BY <1>3, UploadsAssumption
  <2> QED
    BY <1>5, <2>1 DEF TabOK
<1>13. PushOnce(t, s, r) /\ EndOnce(t, s, r, qs["channel"])
  BY <1>2, <1>3, <1>5, <1>11 DEF UpOK, PushOnce, EndOnce, PushIn
<1>14. CutIsTold(t, c, r, qs["channel"]) /\ OkIsWhole(t, r, g)
  BY <1>3 DEF CutIsTold, OkIsWhole, FinalIn, Final
<1>15. JobsOK(t, qs, g)
  BY <1>1, <1>2, <1>5, AtRest DEF UpOK
<1>16. UpOK(t, c, s, replies[u], transfers[u], JobsOf(u), given[u])
  BY <1>5, <1>11, <1>12, <1>13, <1>14, <1>15 DEF UpOK, r, x, qs, g
<1>17. Puts(u, t, c, s, replies[u], transfers[u], given[u])
  BY <1>1, <1>6, <1>10, Same DEF Puts, c
<1>18. files' = files /\ tab[u].at # "failed"
  BY <1>1
<1> QED
  BY <1>1, <1>2, <1>5, <1>11, <1>16, <1>17, <1>18, Now, TabInv

-----------------------------------------------------------------------------
(* The connection.                                                           *)

LEMMA DisconnectInv ==
    ASSUME Invariant, NEW u \in Uploads, Disconnect(u)
    PROVE  Invariant'
<1> DEFINE t == tab[u]  x == transfers[u]  qs == JobsOf(u)  g == given[u]
<1>1. /\ conn[u].drops < MaxDrops
      /\ conn' = [conn EXCEPT ![u] = [drops |-> @.drops + 1, open |-> FALSE]]
      /\ sent' = [sent EXCEPT ![u] = <<>>] /\ replies' = [replies EXCEPT ![u] = <<>>]
      /\ UNCHANGED <<tab, transfers, loop, job, files, app, given>>
  BY DEF Disconnect
<1>2. /\ conn[u] \in Conn /\ t \in Tab /\ qs \in [Path -> Finaliser]
      /\ UpOK(t, conn[u], sent[u], replies[u], x, qs, g)
  BY Now
<1>3. PICK c : c = [drops |-> conn[u].drops + 1, open |-> FALSE]
  OBVIOUS
<1>4. c \in Conn /\ c.drops = conn[u].drops + 1 /\ conn[u].drops \in Nat /\ ~c.open
  BY <1>1, <1>2, <1>3, UploadsAssumption DEF Conn
<1> HIDE DEF t, x, qs, g
<1>5. WireOK(c, <<>>) /\ TabOK(t) /\ JobsOK(t, qs, g) /\ (t.at = "ok" => g = "whole")
  BY <1>2, EmptyHas DEF UpOK, WireOK
<1>6. /\ PushOnce(t, <<>>, <<>>) /\ EndOnce(t, <<>>, <<>>, qs["channel"])
      /\ EndAfterAll(t, <<>>, <<>>, x) /\ OkIsWhole(t, <<>>, g)
  <2>1. 1 .. Len(<<>>) = {}
    BY EmptyHas
  <2> QED
    BY <1>2, <2>1, EmptyHas DEF UpOK, PushOnce, EndOnce, EndAfterAll, OkIsWhole
<1>7. CutIsTold(t, c, <<>>, qs["channel"])
  <2>1. qs["channel"].conn \in Nat
    BY <1>2 DEF Path, Finaliser
  <2>2. qs["channel"].at # "idle" => qs["channel"].conn <= conn[u].drops
    BY <1>2 DEF UpOK, CutIsTold
  <2> QED
    BY <1>4, <2>1, <2>2 DEF CutIsTold
<1>8. UpOK(tab[u], c, <<>>, <<>>, transfers[u], JobsOf(u), given[u])
  BY <1>5, <1>6, <1>7 DEF UpOK, t, x, qs, g
<1>9. Puts(u, tab[u], c, <<>>, <<>>, transfers[u], given[u])
  BY <1>1, <1>3, Same DEF Puts
<1>10. files' = files
  BY <1>1
<1> QED
  BY <1>1, <1>4, <1>8, <1>9, <1>10, Now, EmptyHas, TabInv

LEMMA ReconnectInv ==
    ASSUME Invariant, NEW u \in Uploads, Reconnect(u)
    PROVE  Invariant'
<1>1. /\ conn' = [conn EXCEPT ![u].open = TRUE]
      /\ UNCHANGED <<tab, sent, replies, transfers, loop, job, files, app, given>>
  BY DEF Reconnect
<1>2. /\ conn[u] \in Conn
      /\ UpOK(tab[u], conn[u], sent[u], replies[u], transfers[u], JobsOf(u), given[u])
  BY Now
<1>3. PICK c : c = [conn[u] EXCEPT !.open = TRUE]
  OBVIOUS
<1>4. c \in Conn /\ c.drops = conn[u].drops /\ c.open
  BY <1>2, <1>3 DEF Conn
<1>5. UpOK(tab[u], c, sent[u], replies[u], transfers[u], JobsOf(u), given[u])
  BY <1>2, <1>4 DEF UpOK, WireOK, CutIsTold
<1>6. Puts(u, tab[u], c, sent[u], replies[u], transfers[u], given[u])
  BY <1>1, <1>3, Same DEF Puts
<1>7. files' = files
  BY <1>1
<1> QED
  BY <1>1, <1>4, <1>5, <1>6, <1>7, Now, TabInv

-----------------------------------------------------------------------------
(* The tab hears.                                                            *)

\* What is there once is there at most once behind the head, and not at all if the
\* head is it.
LEMMA TailOnce ==
    ASSUME NEW S, NEW s \in Seq(S), s # <<>>, NEW X,
           \A i, k \in 1 .. Len(s) : s[i] \in X /\ s[k] \in X => i = k
    PROVE  /\ \A i, k \in 1 .. Len(Tail(s)) : Tail(s)[i] \in X /\ Tail(s)[k] \in X => i = k
           /\ s[1] \in X => \A i \in 1 .. Len(Tail(s)) : Tail(s)[i] \notin X
<1>1. /\ Len(s) \in Nat /\ Len(s) >= 1 /\ Len(Tail(s)) = Len(s) - 1
      /\ \A i \in 1 .. Len(s) - 1 : Tail(s)[i] = s[i + 1]
  BY TailIs
<1>2. \A i \in 1 .. Len(s) - 1 : i + 1 \in 1 .. Len(s) /\ i + 1 # 1 /\ 1 \in 1 .. Len(s)
  BY <1>1
<1> QED
  BY <1>1, <1>2

Behind(z, r) ==
    /\ z \in Seq(Reply) /\ r[1] \in Reply
    /\ ReadyIn(z) => ReadyIn(r)
    /\ FinalIn(z) => FinalIn(r)
    /\ r[1] = "ready" => ReadyIn(r) /\ ~ReadyIn(z)
    /\ r[1] \in Final => FinalIn(r) /\ ~FinalIn(z)
    /\ \A i, k \in 1 .. Len(z) :
          /\ z[i] = "ready" /\ z[k] = "ready" => i = k
          /\ z[i] \in Final /\ z[k] \in Final => i = k

LEMMA TailReplies ==
    ASSUME NEW r \in Seq(Reply), r # <<>>, NEW t, NEW s, NEW q,
           PushOnce(t, s, r), EndOnce(t, s, r, q)
    PROVE  Behind(Tail(r), r)
<1>1. Len(r) \in Nat /\ 1 \in 1 .. Len(r) /\ Tail(r) \in Seq(Reply) /\ r[1] \in Reply
  BY TailIs
<1>2. (ReadyIn(Tail(r)) => ReadyIn(r)) /\ (FinalIn(Tail(r)) => FinalIn(r))
  BY TailHas
<1>3. /\ \A i, k \in 1 .. Len(r) : r[i] \in {"ready"} /\ r[k] \in {"ready"} => i = k
      /\ \A i, k \in 1 .. Len(r) : r[i] \in Final /\ r[k] \in Final => i = k
  BY DEF PushOnce, EndOnce
<1>4. /\ \A i, k \in 1 .. Len(Tail(r)) :
            Tail(r)[i] \in {"ready"} /\ Tail(r)[k] \in {"ready"} => i = k
      /\ r[1] \in {"ready"} => \A i \in 1 .. Len(Tail(r)) : Tail(r)[i] \notin {"ready"}
  BY <1>3, TailOnce
<1>5. /\ \A i, k \in 1 .. Len(Tail(r)) : Tail(r)[i] \in Final /\ Tail(r)[k] \in Final => i = k
      /\ r[1] \in Final => \A i \in 1 .. Len(Tail(r)) : Tail(r)[i] \notin Final
  BY <1>3, TailOnce
<1> QED
  BY <1>1, <1>2, <1>4, <1>5 DEF Behind, ReadyIn, FinalIn

\* A tab that has settled, or turned to the form, and is still answered.
LEMMA HeardOK ==
    ASSUME NEW t \in Tab, NEW c \in Conn, NEW s \in Seq(Msg), NEW r \in Seq(Reply), r # <<>>,
           NEW x, NEW qs \in [Path -> Finaliser], NEW g,
           UpOK(t, c, s, r, x, qs, g),
           NEW v \in Tab, v.at \notin Waiting, v.at # "idle",
           \/ v = t
           \/ v.at = "failed" /\ t.at \in Waiting
           \/ r[1] \in Final /\ v.at \in {"ok", "form"} /\ t.at \in Waiting,
           v.at = "ok" => g = "whole",
           JobsOK(v, qs, g)
    PROVE  UpOK(v, c, s, Tail(r), x, qs, g)
<1>1. WireOK(c, s) /\ TabOK(v)
  BY DEF UpOK, TabOK, Waiting
<1>2. PushOnce(t, s, r) /\ EndOnce(t, s, r, qs["channel"])
  BY DEF UpOK
<1>3. PICK z : z = Tail(r)
  OBVIOUS
<1>9. Behind(z, r)
  BY <1>2, <1>3, TailReplies
<1>4. /\ z \in Seq(Reply)
      /\ ReadyIn(z) => ReadyIn(r)
      /\ FinalIn(z) => FinalIn(r)
      /\ r[1] \in Final => FinalIn(r) /\ ~FinalIn(z)
      /\ \A i, k \in 1 .. Len(z) : /\ z[i] = "ready" /\ z[k] = "ready" => i = k
                                   /\ z[i] \in Final /\ z[k] \in Final => i = k
  BY <1>9 DEF Behind
<1>5. PushOnce(v, s, z)
  BY <1>2, <1>4 DEF PushOnce, Waiting
<1>6. EndOnce(v, s, z, qs["channel"])
  <2>1. CASE v = t
    BY <1>2, <1>4, <2>1 DEF EndOnce
  <2>2. CASE v.at = "failed" /\ t.at \in Waiting
    BY <1>2, <1>4, <2>2 DEF EndOnce
  <2>3. CASE r[1] \in Final /\ v.at \in {"ok", "form"} /\ t.at \in Waiting
    BY <1>2, <1>4, <2>3 DEF EndOnce
  <2> QED
    BY <2>1, <2>2, <2>3
<1>7. EndAfterAll(v, s, z, x) /\ OkIsWhole(v, z, g)
  BY DEF UpOK, EndAfterAll, OkIsWhole
<1>8. CutIsTold(v, c, z, qs["channel"])
  BY DEF UpOK, CutIsTold
<1> QED
  BY <1>1, <1>3, <1>5, <1>6, <1>7, <1>8 DEF UpOK

\* The tab may stream.
LEMMA ReadyOK ==
    ASSUME NEW t \in Tab, NEW c \in Conn, NEW s \in Seq(Msg), NEW r \in Seq(Reply), r # <<>>,
           NEW x, NEW qs \in [Path -> Finaliser], NEW g,
           UpOK(t, c, s, r, x, qs, g), t.at \in Waiting, r[1] = "ready",
           NEW v \in Tab, v.at = "stream", v.seq = t.seq, v.kind = t.kind
    PROVE  UpOK(v, c, s, Tail(r), x, qs, g)
<1>1. PushOnce(t, s, r) /\ EndOnce(t, s, r, qs["channel"])
  BY DEF UpOK
<1>2. PICK z : z = Tail(r)
  OBVIOUS
<1>10. Behind(z, r)
  BY <1>1, <1>2, TailReplies
<1>3. /\ z \in Seq(Reply) /\ ReadyIn(r) /\ ~ReadyIn(z)
      /\ FinalIn(z) => FinalIn(r)
      /\ \A i, k \in 1 .. Len(z) : /\ z[i] = "ready" /\ z[k] = "ready" => i = k
                                   /\ z[i] \in Final /\ z[k] \in Final => i = k
  BY <1>10 DEF Behind
<1>4. t.at = "asked" /\ ~PushIn(s)
  BY <1>1, <1>3 DEF PushOnce, Waiting
<1>5. ~EndIn(s) /\ qs["channel"].at = "idle" /\ ~FinalIn(z)
  BY <1>1, <1>3, <1>4 DEF EndOnce
<1>6. WireOK(c, s) /\ TabOK(v)
  BY <1>4, UploadsAssumption DEF UpOK, TabOK
<1>7. PushOnce(v, s, z) /\ EndOnce(v, s, z, qs["channel"])
  BY <1>1, <1>3, <1>4, <1>5 DEF PushOnce, EndOnce
<1>8. EndAfterAll(v, s, z, x) /\ OkIsWhole(v, z, g) /\ CutIsTold(v, c, z, qs["channel"])
  BY <1>5 DEF EndAfterAll, EndIn, OkIsWhole, FinalIn, Final, CutIsTold
<1>9. JobsOK(v, qs, g)
  BY <1>4, AtRest DEF UpOK
<1> QED
  BY <1>2, <1>6, <1>7, <1>8, <1>9 DEF UpOK

\* What an answer makes of the tab.
LEMMA SettledIs ==
    ASSUME NEW t \in Tab, NEW verdict
    PROVE  LET v == Settled(t, verdict)
           IN  /\ v \in Tab /\ v.kind = t.kind /\ (t.force => v.force)
               /\ v.at \in {"ok", "form", "failed"}
               /\ v.at = "ok" <=> verdict = "ok"
               /\ v.at = "form" => verdict = "mismatch" /\ ~t.force /\ v.force
<1>1. "form" \in Busy /\ TRUE \in BOOLEAN
  BY DEF Busy, Waiting
<1>2. CASE verdict = "ok"
  BY <1>2 DEF Settled, Tab
<1>3. CASE verdict = "mismatch" /\ ~t.force
  BY <1>1, <1>3 DEF Settled, Tab
<1>4. CASE verdict # "ok" /\ ~(verdict = "mismatch" /\ ~t.force)
  <2>1. Settled(t, verdict) = [t EXCEPT !.at = "failed"]
    BY <1>4 DEF Settled
  <2> QED
    BY <1>4, <2>1 DEF Tab
<1> QED
  BY <1>2, <1>3, <1>4

LEMMA ReceiveInv ==
    ASSUME Invariant, NEW u \in Uploads, Receive(u)
    PROVE  Invariant'
<1> DEFINE t == tab[u]  c == conn[u]  s == sent[u]  r == replies[u]  x == transfers[u]
           qs == JobsOf(u)  g == given[u]
<1>1. /\ r # <<>> /\ replies' = [replies EXCEPT ![u] = Tail(r)]
      /\ tab' = [tab EXCEPT ![u] = Hears(t, Head(r))]
      /\ UNCHANGED <<conn, sent, transfers, loop, job, files, app, given>>
  BY DEF Receive
<1>2. /\ t \in Tab /\ c \in Conn /\ s \in Seq(Msg) /\ r \in Seq(Reply)
      /\ qs \in [Path -> Finaliser] /\ UpOK(t, c, s, r, x, qs, g)
  BY Now
<1> HIDE DEF t, c, s, r, x, qs, g
<1>3. Head(r) = r[1] /\ r[1] \in Reply /\ Tail(r) \in Seq(Reply)
      /\ Len(r) \in Nat /\ 1 \in 1 .. Len(r)
  BY <1>1, <1>2, TailIs
<1>4. PICK v : v = Hears(t, r[1])
  OBVIOUS
<1>5. /\ v \in Tab /\ (t.force => v.force) /\ (t.at = "failed" => v.at = "failed")
      /\ UpOK(v, c, s, Tail(r), x, qs, g)
  <2>1. CASE t.at \notin Waiting
    <3>1. v = t
      BY <1>4, <2>1 DEF Hears
    <3>2. JobsOK(t, qs, g) /\ (t.at = "ok" => g = "whole")
      BY <1>2 DEF UpOK
    <3>3. CASE t.at # "idle"
      BY <1>1, <1>2, <2>1, <3>1, <3>2, <3>3, HeardOK
    <3>4. CASE t.at = "idle"
      <4>1. PushOnce(t, s, r) /\ EndOnce(t, s, r, qs["channel"])
        BY <1>2 DEF UpOK
      <4>2. PICK z : z = Tail(r)
        OBVIOUS
      <4>6. Behind(z, r)
        BY <1>1, <1>2, <4>1, <4>2, TailReplies
      <4>3. /\ ReadyIn(z) => ReadyIn(r)
            /\ FinalIn(z) => FinalIn(r)
            /\ \A i, k \in 1 .. Len(z) : /\ z[i] = "ready" /\ z[k] = "ready" => i = k
                                         /\ z[i] \in Final /\ z[k] \in Final => i = k
        BY <4>6 DEF Behind
      <4>4. PushOnce(t, s, z) /\ EndOnce(t, s, z, qs["channel"])
        BY <4>1, <4>3 DEF PushOnce, EndOnce
      <4>5. EndAfterAll(t, s, z, x) /\ OkIsWhole(t, z, g) /\ CutIsTold(t, c, z, qs["channel"])
        BY <1>2, <2>1 DEF UpOK, EndAfterAll, OkIsWhole, CutIsTold
      <4> QED
        BY <1>2, <2>1, <3>1, <3>4, <4>2, <4>4, <4>5 DEF UpOK
    <3> QED
      BY <1>2, <3>1, <3>3, <3>4
  <2>2. CASE t.at \in Waiting /\ r[1] = "ready"
    <3>1. v = [t EXCEPT !.at = "stream"]
      BY <1>4, <2>2 DEF Hears
    <3>2. /\ v \in Tab /\ v.at = "stream" /\ v.seq = t.seq /\ v.kind = t.kind
          /\ v.force = t.force
      BY <1>2, <3>1 DEF Tab, Busy, Waiting
    <3> QED
      BY <1>1, <1>2, <2>2, <3>2, ReadyOK DEF Waiting
  <2>3. CASE t.at \in Waiting /\ r[1] # "ready"
    <3>1. v = Settled(t, r[1])
      BY <1>4, <2>3 DEF Hears
    <3>2. /\ v \in Tab /\ v.kind = t.kind /\ (t.force => v.force)
          /\ v.at \in {"ok", "form", "failed"}
          /\ v.at = "ok" <=> r[1] = "ok"
          /\ v.at = "form" => r[1] = "mismatch"
      BY <1>2, <3>1, SettledIs
    <3>3. JobsOK(v, qs, g)
      BY <1>2, <2>3, <3>2, AtRest DEF UpOK, Waiting
    <3>4. v.at = "ok" => g = "whole"
      <4>1. \A k \in 1 .. 1 - 1 : FALSE
        OBVIOUS
      <4> QED
        BY <1>2, <1>3, <2>3, <3>2, <4>1 DEF UpOK, OkIsWhole
    <3>5. v.at \in {"ok", "form"} => r[1] \in Final
      BY <3>2 DEF Final
    <3>6. v.at \notin Waiting /\ v.at # "idle"
      BY <3>2 DEF Waiting
    <3>7. UpOK(v, c, s, Tail(r), x, qs, g)
      BY <1>1, <1>2, <2>3, <3>2, <3>3, <3>4, <3>5, <3>6, HeardOK
    <3> QED
      BY <2>3, <3>2, <3>7 DEF Waiting
  <2> QED
    BY <2>1, <2>2, <2>3
<1>6. UpOK(v, conn[u], sent[u], Tail(r), transfers[u], JobsOf(u), given[u])
  BY <1>5 DEF c, s, x, qs, g
<1>7. Puts(u, v, conn[u], sent[u], Tail(r), transfers[u], given[u])
  BY <1>1, <1>3, <1>4, Same DEF Puts
<1>8. files' = files /\ (tab[u].force => v.force) /\ (tab[u].at = "failed" => v.at = "failed")
  BY <1>1, <1>5 DEF t
<1> QED
  BY <1>1, <1>3, <1>5, <1>6, <1>7, <1>8, Now, TabInv

-----------------------------------------------------------------------------
(* The loop takes a message.                                                 *)

\* What is behind the message that is taken.
Rest(z, s, c) ==
    /\ z \in Seq(Msg) /\ s[1] \in Msg /\ c.open /\ WireOK(c, z)
    /\ EndIn(z) => EndIn(s)
    /\ PushIn(z) => PushIn(s)
    /\ s[1].t = "push" => PushIn(s) /\ ~PushIn(z)
    /\ s[1].t = "end" => EndIn(s) /\ z = <<>>
    /\ \A i, k \in 1 .. Len(z) : z[i].t = "push" /\ z[k].t = "push" => i = k
    /\ \A i \in 1 .. Len(z) : z[i].t = "end" =>
          i = Len(z) /\ (IF i = 1 THEN s[1] ELSE z[i - 1]) = Message("chunk", Chunks - 1)

LEMMA RestIs ==
    ASSUME NEW s \in Seq(Msg), s # <<>>, NEW t, NEW c \in Conn, NEW r, NEW x,
           WireOK(c, s), PushOnce(t, s, r), EndAfterAll(t, s, r, x)
    PROVE  Rest(Tail(s), s, c)
<1>1. PICK z : z = Tail(s)
  OBVIOUS
<1>2. /\ z \in Seq(Msg) /\ Len(s) \in Nat /\ Len(s) >= 1 /\ Len(z) = Len(s) - 1
      /\ \A i \in 1 .. Len(s) - 1 : z[i] = s[i + 1]
      /\ s[1] \in Msg
  BY <1>1, TailIs
<1>3. /\ 1 \in 1 .. Len(s)
      /\ \A i \in 1 .. Len(z) : /\ i + 1 \in 1 .. Len(s) /\ i + 1 # 1 /\ z[i] = s[i + 1]
                                /\ i \in Nat /\ i >= 1
  BY <1>2
<1>4. c.open /\ WireOK(c, z)
  BY <1>3 DEF WireOK
<1>5. (EndIn(z) => EndIn(s)) /\ (PushIn(z) => PushIn(s))
  BY <1>1, TailHas
<1>6. \A i, k \in 1 .. Len(s) : s[i].t = "push" /\ s[k].t = "push" => i = k
  BY DEF PushOnce
<1>7. s[1].t = "push" => PushIn(s) /\ ~PushIn(z)
  BY <1>3, <1>6 DEF PushIn
<1>8. \A i, k \in 1 .. Len(z) : z[i].t = "push" /\ z[k].t = "push" => i = k
  BY <1>3, <1>6
<1>9. \A i \in 1 .. Len(s) : s[i].t = "end" =>
         i = Len(s) /\ (i # 1 => s[i - 1] = Message("chunk", Chunks - 1))
  BY DEF EndAfterAll
<1>10. s[1].t = "end" => EndIn(s) /\ z = <<>>
  <2>1. s[1].t = "end" => Len(z) = 0
    BY <1>2, <1>3, <1>9
  <2>2. Len(z) = 0 => z = <<>>
    BY <1>2, EmptySeq
  <2> QED
    BY <1>3, <2>1, <2>2 DEF EndIn
<1>11. ASSUME NEW i \in 1 .. Len(z), z[i].t = "end"
       PROVE  i = Len(z) /\ (IF i = 1 THEN s[1] ELSE z[i - 1]) = Message("chunk", Chunks - 1)
  <2>1. i + 1 \in 1 .. Len(s) /\ i + 1 # 1 /\ s[i + 1].t = "end" /\ (i + 1) - 1 = i
    BY <1>3, <1>11
  <2>2. i + 1 = Len(s) /\ s[i] = Message("chunk", Chunks - 1)
    BY <1>9, <2>1
  <2>3. CASE i = 1
    BY <1>2, <2>2, <2>3
  <2>4. CASE i # 1
    <3>1. i - 1 \in 1 .. Len(s) - 1 /\ (i - 1) + 1 = i
      BY <1>2, <2>2, <2>4
    <3> QED
      BY <1>2, <2>2, <2>4, <3>1
  <2> QED
    BY <2>3, <2>4
<1> QED
  BY <1>1, <1>2, <1>4, <1>5, <1>7, <1>8, <1>10, <1>11 DEF Rest

\* What the tab hears in the end is not changed by an answer that is no verdict.
More(y, r, t, g, v) ==
    /\ y \in Seq(Reply)
    /\ FinalIn(y) => FinalIn(r)
    /\ ErrorIn(r) \/ v = "error" => ErrorIn(y)
    /\ ReadyIn(y) => ReadyIn(r) \/ v = "ready"
    /\ (v = "ready" /\ ~ReadyIn(r)) \/ v = "error" =>
          \A i, k \in 1 .. Len(y) : y[i] = "ready" /\ y[k] = "ready" => i = k
    /\ \A i, k \in 1 .. Len(y) : y[i] \in Final /\ y[k] \in Final => i = k
    /\ OkIsWhole(t, y, g)

LEMMA MoreIs ==
    ASSUME NEW t, NEW s, NEW q, NEW g, NEW r \in Seq(Reply), NEW v \in {"ready", "error"},
           PushOnce(t, s, r), EndOnce(t, s, r, q), OkIsWhole(t, r, g)
    PROVE  More(Append(r, v), r, t, g, v)
<1>1. PICK y : y = Append(r, v)
  OBVIOUS
<1>2. /\ y \in Seq(Reply) /\ Len(r) \in Nat /\ Len(y) = Len(r) + 1
      /\ \A i \in 1 .. Len(r) : y[i] = r[i]
      /\ y[Len(r) + 1] = v
  BY <1>1, MessagesAre, AppendIs
<1>3. /\ FinalIn(y) => FinalIn(r)
      /\ ErrorIn(r) \/ v = "error" => ErrorIn(y)
      /\ ReadyIn(y) => ReadyIn(r) \/ v = "ready"
  BY <1>1, MessagesAre, AppendHas DEF Final
<1>4. \A i \in 1 .. Len(y) : i \in 1 .. Len(r) \/ i = Len(r) + 1
  BY <1>2
<1>5. /\ \A i, k \in 1 .. Len(r) : r[i] = "ready" /\ r[k] = "ready" => i = k
      /\ \A i, k \in 1 .. Len(r) : r[i] \in Final /\ r[k] \in Final => i = k
  BY DEF PushOnce, EndOnce
<1>6. \A i, k \in 1 .. Len(y) : y[i] \in Final /\ y[k] \in Final => i = k
  BY <1>2, <1>4, <1>5 DEF Final
<1>7. ASSUME (v = "ready" /\ ~ReadyIn(r)) \/ v = "error"
      PROVE  \A i, k \in 1 .. Len(y) : y[i] = "ready" /\ y[k] = "ready" => i = k
  BY <1>2, <1>4, <1>5, <1>7 DEF ReadyIn
<1>8. OkIsWhole(t, y, g)
  <2> SUFFICES ASSUME NEW i \in 1 .. Len(y), y[i] = "ok", t.at \in Waiting
               PROVE  g = "whole" \/ \E k \in 1 .. i - 1 : y[k] = "error"
    BY DEF OkIsWhole
  <2>1. i \in 1 .. Len(r) /\ r[i] = "ok"
    BY <1>2, <1>4
  <2>2. \A k \in 1 .. i - 1 : k \in 1 .. Len(r)
    BY <1>2, <2>1
  <2> QED
    BY <1>2, <2>1, <2>2 DEF OkIsWhole
<1> QED
  BY <1>1, <1>2, <1>3, <1>6, <1>7, <1>8 DEF More

LEMMA TakeOK ==
    ASSUME NEW t \in Tab, NEW c \in Conn, NEW s \in Seq(Msg), s # <<>>, NEW r \in Seq(Reply),
           NEW x, NEW qs \in [Path -> Finaliser], NEW g,
           UpOK(t, c, s, r, x, qs, g),
           NEW y, NEW w,
           y = r \/ y = Append(r, "error") \/ (y = Append(r, "ready") /\ s[1].t = "push"),
           s[1].t = "chunk" /\ s[1].seq = Chunks - 1 => w = Chunks \/ y = Append(r, "error")
    PROVE  /\ Tail(s) \in Seq(Msg) /\ y \in Seq(Reply)
           /\ UpOK(t, c, Tail(s), y, w, qs, g)
<1> DEFINE q == qs["channel"]
<1>1. /\ WireOK(c, s) /\ TabOK(t) /\ PushOnce(t, s, r) /\ EndOnce(t, s, r, q)
      /\ EndAfterAll(t, s, r, x) /\ CutIsTold(t, c, r, q) /\ OkIsWhole(t, r, g)
      /\ JobsOK(t, qs, g) /\ (t.at = "ok" => g = "whole")
  BY DEF UpOK
<1> HIDE DEF q
<1>2. PICK z : z = Tail(s)
  OBVIOUS
<1>3. Rest(z, s, c)
  BY <1>1, <1>2, RestIs
<1>4. s[1].t = "push" => ~ReadyIn(r) /\ t.at \notin {"idle", "stream", "ended"}
  BY <1>1, <1>3 DEF Rest, PushOnce
<1>5. /\ y \in Seq(Reply)
      /\ FinalIn(y) => FinalIn(r)
      /\ ErrorIn(r) \/ y = Append(r, "error") => ErrorIn(y)
      /\ ReadyIn(y) => ReadyIn(r) \/ s[1].t = "push"
      /\ \A i, k \in 1 .. Len(y) : y[i] = "ready" /\ y[k] = "ready" => i = k
      /\ \A i, k \in 1 .. Len(y) : y[i] \in Final /\ y[k] \in Final => i = k
      /\ OkIsWhole(t, y, g)
  <2>1. CASE y = Append(r, "error")
    <3>1. More(y, r, t, g, "error")
      BY <1>1, <2>1, MoreIs
    <3> QED
      BY <2>1, <3>1 DEF More
  <2>2. CASE y = Append(r, "ready") /\ s[1].t = "push"
    <3>1. More(y, r, t, g, "ready")
      BY <1>1, <2>2, MoreIs
    <3>2. y # Append(r, "error")
      BY <2>2, MessagesAre, AppendIs
    <3> QED
      BY <1>4, <2>2, <3>1, <3>2 DEF More
  <2>3. CASE y = r
    <3>1. y # Append(r, "error")
      BY <2>3, MessagesAre, AppendIs
    <3> QED
      BY <1>1, <2>3, <3>1 DEF PushOnce, EndOnce
  <2> QED
    BY <2>1, <2>2, <2>3
<1>6. PushOnce(t, z, y)
  BY <1>1, <1>3, <1>4, <1>5 DEF PushOnce, Rest
<1>7. EndOnce(t, z, y, q)
  BY <1>1, <1>3, <1>5 DEF EndOnce, Rest
<1>8. EndAfterAll(t, z, y, w)
  <2> SUFFICES ASSUME NEW i \in 1 .. Len(z), z[i].t = "end"
               PROVE  /\ i = Len(z)
                      /\ IF i = 1 THEN w \in {-1, Chunks} \/ t.at \notin Waiting \/ ErrorIn(y)
                         ELSE z[i - 1] = Message("chunk", Chunks - 1)
    BY DEF EndAfterAll
  <2>1. i = Len(z) /\ (IF i = 1 THEN s[1] ELSE z[i - 1]) = Message("chunk", Chunks - 1)
    BY <1>3 DEF Rest
  <2>2. Message("chunk", Chunks - 1).t = "chunk" /\ Message("chunk", Chunks - 1).seq = Chunks - 1
    BY DEF Message
  <2> QED
    BY <1>5, <2>1, <2>2
<1>9. CutIsTold(t, c, y, q)
  BY <1>1, <1>5 DEF CutIsTold
<1> QED
  BY <1>1, <1>2, <1>3, <1>5, <1>6, <1>7, <1>8, <1>9 DEF UpOK, Rest, q

LEMMA HandlePushInv ==
    ASSUME Invariant, NEW u \in Uploads, HandlePush(u)
    PROVE  Invariant'
<1> DEFINE s == sent[u]
<1>1. /\ s # <<>> /\ Head(s).t = "push" /\ sent' = [sent EXCEPT ![u] = Tail(s)]
      /\ UNCHANGED <<tab, conn, loop, job, app, given>>
  BY DEF HandlePush, Takes
<1>2. s \in Seq(Msg) /\ replies[u] \in Seq(Reply)
  BY Now
<1>3. s[1].t = "push"
  BY <1>1, <1>2, TailIs
<1>4. PICK y, w :
         /\ replies' = [replies EXCEPT ![u] = y] /\ transfers' = [transfers EXCEPT ![u] = w]
         /\ y = replies[u] \/ y = Append(replies[u], "ready")
         /\ w \in -1 .. Chunks
         /\ files' \subseteq files \cup {Server(j) : j \in Job}
  <2>1. CASE UNCHANGED <<transfers, files, replies>>
    <3>1. /\ replies' = [replies EXCEPT ![u] = replies[u]]
          /\ transfers' = [transfers EXCEPT ![u] = transfers[u]]
      BY <2>1, Same
    <3>2. transfers[u] \in -1 .. Chunks
      BY Now
    <3> QED
      BY <2>1, <3>1, <3>2
  <2>2. CASE /\ transfers' = [transfers EXCEPT ![u] = 0]
             /\ files' = files \cup {Server(Channel(u))}
             /\ Replies(u, "ready")
    <3>1. replies' = [replies EXCEPT ![u] = Append(replies[u], "ready")]
      BY <2>2 DEF Replies
    <3>2. 0 \in -1 .. Chunks
      BY UploadsAssumption
    <3>3. Channel(u) \in Job
      BY JobIs
    <3>4. files' \subseteq files \cup {Server(j) : j \in Job}
      BY <2>2, <3>3
    <3> QED
      BY <2>2, <3>1, <3>2, <3>4
  <2> QED
    BY <2>1, <2>2 DEF HandlePush
<1> HIDE DEF s
<1>5. /\ Tail(s) \in Seq(Msg) /\ y \in Seq(Reply)
      /\ UpOK(tab[u], conn[u], Tail(s), y, w, JobsOf(u), given[u])
  <2>1. UpOK(tab[u], conn[u], s, replies[u], transfers[u], JobsOf(u), given[u])
    BY Now DEF s
  <2>2. /\ tab[u] \in Tab /\ conn[u] \in Conn /\ JobsOf(u) \in [Path -> Finaliser]
    BY Now
  <2> QED
    BY <1>1, <1>2, <1>3, <1>4, <2>1, <2>2, TakeOK
<1>6. Puts(u, tab[u], conn[u], Tail(s), y, w, given[u])
  BY <1>1, <1>4, Same DEF Puts
<1> QED
  BY <1>1, <1>4, <1>5, <1>6, Now, TabInv

LEMMA HandleChunkInv ==
    ASSUME Invariant, NEW u \in Uploads, HandleChunk(u)
    PROVE  Invariant'
<1> DEFINE s == sent[u]
<1>1. /\ s # <<>> /\ Head(s).t = "chunk" /\ sent' = [sent EXCEPT ![u] = Tail(s)]
      /\ UNCHANGED <<tab, conn, loop, job, files, app, given>>
  BY DEF HandleChunk, Takes
<1>2. /\ s \in Seq(Msg) /\ replies[u] \in Seq(Reply) /\ transfers[u] \in -1 .. Chunks
      /\ UpOK(tab[u], conn[u], s, replies[u], transfers[u], JobsOf(u), given[u])
  BY Now
<1>3. Head(s) = s[1] /\ s[1].t = "chunk" /\ s[1] \in Msg
  BY <1>1, <1>2, TailIs
<1>4. s[1].seq \in 0 .. Chunks /\ s[1].seq < Chunks
  <2>1. 1 \in 1 .. Len(s)
    BY <1>1, <1>2, TailIs
  <2> QED
    BY <1>2, <1>3, <2>1 DEF UpOK, WireOK, Msg
<1>5. PICK y, w :
         /\ replies' = [replies EXCEPT ![u] = y] /\ transfers' = [transfers EXCEPT ![u] = w]
         /\ \/ y = replies[u] /\ s[1].seq = transfers[u] /\ w = transfers[u] + 1
            \/ y = Append(replies[u], "error") /\ w = transfers[u]
  <2>1. CASE /\ transfers[u] # -1 /\ Expected(u, Head(sent[u]).seq)
             /\ transfers' = [transfers EXCEPT ![u] = @ + 1]
             /\ UNCHANGED replies
    <3>1. /\ replies' = [replies EXCEPT ![u] = replies[u]]
          /\ transfers' = [transfers EXCEPT ![u] = transfers[u] + 1]
      BY <2>1, Same
    <3>2. s[1].seq = transfers[u]
      BY <1>3, <2>1 DEF Expected
    <3> QED
      BY <3>1, <3>2
  <2>2. CASE Replies(u, "error") /\ UNCHANGED transfers
    <3>1. /\ replies' = [replies EXCEPT ![u] = Append(replies[u], "error")]
          /\ transfers' = [transfers EXCEPT ![u] = transfers[u]]
      BY <2>2, Same DEF Replies
    <3> QED
      BY <3>1
  <2> QED
    BY <2>1, <2>2 DEF HandleChunk
<1> HIDE DEF s
<1>6. w \in -1 .. Chunks /\ (w = -1 => transfers[u] = -1)
  BY <1>2, <1>4, <1>5, UploadsAssumption
<1>7. s[1].seq = Chunks - 1 => w = Chunks \/ y = Append(replies[u], "error")
  BY <1>4, <1>5, UploadsAssumption
<1>8. /\ Tail(s) \in Seq(Msg) /\ y \in Seq(Reply)
      /\ UpOK(tab[u], conn[u], Tail(s), y, w, JobsOf(u), given[u])
  <2>1. /\ tab[u] \in Tab /\ conn[u] \in Conn /\ JobsOf(u) \in [Path -> Finaliser]
    BY Now
  <2> QED
    BY <1>1, <1>2, <1>5, <1>7, <2>1, TakeOK
<1>9. Puts(u, tab[u], conn[u], Tail(s), y, w, given[u])
  BY <1>1, <1>5, Same DEF Puts
<1> QED
  BY <1>1, <1>6, <1>8, <1>9, Now, TabInv

\* The file.end is taken, and its finaliser starts.
LEMMA StartOK ==
    ASSUME NEW t \in Tab, NEW c \in Conn, NEW s \in Seq(Msg), s # <<>>, s[1].t = "end",
           NEW r \in Seq(Reply), NEW x \in -1 .. Chunks, x # -1,
           NEW qs \in [Path -> Finaliser], NEW g,
           UpOK(t, c, s, r, x, qs, g),
           NEW q \in Finaliser, q.at = "copy", q.whole = (x = Chunks), q.verdict = "silent",
           q.conn = c.drops
    PROVE  /\ Tail(s) = <<>> /\ qs["channel"].at = "idle"
           /\ UpOK(t, c, <<>>, r, -1, [qs EXCEPT !["channel"] = q], g)
<1>1. /\ WireOK(c, s) /\ TabOK(t) /\ PushOnce(t, s, r) /\ EndOnce(t, s, r, qs["channel"])
      /\ EndAfterAll(t, s, r, x) /\ OkIsWhole(t, r, g)
      /\ JobsOK(t, qs, g) /\ (t.at = "ok" => g = "whole")
  BY DEF UpOK
<1>2. Tail(s) = <<>> /\ EndIn(s)
  BY <1>1, RestIs DEF Rest
<1>3. 1 \in 1 .. Len(s)
  BY TailIs
<1>4. t.at \in {"ended", "failed"} /\ qs["channel"].at = "idle" /\ ~FinalIn(r)
  BY <1>1, <1>2 DEF EndOnce
<1>5. x = Chunks \/ t.at \notin Waiting \/ ErrorIn(r)
  BY <1>1, <1>3 DEF EndAfterAll
<1>6. PICK qn : qn = [qs EXCEPT !["channel"] = q]
  OBVIOUS
<1>7. /\ qn["channel"] = q /\ qn["form"] = qs["form"] /\ qn["forced"] = qs["forced"]
      /\ \A p \in Path : p = "channel" \/ qn[p] = qs[p]
  BY <1>6 DEF Path
<1>8. 1 .. Len(<<>>) = {}
  BY EmptyHas
<1>9. WireOK(c, <<>>) /\ EndAfterAll(t, <<>>, r, -1)
  BY <1>8 DEF WireOK, EndAfterAll
<1>10. PushOnce(t, <<>>, r)
  BY <1>1, <1>4, <1>8, EmptyHas DEF PushOnce
<1>11. EndOnce(t, <<>>, r, q)
  BY <1>1, <1>4, EmptyHas DEF EndOnce
<1>12. CutIsTold(t, c, r, q)
  <2>1. c.drops <= c.drops
    BY UploadsAssumption DEF Conn
  <2> QED
    BY <1>5, <2>1 DEF CutIsTold
<1>13. JobsOK(t, qn, g)
  <2>1. Gave(q, g) /\ ApkOK(t, q, "channel")
    BY DEF Gave, ApkOK
  <2>2. \A p \in Path : Gave(qn[p], g) /\ ApkOK(t, qn[p], p)
    BY <1>1, <1>7, <2>1 DEF JobsOK
  <2> QED
    BY <1>1, <1>7, <2>2 DEF JobsOK
<1>14. UpOK(t, c, <<>>, r, -1, qn, g)
  BY <1>1, <1>7, <1>9, <1>10, <1>11, <1>12, <1>13 DEF UpOK
<1> QED
  BY <1>2, <1>4, <1>6, <1>14

\* A finaliser starts, on any path, for a file that was written.
LEMMA StartedIs ==
    ASSUME Invariant, NEW u \in Uploads, NEW b \in BOOLEAN
    PROVE  /\ Started(u, b) \in Finaliser
           /\ Started(u, b).at = "copy" /\ Started(u, b).whole = b
           /\ Started(u, b).verdict = "silent" /\ Started(u, b).conn = conn[u].drops
<1>1. conn[u].drops \in 0 .. MaxDrops
  BY Now DEF Conn
<1>2. "copy" \in Step /\ "silent" \in Verdict
  BY DEF Step, Verdict
<1> QED
  BY <1>1, <1>2 DEF Started, Finaliser

\* What the step of one finaliser leaves of all of them.
Turns(u, p, q) == job' = [job EXCEPT ![<<u, p>>] = q]
With(u, p, q) == [JobsOf(u) EXCEPT ![p] = q]

LEMMA JobPut ==
    ASSUME Invariant, NEW u \in Uploads, NEW p \in Path, NEW q \in Finaliser, Turns(u, p, q)
    PROVE  /\ job' \in [Job -> Finaliser] /\ With(u, p, q) \in [Path -> Finaliser]
           /\ \A v \in Uploads, o \in Path :
                 job'[<<v, o>>] = IF v = u THEN With(u, p, q)[o] ELSE job[<<v, o>>]
<1>1. job \in [Job -> Finaliser]
  BY DEF Invariant, Typed
<1>2. \A v \in Uploads, o \in Path : <<v, o>> \in Job
  BY JobIs
<1>3. /\ JobsOf(u) \in [Path -> Finaliser]
      /\ \A o \in Path : JobsOf(u)[o] = job[<<u, o>>]
  BY JobsAre DEF Invariant
<1>4. job' \in [Job -> Finaliser]
  BY <1>1 DEF Turns
<1>5. ASSUME NEW v \in Uploads, NEW o \in Path
      PROVE  job'[<<v, o>>] = IF v = u THEN With(u, p, q)[o] ELSE job[<<v, o>>]
  <2>1. job'[<<v, o>>] = IF <<v, o>> = <<u, p>> THEN q ELSE job[<<v, o>>]
    BY <1>1, <1>2 DEF Turns
  <2>2. With(u, p, q)[o] = IF o = p THEN q ELSE job[<<u, o>>]
    BY <1>3 DEF With
  <2> QED
    BY <2>1, <2>2
<1>6. With(u, p, q) \in [Path -> Finaliser]
  BY <1>3 DEF With
<1> QED
  BY <1>4, <1>5, <1>6

LEMMA HandleEndInv ==
    ASSUME Invariant, NEW u \in Uploads, HandleEnd(u)
    PROVE  Invariant'
<1> DEFINE s == sent[u]  t == tab[u]  c == conn[u]  r == replies[u]  x == transfers[u]
           g == given[u]
<1>1. /\ loop = {} /\ s # <<>> /\ Head(s).t = "end" /\ sent' = [sent EXCEPT ![u] = Tail(s)]
      /\ UNCHANGED <<tab, conn, files, app, given>>
  BY DEF HandleEnd, Takes
<1>2. /\ t \in Tab /\ c \in Conn /\ s \in Seq(Msg) /\ r \in Seq(Reply) /\ x \in -1 .. Chunks
      /\ g \in Given /\ JobsOf(u) \in [Path -> Finaliser]
      /\ UpOK(t, c, s, r, x, JobsOf(u), g)
  BY Now
<1>3. s[1].t = "end"
  BY <1>1, <1>2, TailIs
<1>4. CASE x = -1 /\ Replies(u, "error") /\ UNCHANGED <<transfers, job, loop>>
  <2>1. PICK y : y = Append(r, "error")
    OBVIOUS
  <2>2. replies' = [replies EXCEPT ![u] = y]
    BY <1>4, <2>1 DEF Replies
  <2> HIDE DEF s, t, c, r, x, g
  <2>3. /\ Tail(s) \in Seq(Msg) /\ y \in Seq(Reply)
        /\ UpOK(t, c, Tail(s), y, x, JobsOf(u), g)
    BY <1>1, <1>2, <1>3, <2>1, TakeOK
  <2>4. Puts(u, t, c, Tail(s), y, x, g)
    BY <1>1, <1>4, <2>2, Same DEF Puts, s, t, c, x, g
  <2>5. files' = files
    BY <1>1
  <2> QED
    BY <1>1, <1>2, <1>4, <2>3, <2>4, <2>5, TabInv DEF t, c, x, g
<1>5. CASE /\ x # -1
           /\ transfers' = [transfers EXCEPT ![u] = -1]
           /\ job' = [job EXCEPT ![Channel(u)] = Started(u, x = Chunks)]
           /\ loop' = {u}
           /\ UNCHANGED replies
  <2>1. PICK q : q = Started(u, x = Chunks)
    OBVIOUS
  <2>2. /\ q \in Finaliser /\ q.at = "copy" /\ q.whole = (x = Chunks)
        /\ q.verdict = "silent" /\ q.conn = c.drops
    BY <2>1, StartedIs
  <2>3. /\ job' = [job EXCEPT ![<<u, "channel">>] = q]
        /\ <<u, "channel">> = Channel(u) /\ Channel(u) \in Job
        /\ "channel" \in Path
    BY <1>5, <2>1, JobIs
  <2>12. Turns(u, "channel", q)
    BY <2>3 DEF Turns
  <2>4. PICK qs : qs = With(u, "channel", q)
    OBVIOUS
  <2>5. /\ job' \in [Job -> Finaliser] /\ qs \in [Path -> Finaliser]
        /\ \A v \in Uploads, o \in Path :
              job'[<<v, o>>] = IF v = u THEN qs[o] ELSE job[<<v, o>>]
    BY <2>2, <2>3, <2>4, <2>12, JobPut
  <2>6. job \in [Job -> Finaliser] /\ transfers \in [Uploads -> -1 .. Chunks]
    BY DEF Invariant, Typed
  <2>7. LoopOK'
    <3>1. \A v \in Uploads : job[Channel(v)].at = "idle"
      BY <1>1 DEF Invariant, LoopOK, Working
    <3>2. \A v \in Uploads : Channel(v) \in Job /\ (Channel(v) = Channel(u) <=> v = u)
      BY JobIs
    <3>3. \A v \in Uploads : job'[Channel(v)].at # "idle" <=> v = u
      BY <2>2, <2>3, <2>6, <3>1, <3>2
    <3> QED
      BY <1>5, <3>3 DEF LoopOK, Working
  <2>9. Told'
    <3>1. \A v \in Uploads : job'[<<v, "forced">>] = job[<<v, "forced">>]
      BY <2>3, <2>6, JobIs
    <3> QED
      BY <1>1, <3>1 DEF Invariant, Told
  <2>10. Puts(u, t, c, <<>>, r, -1, g) /\ UpOK(t, c, <<>>, r, -1, qs, g)
    <3> HIDE DEF s, t, c, r, x, g
    <3>1. Tail(s) = <<>> /\ UpOK(t, c, <<>>, r, -1, qs, g)
      BY <1>1, <1>2, <1>3, <1>5, <2>2, <2>4, StartOK DEF With
    <3>2. Puts(u, t, c, <<>>, r, -1, g)
      BY <1>1, <1>5, <3>1, Same DEF Puts, s, t, c, r, g
    <3> QED
      BY <3>1, <3>2
  <2>11. /\ files' \subseteq {"server", "device"} \X Job /\ app' \in Keys \cup {"none"}
         /\ -1 \in -1 .. Chunks
    BY <1>1, UploadsAssumption DEF Invariant, Typed
  <2> HIDE DEF t, c, r, g
  <2> QED
    BY <1>2, <2>5, <2>7, <2>9, <2>10, <2>11, EmptyHas, ActsInv
<1> QED
  BY <1>4, <1>5 DEF HandleEnd

-----------------------------------------------------------------------------
(* The finaliser at work.                                                    *)

\* A step of finaliser q of path p, which becomes o and leaves the device with h.
LEMMA WorkOK ==
    ASSUME NEW t \in Tab, NEW c, NEW s, NEW r, NEW x, NEW qs \in [Path -> Finaliser],
           NEW g, NEW p \in Path, NEW o \in Finaliser, NEW h,
           UpOK(t, c, s, r, x, qs, g),
           qs[p].at # "idle", o.at # "idle", o.whole = qs[p].whole, o.conn = qs[p].conn,
           h = g \/ h = IF qs[p].whole THEN "whole" ELSE "cut",
           Gave(o, h), ApkOK(t, o, p)
    PROVE  UpOK(t, c, s, r, x, [qs EXCEPT ![p] = o], h)
<1>1. /\ WireOK(c, s) /\ TabOK(t) /\ PushOnce(t, s, r) /\ EndOnce(t, s, r, qs["channel"])
      /\ EndAfterAll(t, s, r, x) /\ CutIsTold(t, c, r, qs["channel"]) /\ OkIsWhole(t, r, g)
      /\ JobsOK(t, qs, g) /\ (t.at = "ok" => g = "whole")
  BY DEF UpOK
<1>2. PICK qn : qn = [qs EXCEPT ![p] = o]
  OBVIOUS
<1>3. /\ qn[p] = o /\ \A k \in Path : k # p => qn[k] = qs[k]
      /\ {"channel", "form", "forced"} = Path
  BY <1>2 DEF Path
<1>4. /\ p \in {"form", "forced"} => t.at = "form" /\ qs[p].whole
      /\ p = "channel" => /\ t.at \in {"ended", "failed"} /\ ~FinalIn(r)
                          /\ qs["form"].at = "idle" /\ qs["forced"].at = "idle"
  BY <1>1 DEF EndOnce, JobsOK, FormOK
<1>5. h = g \/ h = "whole" \/ p = "channel"
  BY <1>3, <1>4
<1>6. EndOnce(t, s, r, qn["channel"])
  BY <1>1, <1>3 DEF EndOnce
<1>7. CutIsTold(t, c, r, qn["channel"])
  BY <1>1, <1>3 DEF CutIsTold
<1>8. OkIsWhole(t, r, h)
  BY <1>1, <1>4, <1>5 DEF OkIsWhole, FinalIn, Final
<1>9. t.at = "ok" => h = "whole"
  BY <1>1, <1>4, <1>5
<1>10. \A k \in Path : Gave(qn[k], h) /\ ApkOK(t, qn[k], k)
  <2> TAKE k \in Path
  <2>1. CASE k = p
    BY <1>3, <2>1
  <2>2. CASE k # p
    <3>1. qn[k] = qs[k] /\ Gave(qs[k], g) /\ ApkOK(t, qs[k], k)
      BY <1>1, <1>3, <2>2 DEF JobsOK
    <3>2. Gave(qs[k], h)
      <4>1. p = "channel" => qs[k].at = "idle"
        BY <1>3, <1>4, <2>2
      <4> QED
        BY <1>5, <3>1, <4>1 DEF Gave
    <3> QED
      BY <3>1, <3>2
  <2> QED
    BY <2>1, <2>2
<1>11. FormOK(t, qn["form"], FALSE) /\ FormOK(t, qn["forced"], TRUE)
  BY <1>1, <1>3 DEF JobsOK, FormOK
<1>12. JobsOK(t, qn, h)
  BY <1>10, <1>11 DEF JobsOK
<1> QED
  BY <1>1, <1>2, <1>6, <1>7, <1>8, <1>9, <1>12 DEF UpOK

\* What is true of the finaliser of path p before its step.
LEMMA JobNow ==
    ASSUME Invariant, NEW u \in Uploads, NEW p \in Path
    PROVE  LET q == job[<<u, p>>]
           IN  /\ q \in Finaliser /\ Gave(q, given[u]) /\ ApkOK(tab[u], q, p)
               /\ q.at # "idle" /\ p = "forced" => tab[u].force
               /\ tab[u].kind \in Keys \cup {"file"} /\ <<u, p>>[1] = u /\ <<u, p>>[2] = p
<1>1. /\ JobsOf(u) \in [Path -> Finaliser] /\ JobsOf(u)[p] = job[<<u, p>>]
      /\ JobsOK(tab[u], JobsOf(u), given[u]) /\ tab[u] \in Tab
  BY JobsAre, Now DEF UpOK, Invariant
<1>2. tab[u].kind \in Keys \cup {"file"}
  BY <1>1 DEF Tab, Kind
<1>3. JobsOf(u)["forced"].at # "idle" => tab[u].force = TRUE
  BY <1>1 DEF JobsOK, FormOK
<1>4. JobsOf(u)[p] \in Finaliser
  BY <1>1
<1> QED
  BY <1>1, <1>2, <1>3, <1>4 DEF JobsOK

AtWork(q) == q.at \in {"retry", "clean", "answer"} /\ q.verdict # "ok"

LEMMA WorkInv ==
    ASSUME Invariant, NEW u \in Uploads, NEW p \in Path, NEW o \in Finaliser,
           job[<<u, p>>].at # "idle",
           o.at # "idle", o.whole = job[<<u, p>>].whole, o.conn = job[<<u, p>>].conn,
           NEW h \in Given, h = given[u] \/ h = IF o.whole THEN "whole" ELSE "cut",
           Gave(o, h), ApkOK(tab[u], o, p),
           Turns(u, p, o), given' = [given EXCEPT ![u] = h],
           UNCHANGED <<tab, conn, sent, replies, transfers, loop>>,
           files' \subseteq files \cup {Device(<<u, p>>)},
           app' \in Keys \cup {"none"},
           app' = "none" =>
              \/ app = "none" /\ (AtWork(job[<<u, p>>]) => AtWork(o))
              \/ p = "forced" /\ tab[u].force /\ AtWork(o)
    PROVE  Invariant'
<1>1. PICK qs : qs = With(u, p, o)
  OBVIOUS
<1>2. /\ job' \in [Job -> Finaliser] /\ qs \in [Path -> Finaliser]
      /\ \A v \in Uploads, k \in Path :
            job'[<<v, k>>] = IF v = u THEN qs[k] ELSE job[<<v, k>>]
  BY <1>1, JobPut
<1>3. /\ job \in [Job -> Finaliser] /\ JobsOf(u) \in [Path -> Finaliser]
      /\ JobsOf(u)[p] = job[<<u, p>>] /\ <<u, p>> \in Job
  <2>1. Typed
    BY DEF Invariant
  <2>2. JobsOf(u) \in [Path -> Finaliser] /\ JobsOf(u)[p] = job[<<u, p>>]
    BY <2>1, JobsAre
  <2> QED
    BY <2>1, <2>2, JobIs DEF Typed
<1>4. UpOK(tab[u], conn[u], sent[u], replies[u], transfers[u], qs, h)
  <2>1. /\ tab[u] \in Tab
        /\ UpOK(tab[u], conn[u], sent[u], replies[u], transfers[u], JobsOf(u), given[u])
    BY Now
  <2>2. PICK ps : ps = JobsOf(u)
    OBVIOUS
  <2>3. UpOK(tab[u], conn[u], sent[u], replies[u], transfers[u], [ps EXCEPT ![p] = o], h)
    BY <1>3, <2>1, <2>2, WorkOK
  <2> QED
    BY <1>1, <2>2, <2>3 DEF With
<1>5. Puts(u, tab[u], conn[u], sent[u], replies[u], transfers[u], h)
  BY Same DEF Puts
<1>6. \A j \in Job : job'[j] = IF j = <<u, p>> THEN o ELSE job[j]
  BY <1>3 DEF Turns
<1>7. LoopOK'
  <2>1. \A v \in Uploads : Channel(v) \in Job
    BY JobIs
  <2>2. \A v \in Uploads : job'[Channel(v)].at # "idle" <=> job[Channel(v)].at # "idle"
    BY <1>6, <2>1
  <2> QED
    BY <2>2 DEF Invariant, LoopOK, Working
<1>9. Told'
  <2>1. \A v \in Uploads : <<v, "forced">> \in Job /\ (<<v, "forced">> = <<u, p>> => v = u)
    BY JobIs
  <2> SUFFICES ASSUME app' = "none"
               PROVE  \E v \in Uploads :
                        tab[v].force /\ (tab[v].at = "failed" \/ AtWork(job'[<<v, "forced">>]))
    BY DEF Told, AtWork
  <2>2. CASE app = "none" /\ (AtWork(job[<<u, p>>]) => AtWork(o))
    <3>1. PICK w \in Uploads :
             tab[w].force /\ (tab[w].at = "failed" \/ AtWork(job[<<w, "forced">>]))
      BY <2>2 DEF Invariant, Told, AtWork
    <3>2. AtWork(job[<<w, "forced">>]) => AtWork(job'[<<w, "forced">>])
      BY <1>6, <2>1, <2>2
    <3> QED
      BY <3>1, <3>2
  <2>3. CASE p = "forced" /\ tab[u].force /\ AtWork(o)
    BY <1>3, <1>6, <2>3
  <2> QED
    BY <2>2, <2>3
<1>10. files' \subseteq {"server", "device"} \X Job
  <2>1. Device(<<u, p>>) \in {"server", "device"} \X Job
    BY <1>3 DEF Device
  <2>2. files \subseteq {"server", "device"} \X Job
    BY DEF Invariant, Typed
  <2> QED
    BY <2>1, <2>2
<1> QED
  BY <1>2, <1>4, <1>5, <1>7, <1>9, <1>10, Now, ActsInv

\* The finaliser of path p goes on to a step, with a verdict.
Next1(q, at, verdict) == [q EXCEPT !.at = at, !.verdict = verdict]

LEMMA DecidesIs ==
    ASSUME Invariant, NEW u \in Uploads, NEW p \in Path, NEW at, NEW verdict
    PROVE  /\ Decides(<<u, p>>, at, verdict) =>
                Turns(u, p, Next1(job[<<u, p>>], at, verdict))
           /\ Goes(<<u, p>>, at) => Turns(u, p, Next1(job[<<u, p>>], at, job[<<u, p>>].verdict))
<1>1. job \in [Job -> Finaliser] /\ <<u, p>> \in Job /\ job[<<u, p>>] \in Finaliser
  BY JobIs DEF Invariant, Typed
<1>2. Next1(job[<<u, p>>], at, job[<<u, p>>].verdict) = [job[<<u, p>>] EXCEPT !.at = at]
  BY <1>1 DEF Next1, Finaliser
<1> QED
  BY <1>1, <1>2 DEF Decides, Goes, Turns, Next1

LEMMA StepsAre ==
    /\ "copy" \in Step /\ "install" \in Step /\ "uninstall" \in Step /\ "retry" \in Step
    /\ "clean" \in Step /\ "answer" \in Step
    /\ "ok" \in Verdict /\ "error" \in Verdict /\ "mismatch" \in Verdict /\ "silent" \in Verdict
BY DEF Step, Verdict

LEMMA AppNow == Invariant => app \in Keys \cup {"none"}
BY DEF Invariant, Typed

\* What the finaliser gives the device.
LEMMA GivesIs ==
    ASSUME Invariant, NEW u \in Uploads, NEW p \in Path, Gives(<<u, p>>)
    PROVE  \E h \in Given : /\ h = IF job[<<u, p>>].whole THEN "whole" ELSE "cut"
                            /\ given' = [given EXCEPT ![u] = h]
<1>1. <<u, p>>[1] = u
  OBVIOUS
<1> QED
  BY <1>1 DEF Gives, Given

LEMMA CopyFileInv ==
    ASSUME Invariant, NEW u \in Uploads, NEW p \in Path, CopyFile(<<u, p>>)
    PROVE  Invariant'
<1> DEFINE q == job[<<u, p>>]
<1>1. /\ q.at = "copy" /\ UNCHANGED <<tab, conn, sent, replies, transfers, loop, files, app>>
  BY DEF CopyFile
<1>2. /\ q \in Finaliser /\ given[u] \in Given /\ app \in Keys \cup {"none"}
  BY JobNow, AppNow, Now
<1>3. PICK verdict \in Verdict, h \in Given :
         /\ Turns(u, p, Next1(q, "answer", verdict)) /\ given' = [given EXCEPT ![u] = h]
         /\ h = given[u] \/ h = IF q.whole THEN "whole" ELSE "cut"
         /\ verdict = "ok" => h = IF q.whole THEN "whole" ELSE "cut"
  <2>1. CASE Gives(<<u, p>>) /\ Decides(<<u, p>>, "answer", "ok")
    <3>1. PICK h \in Given : /\ h = IF q.whole THEN "whole" ELSE "cut"
                             /\ given' = [given EXCEPT ![u] = h]
      BY <2>1, GivesIs
    <3> QED
      BY <2>1, <3>1, DecidesIs, StepsAre
  <2>2. CASE \E verdict \in {"error", "silent"} :
                Decides(<<u, p>>, "answer", verdict) /\ UNCHANGED given
    <3>1. PICK verdict \in {"error", "silent"} :
             Decides(<<u, p>>, "answer", verdict) /\ UNCHANGED given
      BY <2>2
    <3>2. given' = [given EXCEPT ![u] = given[u]]
      BY <3>1, Same
    <3> QED
      BY <1>2, <3>1, <3>2, DecidesIs, StepsAre
  <2> QED
    BY <2>1, <2>2 DEF CopyFile
<1> HIDE DEF q
<1>4. PICK o : o = Next1(q, "answer", verdict)
  OBVIOUS
<1>5. /\ o \in Finaliser /\ o.at = "answer" /\ o.verdict = verdict
      /\ o.whole = q.whole /\ o.conn = q.conn
  BY <1>2, <1>4, StepsAre DEF Next1, Finaliser
<1>6. Gave(o, h) /\ ApkOK(tab[u], o, p)
  BY <1>3, <1>5 DEF Gave, ApkOK
<1>7. files' \subseteq files /\ ~AtWork(q)
  BY <1>1 DEF AtWork
<1> QED
  BY <1>1, <1>2, <1>3, <1>4, <1>5, <1>6, <1>7, WorkInv DEF q

LEMMA CopyApkInv ==
    ASSUME Invariant, NEW u \in Uploads, NEW p \in Path, CopyApk(<<u, p>>)
    PROVE  Invariant'
<1> DEFINE q == job[<<u, p>>]
<1>1. /\ q.at = "copy" /\ tab[u].kind # "file"
      /\ UNCHANGED <<tab, conn, sent, replies, transfers, loop, app, given>>
  BY JobNow DEF CopyApk, KindOf
<1>2. /\ q \in Finaliser /\ given[u] \in Given /\ app \in Keys \cup {"none"}
      /\ Gave(q, given[u])
  BY JobNow, AppNow, Now
<1>3. PICK at \in Step, verdict \in Verdict :
         /\ Turns(u, p, Next1(q, at, verdict))
         /\ files' \subseteq files \cup {Device(<<u, p>>)}
         /\ \/ at = "install" /\ verdict = q.verdict
            \/ at = "answer" /\ verdict \in {"error", "silent"}
  <2>1. CASE files' = files \cup {Device(<<u, p>>)} /\ Goes(<<u, p>>, "install")
    <3>1. q.verdict \in Verdict
      BY <1>2 DEF Finaliser
    <3> QED
      BY <2>1, <3>1, DecidesIs, StepsAre
  <2>2. CASE /\ \E verdict \in {"error", "silent"} : Decides(<<u, p>>, "answer", verdict)
             /\ files' \in {files, files \cup {Device(<<u, p>>)}}
    BY <2>2, DecidesIs, StepsAre
  <2> QED
    BY <2>1, <2>2 DEF CopyApk
<1> HIDE DEF q
<1>4. PICK o : o = Next1(q, at, verdict)
  OBVIOUS
<1>5. /\ o \in Finaliser /\ o.at = at /\ o.verdict = verdict
      /\ o.whole = q.whole /\ o.conn = q.conn
  BY <1>2, <1>4 DEF Next1, Finaliser
<1>6. Gave(o, given[u]) /\ ApkOK(tab[u], o, p) /\ o.at # "idle"
  BY <1>1, <1>2, <1>3, <1>5 DEF Gave, ApkOK
<1>7. ~AtWork(q)
  BY <1>1 DEF AtWork
<1>8. given' = [given EXCEPT ![u] = given[u]]
  BY <1>1, Same
<1>9. files' \subseteq files \cup {Device(<<u, p>>)}
  BY <1>3
<1>11. Turns(u, p, o)
  BY <1>3, <1>4
<1>12. app' \in Keys \cup {"none"} /\ app' = app /\ q.at # "idle"
  BY <1>1, <1>2
<1> QED
  BY <1>1, <1>2, <1>5, <1>6, <1>7, <1>8, <1>9, <1>11, <1>12, WorkInv DEF q

LEMMA InstallInv ==
    ASSUME Invariant, NEW u \in Uploads, NEW p \in Path, Install(<<u, p>>)
    PROVE  Invariant'
<1> DEFINE q == job[<<u, p>>]
<1>1. /\ q.at \in {"install", "retry"}
      /\ UNCHANGED <<tab, conn, sent, replies, transfers, loop, files>>
  BY DEF Install
<1>2. /\ q \in Finaliser /\ given[u] \in Given /\ app \in Keys \cup {"none"}
      /\ ApkOK(tab[u], q, p) /\ tab[u].kind \in Keys \cup {"file"}
  BY JobNow, AppNow, Now
<1>3. tab[u].kind \in Keys /\ tab[u].kind # "none"
  BY <1>1, <1>2, UploadsAssumption DEF ApkOK
<1>4. PICK at \in Step, verdict \in Verdict, h \in Given :
         /\ Turns(u, p, Next1(q, at, verdict)) /\ given' = [given EXCEPT ![u] = h]
         /\ h = given[u] \/ h = IF q.whole THEN "whole" ELSE "cut"
         /\ verdict = "ok" => h = IF q.whole THEN "whole" ELSE "cut"
         /\ \/ app' = tab[u].kind /\ at = "clean"
            \/ app' = app /\ verdict \in {"error", "mismatch"} /\ at = "clean"
            \/ /\ app' = app /\ verdict = "mismatch" /\ at = "uninstall"
               /\ p = "forced" /\ q.at = "install"
  <2>1. CASE /\ Installable(<<u, p>>)
             /\ app' = KindOf(<<u, p>>) /\ Gives(<<u, p>>)
             /\ \E verdict \in {"ok", "error"} : Decides(<<u, p>>, "clean", verdict)
    <3>1. PICK verdict \in {"ok", "error"} : Decides(<<u, p>>, "clean", verdict)
      BY <2>1
    <3>2. PICK h \in Given : /\ h = IF q.whole THEN "whole" ELSE "cut"
                             /\ given' = [given EXCEPT ![u] = h]
      BY <2>1, GivesIs
    <3>3. app' = tab[u].kind
      BY <2>1, JobNow DEF KindOf
    <3> QED
      BY <3>1, <3>2, <3>3, DecidesIs, StepsAre
  <2>2. CASE /\ Decides(<<u, p>>, AfterMismatch(<<u, p>>), "mismatch")
             /\ UNCHANGED <<app, given>>
    <3>1. PICK at : at = AfterMismatch(<<u, p>>)
      OBVIOUS
    <3>2. at = "clean" \/ (at = "uninstall" /\ p = "forced" /\ q.at = "install")
      BY <3>1 DEF AfterMismatch, Forced
    <3>3. given' = [given EXCEPT ![u] = given[u]]
      BY <2>2, Same
    <3>4. Turns(u, p, Next1(q, at, "mismatch")) /\ at \in Step
      BY <2>2, <3>1, <3>2, DecidesIs, StepsAre
    <3> QED
      BY <1>2, <2>2, <3>2, <3>3, <3>4, StepsAre
  <2>3. CASE Decides(<<u, p>>, "clean", "error") /\ UNCHANGED <<app, given>>
    <3>1. given' = [given EXCEPT ![u] = given[u]]
      BY <2>3, Same
    <3> QED
      BY <1>2, <2>3, <3>1, DecidesIs, StepsAre
  <2> QED
    BY <2>1, <2>2, <2>3 DEF Install
<1> HIDE DEF q
<1>5. PICK o : o = Next1(q, at, verdict)
  OBVIOUS
<1>6. /\ o \in Finaliser /\ o.at = at /\ o.verdict = verdict
      /\ o.whole = q.whole /\ o.conn = q.conn
  BY <1>2, <1>5 DEF Next1, Finaliser
<1>7. Gave(o, h) /\ o.at # "idle" /\ q.at # "idle"
  BY <1>1, <1>4, <1>6 DEF Gave
<1>8. ApkOK(tab[u], o, p)
  BY <1>1, <1>2, <1>4, <1>6 DEF ApkOK
<1>9. files' \subseteq files
  BY <1>1
<1>10. app' \in Keys \cup {"none"}
  BY <1>2, <1>3, <1>4
<1>11. app' = "none" => app = "none" /\ (AtWork(q) => AtWork(o))
  BY <1>3, <1>4, <1>6 DEF AtWork
<1>12. h = given[u] \/ h = IF o.whole THEN "whole" ELSE "cut"
  BY <1>4, <1>6
<1> QED
  BY <1>1, <1>4, <1>5, <1>6, <1>7, <1>8, <1>9, <1>10, <1>11, <1>12, WorkInv DEF q

LEMMA UninstallInv ==
    ASSUME Invariant, NEW u \in Uploads, NEW p \in Path, Uninstall(<<u, p>>)
    PROVE  Invariant'
<1> DEFINE q == job[<<u, p>>]
<1>1. /\ q.at = "uninstall"
      /\ UNCHANGED <<tab, conn, sent, replies, transfers, loop, files, given>>
  BY DEF Uninstall
<1>2. /\ q \in Finaliser /\ given[u] \in Given /\ app \in Keys \cup {"none"}
      /\ ApkOK(tab[u], q, p) /\ Gave(q, given[u])
      /\ q.at # "idle" /\ p = "forced" => tab[u].force
  BY JobNow, AppNow, Now
<1>3. p = "forced" /\ tab[u].force /\ q.verdict = "mismatch"
  BY <1>1, <1>2 DEF ApkOK
<1>4. PICK at \in {"retry", "clean"}, verdict \in Verdict :
         /\ Turns(u, p, Next1(q, at, verdict)) /\ verdict # "ok"
         /\ app' \in {app, "none"}
  <2>1. CASE app' = "none" /\ Goes(<<u, p>>, "retry")
    BY <1>3, <2>1, DecidesIs, StepsAre
  <2>2. CASE app' \in {app, "none"} /\ Decides(<<u, p>>, "clean", "error")
    BY <2>2, DecidesIs, StepsAre
  <2> QED
    BY <2>1, <2>2 DEF Uninstall
<1> HIDE DEF q
<1>5. PICK o : o = Next1(q, at, verdict)
  OBVIOUS
<1>6. /\ o \in Finaliser /\ o.at = at /\ o.verdict = verdict
      /\ o.whole = q.whole /\ o.conn = q.conn
  BY <1>2, <1>4, <1>5, StepsAre DEF Next1, Finaliser
<1>7. Gave(o, given[u]) /\ ApkOK(tab[u], o, p) /\ o.at # "idle" /\ q.at # "idle" /\ AtWork(o)
  BY <1>1, <1>2, <1>4, <1>6 DEF Gave, ApkOK, AtWork
<1>8. given' = [given EXCEPT ![u] = given[u]]
  BY <1>1, Same
<1>9. files' \subseteq files
  BY <1>1
<1>10. app' \in Keys \cup {"none"}
  BY <1>2, <1>4
<1> QED
  BY <1>1, <1>2, <1>3, <1>4, <1>5, <1>6, <1>7, <1>8, <1>9, <1>10, WorkInv DEF q

LEMMA CleanInv ==
    ASSUME Invariant, NEW u \in Uploads, NEW p \in Path, Clean(<<u, p>>)
    PROVE  Invariant'
<1> DEFINE q == job[<<u, p>>]
<1>1. /\ q.at = "clean" /\ files' = files \ {Device(<<u, p>>)} /\ Goes(<<u, p>>, "answer")
      /\ UNCHANGED <<tab, conn, sent, replies, transfers, loop, app, given>>
  BY DEF Clean
<1>2. /\ q \in Finaliser /\ given[u] \in Given /\ app \in Keys \cup {"none"}
      /\ Gave(q, given[u])
  BY JobNow, AppNow, Now
<1>3. Turns(u, p, Next1(q, "answer", q.verdict))
  BY <1>1, DecidesIs
<1> HIDE DEF q
<1>4. PICK o : o = Next1(q, "answer", q.verdict)
  OBVIOUS
<1>5. /\ o \in Finaliser /\ o.at = "answer" /\ o.verdict = q.verdict
      /\ o.whole = q.whole /\ o.conn = q.conn
  BY <1>2, <1>4, StepsAre DEF Next1, Finaliser
<1>6. /\ Gave(o, given[u]) /\ ApkOK(tab[u], o, p) /\ o.at # "idle" /\ q.at # "idle"
      /\ AtWork(q) => AtWork(o)
  BY <1>1, <1>2, <1>5 DEF Gave, ApkOK, AtWork
<1>7. given' = [given EXCEPT ![u] = given[u]]
  BY <1>1, Same
<1>8. files' \subseteq files
  BY <1>1
<1> QED
  BY <1>1, <1>2, <1>3, <1>4, <1>5, <1>6, <1>7, <1>8, WorkInv DEF q

-----------------------------------------------------------------------------
(* The answer.                                                               *)

LEMMA IdleIs == Idle \in Finaliser /\ Idle.at = "idle"
<1>1. "idle" \in Step /\ "silent" \in Verdict /\ 0 \in 0 .. MaxDrops
  BY UploadsAssumption DEF Step, Verdict
<1> QED
  BY <1>1 DEF Idle, Finaliser

LEMMA AfterTurn ==
    ASSUME Invariant, NEW u \in Uploads, NEW p \in Path, NEW o \in Finaliser, Turns(u, p, o)
    PROVE  \A j \in Job : job'[j] = IF j = <<u, p>> THEN o ELSE job[j]
<1>1. job \in [Job -> Finaliser] /\ <<u, p>> \in Job
  BY JobIs DEF Invariant, Typed
<1> QED
  BY <1>1 DEF Turns

\* A verdict on its way to the tab.
LEMMA VerdictOK ==
    ASSUME NEW t \in Tab, NEW c \in Conn, NEW s \in Seq(Msg), NEW r \in Seq(Reply),
           NEW x, NEW qs \in [Path -> Finaliser], NEW g,
           UpOK(t, c, s, r, x, qs, g), qs["channel"].at # "idle",
           NEW y, \/ y = r
                  \/ /\ y = Append(r, qs["channel"].verdict)
                     /\ qs["channel"].verdict # "silent" /\ qs["channel"].conn = c.drops
    PROVE  y \in Seq(Reply) /\ UpOK(t, c, s, y, x, [qs EXCEPT !["channel"] = Idle], g)
<1> DEFINE q == qs["channel"]
<1>1. /\ WireOK(c, s) /\ TabOK(t) /\ PushOnce(t, s, r) /\ EndOnce(t, s, r, q)
      /\ CutIsTold(t, c, r, q) /\ OkIsWhole(t, r, g)
      /\ JobsOK(t, qs, g) /\ (t.at = "ok" => g = "whole")
  BY DEF UpOK
<1>2. /\ t.at \in {"ended", "failed"} /\ ~FinalIn(r) /\ ~EndIn(s)
      /\ q \in Finaliser /\ Gave(q, g)
  BY <1>1 DEF EndOnce, JobsOK, Path
<1>3. PICK qn : qn = [qs EXCEPT !["channel"] = Idle]
  OBVIOUS
<1>4. /\ qn["channel"] = Idle /\ qn["form"] = qs["form"] /\ qn["forced"] = qs["forced"]
      /\ \A p \in Path : p = "channel" \/ qn[p] = qs[p]
  BY <1>3 DEF Path
<1>5. JobsOK(t, qn, g)
  <2>1. Gave(Idle, g) /\ ApkOK(t, Idle, "channel")
    BY IdleIs DEF Gave, ApkOK
  <2>2. \A p \in Path : Gave(qn[p], g) /\ ApkOK(t, qn[p], p)
    BY <1>1, <1>4, <2>1 DEF JobsOK
  <2> QED
    BY <1>1, <1>4, <2>2 DEF JobsOK
<1>6. CutIsTold(t, c, y, Idle) /\ EndAfterAll(t, s, y, x)
  BY <1>2, IdleIs DEF CutIsTold, EndAfterAll, EndIn
<1> HIDE DEF q
<1>7. y \in Seq(Reply) /\ PushOnce(t, s, y) /\ EndOnce(t, s, y, Idle) /\ OkIsWhole(t, y, g)
  <2>1. CASE y = r
    BY <1>1, <1>2, <2>1, IdleIs DEF EndOnce
  <2>2. CASE y # r
    <3>1. PICK v \in Reply : v = q.verdict /\ v \in {"ok", "error", "mismatch"}
      BY <1>2, <2>2 DEF Finaliser, Verdict, Reply, q
    <3>2. y = Append(r, v) /\ q.conn = c.drops
      BY <2>2, <3>1 DEF q
    <3>3. /\ y \in Seq(Reply) /\ Len(r) \in Nat /\ Len(y) = Len(r) + 1
          /\ \A i \in 1 .. Len(r) : y[i] = r[i]
          /\ y[Len(r) + 1] = v
      BY <3>2, AppendIs
    <3>4. \A i \in 1 .. Len(y) : i \in 1 .. Len(r) \/ i = Len(r) + 1
      BY <3>3
    <3>5. ReadyIn(y) => ReadyIn(r)
      BY <3>1, <3>2, AppendHas
    <3>6. PushOnce(t, s, y)
      <4>1. \A i, k \in 1 .. Len(y) : y[i] = "ready" /\ y[k] = "ready" => i = k
        BY <1>1, <3>1, <3>3, <3>4 DEF PushOnce
      <4> QED
        BY <1>1, <3>5, <4>1 DEF PushOnce
    <3>7. EndOnce(t, s, y, Idle)
      <4>1. \A i, k \in 1 .. Len(y) : y[i] \in Final /\ y[k] \in Final => i = k
        BY <1>2, <3>3, <3>4 DEF FinalIn
      <4> QED
        BY <1>2, <4>1, IdleIs DEF EndOnce
    <3>8. OkIsWhole(t, y, g)
      <4> SUFFICES ASSUME NEW i \in 1 .. Len(y), y[i] = "ok", t.at \in Waiting
                   PROVE  g = "whole" \/ \E k \in 1 .. i - 1 : y[k] = "error"
        BY DEF OkIsWhole
      <4>1. i = Len(r) + 1 /\ v = "ok"
        BY <1>2, <3>3, <3>4 DEF FinalIn, Final
      <4>2. CASE q.whole
        BY <1>2, <3>1, <4>1, <4>2 DEF Gave, q
      <4>3. CASE ~q.whole
        <5>1. ErrorIn(r)
          BY <1>1, <3>2, <4>3 DEF CutIsTold, q
        <5> QED
          BY <3>3, <4>1, <5>1 DEF ErrorIn
      <4> QED
        BY <4>2, <4>3
    <3> QED
      BY <3>3, <3>6, <3>7, <3>8
  <2> QED
    BY <2>1, <2>2
<1> QED
  BY <1>1, <1>3, <1>4, <1>5, <1>6, <1>7 DEF UpOK

LEMMA AnswerOnChannelInv ==
    ASSUME Invariant, NEW u \in Uploads, AnswerOnChannel(u)
    PROVE  Invariant'
<1> DEFINE q == job[Channel(u)]  t == tab[u]  c == conn[u]  s == sent[u]  r == replies[u]
           x == transfers[u]  g == given[u]
           heard == c.open /\ c.drops = q.conn /\ q.verdict # "silent"
<1>1. /\ q.at = "answer"
      /\ replies' = [replies EXCEPT ![u] = IF heard THEN Append(r, q.verdict) ELSE r]
      /\ job' = [job EXCEPT ![Channel(u)] = Idle]
      /\ files' = files \ {Server(Channel(u))} /\ loop' = {}
      /\ UNCHANGED <<tab, conn, sent, transfers, app, given>>
  BY DEF AnswerOnChannel, Unlinked
<1>2. Channel(u) = <<u, "channel">> /\ "channel" \in Path
  BY JobIs
<1>3. Turns(u, "channel", Idle)
  BY <1>1, <1>2 DEF Turns
<1>4. /\ t \in Tab /\ c \in Conn /\ s \in Seq(Msg) /\ r \in Seq(Reply) /\ x \in -1 .. Chunks
      /\ g \in Given /\ JobsOf(u) \in [Path -> Finaliser] /\ JobsOf(u)["channel"] = q
      /\ UpOK(t, c, s, r, x, JobsOf(u), g)
  BY Now
<1>5. PICK y : y = IF heard THEN Append(r, q.verdict) ELSE r
  OBVIOUS
<1>6. PICK qs : qs = With(u, "channel", Idle)
  OBVIOUS
<1>7. /\ job' \in [Job -> Finaliser] /\ qs \in [Path -> Finaliser]
      /\ \A v \in Uploads, o \in Path :
            job'[<<v, o>>] = IF v = u THEN qs[o] ELSE job[<<v, o>>]
  BY <1>2, <1>3, <1>6, IdleIs, JobPut
<1>8. \A j \in Job : job'[j] = IF j = <<u, "channel">> THEN Idle ELSE job[j]
  BY <1>2, <1>3, IdleIs, AfterTurn
<1>9. LoopOK'
  <2>1. \A v \in Uploads : Channel(v) \in Job /\ (Channel(v) = Channel(u) <=> v = u)
    BY JobIs
  <2>2. \A v \in Uploads : v # u => job[Channel(v)].at = "idle"
    BY <1>1 DEF Invariant, LoopOK, Working
  <2>3. \A v \in Uploads : job'[Channel(v)].at = "idle"
    BY <1>2, <1>8, <2>1, <2>2, IdleIs
  <2> QED
    BY <1>1, <2>3 DEF LoopOK, Working
<1>10. files' \subseteq {"server", "device"} \X Job
  BY <1>1 DEF Invariant, Typed
<1>11. Told'
  <2>1. \A v \in Uploads : job'[<<v, "forced">>] = job[<<v, "forced">>]
    BY <1>8, JobIs
  <2> QED
    BY <1>1, <2>1 DEF Invariant, Told
<1>12. app' \in Keys \cup {"none"}
  BY <1>1 DEF Invariant, Typed
<1>13. replies' = [replies EXCEPT ![u] = y]
  BY <1>1, <1>5
<1>14. y = r \/ (y = Append(r, q.verdict) /\ q.verdict # "silent" /\ q.conn = c.drops)
  BY <1>5
<1> HIDE DEF heard
<1>15. Puts(u, t, c, s, y, x, g)
  BY <1>1, <1>13, Same DEF Puts
<1> HIDE DEF q, t, c, s, r, x, g
<1>16. y \in Seq(Reply) /\ UpOK(t, c, s, y, x, qs, g)
  BY <1>1, <1>4, <1>6, <1>14, VerdictOK DEF With
<1> QED
  BY <1>4, <1>7, <1>9, <1>10, <1>11, <1>12, <1>15, <1>16, ActsInv

-----------------------------------------------------------------------------
(* The form.                                                                 *)

PathOf(t) == IF t.force THEN "forced" ELSE "form"

LEMMA FormIs ==
    ASSUME Invariant, NEW u \in Uploads
    PROVE  /\ Form(u) = <<u, PathOf(tab[u])>> /\ PathOf(tab[u]) \in Path
           /\ PathOf(tab[u]) # "channel" /\ (PathOf(tab[u]) = "forced" <=> tab[u].force)
           /\ tab[u].force \in BOOLEAN
<1>1. tab[u] \in Tab
  BY Now
<1>2. tab[u].force \in BOOLEAN
  BY <1>1 DEF Tab
<1> QED
  BY <1>2 DEF Form, PathOf, Path

\* Nothing is under way for a tab that turned to the form.
LEMMA FormQuiet ==
    ASSUME NEW t \in Tab, NEW c, NEW s, NEW r, NEW x, NEW qs \in [Path -> Finaliser], NEW g,
           UpOK(t, c, s, r, x, qs, g), t.at = "form"
    PROVE  /\ qs["channel"].at = "idle" /\ ~EndIn(s) /\ ~FinalIn(r)
           /\ \A p \in Path : qs[p].at # "idle" => p = PathOf(t) /\ qs[p].whole
BY DEF UpOK, EndOnce, JobsOK, FormOK, Path, PathOf

\* The form is answered.
LEMMA FormDoneOK ==
    ASSUME NEW t \in Tab, NEW c, NEW s, NEW r, NEW x, NEW qs \in [Path -> Finaliser], NEW g,
           UpOK(t, c, s, r, x, qs, g), t.at = "form",
           NEW v \in Tab, v.at \in {"ok", "form", "failed"}, v.at = "ok" => g = "whole",
           NEW qn \in [Path -> Finaliser], \A p \in Path : qn[p].at = "idle"
    PROVE  UpOK(v, c, s, r, x, qn, g)
<1>1. /\ WireOK(c, s) /\ PushOnce(t, s, r) /\ EndOnce(t, s, r, qs["channel"])
      /\ EndAfterAll(t, s, r, x) /\ OkIsWhole(t, r, g)
  BY DEF UpOK
<1>2. qs["channel"].at = "idle" /\ ~EndIn(s) /\ ~FinalIn(r)
  BY FormQuiet
<1>3. /\ qn["channel"].at = "idle" /\ qn["form"].at = "idle" /\ qn["forced"].at = "idle"
      /\ v.at \notin Waiting
  BY DEF Path, Waiting
<1>4. PushOnce(v, s, r) /\ TabOK(v)
  BY <1>1 DEF PushOnce, TabOK
<1>5. EndOnce(v, s, r, qn["channel"])
  BY <1>1, <1>2, <1>3 DEF EndOnce
<1>6. EndAfterAll(v, s, r, x)
  BY <1>2 DEF EndAfterAll, EndIn
<1>7. CutIsTold(v, c, r, qn["channel"]) /\ OkIsWhole(v, r, g)
  BY <1>3 DEF CutIsTold, OkIsWhole
<1>8. JobsOK(v, qn, g)
  <2>1. \A p \in Path : Gave(qn[p], g) /\ ApkOK(v, qn[p], p)
    BY DEF Gave, ApkOK
  <2> QED
    BY <1>3, <2>1 DEF JobsOK, FormOK
<1> QED
  BY <1>1, <1>4, <1>5, <1>6, <1>7, <1>8 DEF UpOK

\* The form starts a finaliser for the whole file.
LEMMA FormStartsOK ==
    ASSUME NEW t \in Tab, NEW c, NEW s, NEW r, NEW x, NEW qs \in [Path -> Finaliser], NEW g,
           UpOK(t, c, s, r, x, qs, g), t.at = "form",
           NEW p \in Path, p = PathOf(t), NEW q \in Finaliser,
           q.at = "copy", q.whole, q.verdict = "silent"
    PROVE  UpOK(t, c, s, r, x, [qs EXCEPT ![p] = q], g)
<1>1. /\ WireOK(c, s) /\ TabOK(t) /\ PushOnce(t, s, r) /\ EndOnce(t, s, r, qs["channel"])
      /\ EndAfterAll(t, s, r, x) /\ CutIsTold(t, c, r, qs["channel"]) /\ OkIsWhole(t, r, g)
      /\ JobsOK(t, qs, g) /\ (t.at = "ok" => g = "whole")
  BY DEF UpOK
<1>2. PICK qn : qn = [qs EXCEPT ![p] = q]
  OBVIOUS
<1>3. /\ qn[p] = q /\ \A k \in Path : k # p => qn[k] = qs[k]
      /\ "channel" \in Path /\ "form" \in Path /\ "forced" \in Path
  BY <1>2 DEF Path
<1>4. p # "channel" /\ (p = "forced" => t.force = TRUE) /\ (p = "form" => t.force = FALSE)
  BY DEF PathOf, Tab
<1>5. qn["channel"] = qs["channel"]
  BY <1>3, <1>4
<1>6. JobsOK(t, qn, g)
  <2>1. Gave(q, g) /\ ApkOK(t, q, p)
    BY DEF Gave, ApkOK
  <2>2. \A k \in Path : Gave(qn[k], g) /\ ApkOK(t, qn[k], k)
    BY <1>1, <1>3, <2>1 DEF JobsOK
  <2>3. FormOK(t, qn["form"], FALSE) /\ FormOK(t, qn["forced"], TRUE)
    BY <1>1, <1>3, <1>4 DEF JobsOK, FormOK
  <2> QED
    BY <2>2, <2>3 DEF JobsOK
<1> QED
  BY <1>1, <1>2, <1>5, <1>6 DEF UpOK

LEMMA StageFormInv ==
    ASSUME Invariant, NEW u \in Uploads, StageForm(u)
    PROVE  Invariant'
<1> DEFINE p == PathOf(tab[u])
<1>1. /\ tab[u].at = "form" /\ job[<<u, p>>].at = "idle"
      /\ UNCHANGED <<conn, sent, replies, transfers, loop, app, given>>
  BY FormIs DEF StageForm, Working
<1>2. /\ tab[u] \in Tab /\ conn[u] \in Conn /\ JobsOf(u) \in [Path -> Finaliser]
      /\ JobsOf(u)[p] = job[<<u, p>>]
      /\ UpOK(tab[u], conn[u], sent[u], replies[u], transfers[u], JobsOf(u), given[u])
  BY Now, JobsAre, FormIs DEF Invariant
<1>3. p \in Path /\ p # "channel" /\ <<u, p>> \in Job
  BY FormIs, JobIs
<1>4. CASE /\ job' = [job EXCEPT ![Form(u)] = Started(u, TRUE)]
           /\ files' = files \cup {Server(Form(u))}
           /\ UNCHANGED tab
  <2>1. PICK q : q = Started(u, TRUE)
    OBVIOUS
  <2>2. q \in Finaliser /\ q.at = "copy" /\ q.whole /\ q.verdict = "silent"
    BY <2>1, StartedIs
  <2>3. Turns(u, p, q) /\ files' = files \cup {Server(<<u, p>>)}
    BY <1>4, <2>1, FormIs DEF Turns
  <2>4. PICK qs : qs = With(u, p, q)
    OBVIOUS
  <2>5. /\ job' \in [Job -> Finaliser] /\ qs \in [Path -> Finaliser]
        /\ \A v \in Uploads, o \in Path :
              job'[<<v, o>>] = IF v = u THEN qs[o] ELSE job[<<v, o>>]
    BY <1>3, <2>2, <2>3, <2>4, JobPut
  <2>6. \A j \in Job : job'[j] = IF j = <<u, p>> THEN q ELSE job[j]
    BY <1>3, <2>2, <2>3, AfterTurn
  <2>7. LoopOK'
    <3>1. \A v \in Uploads : Channel(v) \in Job /\ Channel(v) # <<u, p>>
      BY <1>3, JobIs
    <3>2. \A v \in Uploads : job'[Channel(v)] = job[Channel(v)]
      BY <2>6, <3>1
    <3> QED
      BY <1>1, <3>2 DEF Invariant, LoopOK, Working
  <2>9. Told'
    <3>1. \A v \in Uploads : <<v, "forced">> \in Job
      BY JobIs
    <3>2. \A v \in Uploads : job'[<<v, "forced">>] = job[<<v, "forced">>]
                             \/ job[<<v, "forced">>].at = "idle"
      BY <1>1, <2>6, <3>1
    <3> SUFFICES ASSUME app = "none"
                 PROVE  \E v \in Uploads :
                   tab[v].force /\ (tab[v].at = "failed" \/ AtWork(job'[<<v, "forced">>]))
      BY <1>1, <1>4 DEF Told, AtWork
    <3>3. PICK w \in Uploads :
             tab[w].force /\ (tab[w].at = "failed" \/ AtWork(job[<<w, "forced">>]))
      BY DEF Invariant, Told, AtWork
    <3>4. AtWork(job[<<w, "forced">>]) => job'[<<w, "forced">>] = job[<<w, "forced">>]
      BY <3>2 DEF AtWork
    <3> QED
      BY <3>3, <3>4
  <2>10. UpOK(tab[u], conn[u], sent[u], replies[u], transfers[u], qs, given[u])
    BY <1>1, <1>2, <1>3, <2>2, <2>4, FormStartsOK DEF With
  <2>11. Puts(u, tab[u], conn[u], sent[u], replies[u], transfers[u], given[u])
    BY <1>1, <1>4, Same DEF Puts
  <2>12. files' \subseteq {"server", "device"} \X Job /\ app' \in Keys \cup {"none"}
    <3>1. Server(<<u, p>>) \in {"server", "device"} \X Job
      BY <1>3 DEF Server
    <3>2. files \subseteq {"server", "device"} \X Job /\ app' \in Keys \cup {"none"}
      BY <1>1 DEF Invariant, Typed
    <3> QED
      BY <2>3, <3>1, <3>2
  <2> QED
    BY <2>5, <2>7, <2>9, <2>10, <2>11, <2>12, Now, ActsInv
<1>5. CASE /\ tab' = [tab EXCEPT ![u] = Settled(@, "error")]
           /\ files' \in {files, files \cup {Server(Form(u))}}
           /\ UNCHANGED job
  <2>1. PICK v : v = Settled(tab[u], "error")
    OBVIOUS
  <2>2. v \in Tab /\ (tab[u].force => v.force) /\ v.at = "failed"
    BY <1>2, <2>1, SettledIs
  <2>3. \A k \in Path : JobsOf(u)[k].at = "idle"
    BY <1>1, <1>2, FormQuiet
  <2>4. UpOK(v, conn[u], sent[u], replies[u], transfers[u], JobsOf(u), given[u])
    BY <1>1, <1>2, <2>2, <2>3, FormDoneOK
  <2>5. Puts(u, v, conn[u], sent[u], replies[u], transfers[u], given[u])
    BY <1>1, <1>5, <2>1, Same DEF Puts
  <2>6. files' \subseteq files \cup {Server(j) : j \in Job} /\ UNCHANGED <<job, loop, app>>
    BY <1>1, <1>3, <1>5, FormIs
  <2> QED
    BY <2>2, <2>4, <2>5, <2>6, Now, TabInv
<1> QED
  BY <1>4, <1>5 DEF StageForm

LEMMA AnswerFormInv ==
    ASSUME Invariant, NEW u \in Uploads, AnswerForm(u)
    PROVE  Invariant'
<1> DEFINE p == PathOf(tab[u])  q == job[<<u, p>>]
<1>1. /\ q.at = "answer"
      /\ tab' = [tab EXCEPT ![u] = Settled(tab[u], q.verdict)]
      /\ Turns(u, p, Idle)
      /\ files' = files \ {Server(<<u, p>>)}
      /\ UNCHANGED <<conn, sent, replies, transfers, loop, app, given>>
  BY FormIs DEF AnswerForm, Unlinked, Turns
<1>2. /\ tab[u] \in Tab /\ conn[u] \in Conn /\ JobsOf(u) \in [Path -> Finaliser]
      /\ JobsOf(u)[p] = q
      /\ UpOK(tab[u], conn[u], sent[u], replies[u], transfers[u], JobsOf(u), given[u])
  BY Now, JobsAre, FormIs DEF Invariant
<1>3. p \in Path /\ p # "channel" /\ <<u, p>> \in Job /\ (p = "forced" <=> tab[u].force)
  BY FormIs, JobIs
<1>4. tab[u].at = "form" /\ (p = "forced" => tab[u].force) /\ Gave(q, given[u])
  BY <1>1, <1>2, <1>3 DEF UpOK, JobsOK, FormOK, Path
<1>5. q.whole /\ \A k \in Path : k # p => JobsOf(u)[k].at = "idle"
  BY <1>1, <1>2, <1>3, <1>4, FormQuiet
<1>6. PICK qs : qs = With(u, p, Idle)
  OBVIOUS
<1>7. /\ job' \in [Job -> Finaliser] /\ qs \in [Path -> Finaliser]
      /\ \A v \in Uploads, o \in Path :
            job'[<<v, o>>] = IF v = u THEN qs[o] ELSE job[<<v, o>>]
  BY <1>1, <1>3, <1>6, IdleIs, JobPut
<1>8. \A k \in Path : qs[k].at = "idle"
  BY <1>2, <1>5, <1>6, IdleIs DEF With
<1>9. \A j \in Job : job'[j] = IF j = <<u, p>> THEN Idle ELSE job[j]
  BY <1>1, <1>3, IdleIs, AfterTurn
<1>10. LoopOK'
  <2>1. \A v \in Uploads : Channel(v) \in Job /\ Channel(v) # <<u, p>>
    BY <1>3, JobIs
  <2>2. \A v \in Uploads : job'[Channel(v)] = job[Channel(v)]
    BY <1>9, <2>1
  <2> QED
    BY <1>1, <2>2 DEF Invariant, LoopOK, Working
<1>11. files' \subseteq {"server", "device"} \X Job
  BY <1>1 DEF Invariant, Typed
<1>12. PICK v : v = Settled(tab[u], q.verdict)
  OBVIOUS
<1>13. /\ v \in Tab /\ (tab[u].force => v.force)
       /\ v.at \in {"ok", "form", "failed"}
       /\ (v.at = "ok" <=> q.verdict = "ok")
       /\ (v.at = "form" => ~tab[u].force)
  BY <1>2, <1>12, SettledIs
<1>14. tab' = [tab EXCEPT ![u] = v] /\ tab'[u] = v
  BY <1>1, <1>12 DEF Invariant, Typed
<1>15. Told'
  <2> SUFFICES ASSUME app = "none"
               PROVE  \E w \in Uploads :
                 tab'[w].force /\ (tab'[w].at = "failed" \/ AtWork(job'[<<w, "forced">>]))
    BY <1>1 DEF Told, AtWork
  <2>1. PICK w \in Uploads :
           tab[w].force /\ (tab[w].at = "failed" \/ AtWork(job[<<w, "forced">>]))
    BY DEF Invariant, Told, AtWork
  <2>2. CASE w = u
    <3>1. p = "forced" /\ q.verdict # "ok"
      BY <1>3, <1>4, <2>1, <2>2 DEF AtWork
    <3>2. v.force /\ v.at = "failed"
      BY <1>3, <1>13, <3>1
    <3> QED
      BY <1>14, <3>2
  <2>3. CASE w # u
    <3>1. tab'[w] = tab[w]
      BY <1>14, <2>3 DEF Invariant, Typed
    <3>2. <<w, "forced">> \in Job /\ <<w, "forced">> # <<u, p>>
      BY <2>3, JobIs
    <3> QED
      BY <1>9, <2>1, <3>1, <3>2
  <2> QED
    BY <2>2, <2>3
<1>16. v.at = "ok" => given[u] = "whole"
  BY <1>1, <1>4, <1>5, <1>13 DEF Gave
<1>17. Puts(u, v, conn[u], sent[u], replies[u], transfers[u], given[u])
  BY <1>1, <1>14, Same DEF Puts
<1> HIDE DEF q
<1>18. UpOK(v, conn[u], sent[u], replies[u], transfers[u], qs, given[u])
  BY <1>2, <1>4, <1>7, <1>8, <1>13, <1>16, FormDoneOK
<1>19. app' \in Keys \cup {"none"}
  BY <1>1 DEF Invariant, Typed
<1> QED
  BY <1>7, <1>10, <1>11, <1>13, <1>15, <1>17, <1>18, <1>19, Now, ActsInv

-----------------------------------------------------------------------------
(* The invariant, and what follows.                                          *)

LEMMA InitInv == Init => Invariant
<1> SUFFICES ASSUME Init
             PROVE  Invariant
  OBVIOUS
<1>1. Typed
  <2>1. tab \in [Uploads -> Tab]
    BY UploadsAssumption DEF Init, Tab, Kind
  <2>2. conn \in [Uploads -> Conn] /\ transfers \in [Uploads -> -1 .. Chunks]
    BY UploadsAssumption DEF Init, Conn
  <2>3. job \in [Job -> Finaliser]
    BY IdleIs DEF Init
  <2>4. /\ sent \in [Uploads -> Seq(Msg)] /\ replies \in [Uploads -> Seq(Reply)]
        /\ files \subseteq {"server", "device"} \X Job
        /\ app \in Keys \cup {"none"}
        /\ given \in [Uploads -> Given]
    BY UploadsAssumption, EmptyHas DEF Init, Given
  <2> QED
    BY <2>1, <2>2, <2>3, <2>4 DEF Typed
<1>2. \A j \in Job : job[j] = Idle
  BY DEF Init
<1>3. LoopOK
  <2>1. \A v \in Uploads : job[Channel(v)].at = "idle"
    BY <1>2, JobIs, IdleIs
  <2> QED
    BY <2>1 DEF Init, LoopOK, Working
<1>4. ASSUME NEW u \in Uploads
      PROVE  UploadOK(u)
  <2>1. PICK qs : qs = JobsOf(u)
    OBVIOUS
  <2>2. qs["channel"].at = "idle" /\ \A p \in Path : qs[p].at = "idle"
    <3>1. \A p \in Path : qs[p] = job[<<u, p>>]
      BY <1>1, <2>1, JobsAre
    <3>2. \A p \in Path : <<u, p>> \in Job
      BY JobIs
    <3>3. \A p \in Path : qs[p] = Idle
      BY <1>2, <3>1, <3>2
    <3>4. "channel" \in Path
      BY JobIs
    <3> QED
      BY <3>3, <3>4, IdleIs
  <2>3. qs["form"].at = "idle" /\ qs["forced"].at = "idle"
    BY <2>2 DEF Path
  <2>4. PICK t : t = tab[u]
    OBVIOUS
  <2>5. t.at = "idle" /\ t.seq = 0
    BY <2>4 DEF Init
  <2>6. JobsOK(t, qs, "nothing")
    BY <2>2, <2>3 DEF JobsOK, Gave, ApkOK, FormOK
  <2>7. 1 .. Len(<<>>) = {}
    BY EmptyHas
  <2>8. WireOK(conn[u], <<>>) /\ TabOK(t) /\ PushOnce(t, <<>>, <<>>)
    BY <2>5, <2>7, EmptyHas DEF WireOK, TabOK, PushOnce
  <2>9. /\ EndOnce(t, <<>>, <<>>, qs["channel"]) /\ EndAfterAll(t, <<>>, <<>>, -1)
        /\ CutIsTold(t, conn[u], <<>>, qs["channel"]) /\ OkIsWhole(t, <<>>, "nothing")
    BY <2>2, <2>7, EmptyHas DEF EndOnce, EndAfterAll, CutIsTold, OkIsWhole
  <2>10. UpOK(t, conn[u], <<>>, <<>>, -1, qs, "nothing")
    BY <2>5, <2>6, <2>8, <2>9 DEF UpOK
  <2>11. sent[u] = <<>> /\ replies[u] = <<>> /\ transfers[u] = -1 /\ given[u] = "nothing"
    BY DEF Init
  <2> QED
    BY <2>1, <2>4, <2>10, <2>11 DEF UploadOK
<1>5. Told
  BY UploadsAssumption DEF Init, Told
<1> QED
  BY <1>1, <1>3, <1>4, <1>5 DEF Invariant

LEMMA NextInv == Invariant /\ Next => Invariant'
<1> SUFFICES ASSUME Invariant, NEW u \in Uploads,
                    TabStep(u) \/ Disconnect(u) \/ Reconnect(u) \/ ServerStep(u)
             PROVE  Invariant'
  BY DEF Next
<1>1. CASE TabStep(u)
  BY <1>1, DropInv, StreamInv, ReceiveInv, TimeoutInv DEF TabStep
<1>2. CASE Disconnect(u) \/ Reconnect(u)
  BY <1>2, DisconnectInv, ReconnectInv
<1>3. CASE LoopStep(u)
  BY <1>3, HandlePushInv, HandleChunkInv, HandleEndInv DEF LoopStep
<1>4. CASE \E p \in Path : JobStep(<<u, p>>)
  BY <1>4, CopyFileInv, CopyApkInv, InstallInv, UninstallInv, CleanInv DEF JobStep
<1>5. CASE StageForm(u) \/ AnswerOnChannel(u) \/ AnswerForm(u)
  BY <1>5, StageFormInv, AnswerOnChannelInv, AnswerFormInv
<1> QED
  BY <1>1, <1>2, <1>3, <1>4, <1>5 DEF ServerStep

LEMMA StutterInv == Invariant /\ UNCHANGED vars => Invariant'
<1> SUFFICES ASSUME Invariant, UNCHANGED vars
             PROVE  Invariant'
  OBVIOUS
<1>1. /\ UNCHANGED <<tab, conn, sent, replies, transfers, loop, job, files, app, given>>
  BY DEF vars
<1>2. Typed' /\ LoopOK'
  BY <1>1 DEF Invariant, Typed, LoopOK, Working
<1>3. \A u \in Uploads : UploadOK(u)'
  <2> TAKE u \in Uploads
  <2>1. JobsOf(u)' = JobsOf(u)
    BY <1>1 DEF JobsOf
  <2> QED
    BY <1>1, <2>1 DEF Invariant, UploadOK
<1>4. Told'
  BY <1>1 DEF Invariant, Told
<1> QED
  BY <1>2, <1>3, <1>4 DEF Invariant

LEMMA Inductive == Spec => []Invariant
<1>1. Invariant /\ [Next]_vars => Invariant'
  BY NextInv, StutterInv
<1> QED
  BY InitInv, <1>1, PTL DEF Spec

LEMMA TypesFollow == Invariant => TypeOK
<1> SUFFICES ASSUME Invariant
             PROVE  TypeOK
  OBVIOUS
<1>1. Typed /\ LoopOK
  BY DEF Invariant
<1>2. ASSUME NEW u \in Uploads
      PROVE  /\ \A i \in DOMAIN sent[u] : sent[u][i] \in Msg
             /\ \A i \in DOMAIN replies[u] : replies[u][i] \in Reply
  <2>1. sent[u] \in Seq(Msg) /\ replies[u] \in Seq(Reply)
    BY <1>1 DEF Typed
  <2> QED
    BY <2>1
<1> QED
  BY <1>1, <1>2 DEF TypeOK, Typed, LoopOK, Tab, Conn, Finaliser, Given, Msg, Reply

\* Every variable keeps its type, and the loop is busy with at most one file.end:
\* the messages of all the tabs are handled on the one asyncio loop.
THEOREM TypeCorrect == Spec => []TypeOK
BY Inductive, TypesFollow, PTL

\* A tab that reports an upload done has given the device the whole file, whatever
\* chunks a lost connection or a failed write of _transfers.write_chunk has cost.
THEOREM DoneIsAllOfIt == Spec => []DoneIsWhole
<1>1. Invariant => DoneIsWhole
  BY DEF Invariant, UploadOK, UpOK, DoneIsWhole
<1> QED
  BY Inductive, <1>1, PTL

\* The app that an install with force has removed is missing only while that install
\* is at work, or when the tab of that upload says it failed.
THEOREM LossIsReported == Spec => []LossIsTold
<1>1. Invariant => LossIsTold
  <2> SUFFICES ASSUME Invariant, app = "none"
               PROVE  \E u \in Uploads :
                        /\ tab[u].force
                        /\ \/ tab[u].at = "failed"
                           \/ job[Form(u)].at \in {"retry", "clean", "answer"}
    BY DEF LossIsTold
  <2>1. PICK u \in Uploads :
           /\ tab[u].force
           /\ \/ tab[u].at = "failed"
              \/ job[<<u, "forced">>].at \in {"retry", "clean", "answer"}
    BY DEF Invariant, Told
  <2>2. Form(u) = <<u, "forced">>
    BY <2>1 DEF Form
  <2> QED
    BY <2>1, <2>2
<1> QED
  BY Inductive, <1>1, PTL
=============================================================================
