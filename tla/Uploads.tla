------------------------------- MODULE Uploads -------------------------------
(* A file dropped on a device: the transfer over the adb DataChannel of      *)
(* services/file_transfer.py, the form of POST /api/upload that services/    *)
(* uploads.py stages, the install of services/app_manager.py that both end   *)
(* in, and handleUploadFile of the tab, which drives them.                   *)
(*                                                                           *)
(* Every DataChannel message is handled on the one asyncio loop, so a        *)
(* file.end that installs holds up the messages of every tab; a form has a   *)
(* thread of its own.  The connection of a tab may be replaced while a       *)
(* transfer is under way: what was in flight is lost, and what the tab sends *)
(* while no channel is open is dropped by sendAdb.                           *)
(*                                                                           *)
(* The apks are all of one package, named by their signing key.  A           *)
(* file.progress only rearms the timeout of the tab, which may expire at any *)
(* moment here, so it is left out; so is file.cancel's sender, as the tab    *)
(* has none.                                                                 *)
EXTENDS Integers, Sequences

CONSTANTS
    Uploads,    \* the files dropped, one tab each
    Keys,       \* signing keys of the apks
    Installed,  \* the key of the app the device starts with
    Chunks,     \* chunks in a file
    MaxDrops    \* bound: once a tab lost as many connections, none is lost

ASSUME UploadsAssumption ==
    /\ Chunks \in Nat \ {0} /\ MaxDrops \in Nat
    /\ Keys \cap {"file", "none"} = {} /\ Installed \in Keys

VARIABLES
    tab,        \* what the tab does for the file
    conn,       \* the connection of the tab: drops so far, and whether it is open
    sent,       \* messages of the tab on its open channel
    replies,    \* messages to the tab on its open channel
    transfers,  \* _transfers: the chunks received, -1 when not registered
    loop,       \* the uploads whose file.end the loop is busy with, at most one
    job,        \* the finaliser of a staged file
    files,      \* the staged files, but for those whose removal failed
    app,        \* the key of the installed package, "none" without one
    given       \* what the device got of the file

vars == <<tab, conn, sent, replies, transfers, loop, job, files, app, given>>

Path == {"channel", "form", "forced"}
Job == Uploads \X Path
Kind == Keys \cup {"file"}
Verdict == {"ok", "error", "mismatch", "silent"}

\* The steps of a finaliser, in order.
Step == {"idle", "copy", "install", "uninstall", "retry", "clean", "answer"}
Working(j) == job[j].at # "idle"

Waiting == {"asked", "stream", "ended"}     \* uploadViaDataChannel has not settled
Busy == Waiting \cup {"form"}
Server(j) == <<"server", j>>                 \* the file in the staging directory
Device(j) == <<"device", j>>                 \* its copy under /data/local/tmp

Idle == [at |-> "idle", whole |-> FALSE, verdict |-> "silent", conn |-> 0]
\* A finaliser starts; an answer over a channel goes to the one of the file.end.
Started(u, complete) ==
    [at |-> "copy", whole |-> complete, verdict |-> "silent", conn |-> conn[u].drops]

Init ==
    /\ tab = [u \in Uploads |-> [at |-> "idle", kind |-> "file", force |-> FALSE, seq |-> 0]]
    /\ conn = [u \in Uploads |-> [drops |-> 0, open |-> TRUE]]
    /\ sent = [u \in Uploads |-> <<>>] /\ replies = [u \in Uploads |-> <<>>]
    /\ transfers = [u \in Uploads |-> -1]
    /\ loop = {}
    /\ job = [j \in Job |-> Idle]
    /\ files = {}
    /\ app = Installed
    /\ given = [u \in Uploads |-> "nothing"]

-----------------------------------------------------------------------------
(* The tab.                                                                  *)

Message(t, seq) == [t |-> t, seq |-> seq]

\* sendAdb: without an open channel the message is dropped.
Sends(u, msgs) == sent' = [sent EXCEPT ![u] = IF conn[u].open THEN @ \o msgs ELSE @]

\* handleUploadFile: the channel when it is open, else the form.
Drop(u) ==
    /\ tab[u].at = "idle"
    /\ \E k \in Kind :
         tab' = [tab EXCEPT ![u].kind = k,
                            ![u].at = IF conn[u].open THEN "asked" ELSE "form"]
    /\ Sends(u, <<Message("push", 0)>>)
    /\ UNCHANGED <<conn, replies, transfers, loop, job, files, app, given>>

\* streamChunks: one chunk per turn of the event loop; the last of them and
\* file.end go out in the same one.
Stream(u) ==
    LET last == tab[u].seq + 1 = Chunks
    IN  /\ tab[u].at = "stream"
        /\ Sends(u, <<Message("chunk", tab[u].seq)>> \o IF last THEN <<Message("end", 0)>> ELSE <<>>)
        /\ tab' = [tab EXCEPT ![u].seq = @ + 1, ![u].at = IF last THEN "ended" ELSE @]
        /\ UNCHANGED <<conn, replies, transfers, loop, job, files, app, given>>

\* What an answer about the file makes of the upload: a mismatch is retried with
\* force, over the form.
Settled(t, verdict) ==
    CASE verdict = "ok" -> [t EXCEPT !.at = "ok"]
      [] verdict = "mismatch" /\ ~t.force -> [t EXCEPT !.at = "form", !.force = TRUE]
      [] OTHER -> [t EXCEPT !.at = "failed"]

Hears(t, reply) ==
    CASE t.at \notin Waiting -> t
      [] t.at \in Waiting /\ reply = "ready" -> [t EXCEPT !.at = "stream"]
      [] OTHER -> Settled(t, reply)

Receive(u) ==
    /\ replies[u] # <<>>
    /\ tab' = [tab EXCEPT ![u] = Hears(@, Head(replies[u]))]
    /\ replies' = [replies EXCEPT ![u] = Tail(@)]
    /\ UNCHANGED <<conn, sent, transfers, loop, job, files, app, given>>

\* Mutant: the timeout is cleared when the server is ready.
Armed_until_ready(t) == t.at = "asked"

\* The inactivity timeout, armed from the start until the upload settles.
Armed(t) == t.at \in Waiting

Timeout(u) ==
    /\ Armed(tab[u])
    /\ tab' = [tab EXCEPT ![u].at = "failed"]
    /\ UNCHANGED <<conn, sent, replies, transfers, loop, job, files, app, given>>

\* The peer connection closes, and another is made.
Disconnect(u) ==
    /\ conn[u].open /\ \A v \in Uploads : conn[v].drops < MaxDrops
    /\ conn' = [conn EXCEPT ![u] = [drops |-> @.drops + 1, open |-> FALSE]]
    /\ sent' = [sent EXCEPT ![u] = <<>>]
    /\ replies' = [replies EXCEPT ![u] = <<>>]
    /\ UNCHANGED <<tab, transfers, loop, job, files, app, given>>

Reconnect(u) ==
    /\ ~conn[u].open
    /\ conn' = [conn EXCEPT ![u].open = TRUE]
    /\ UNCHANGED <<tab, sent, replies, transfers, loop, job, files, app, given>>

TabStep(u) == Drop(u) \/ Stream(u) \/ Receive(u) \/ Timeout(u)

-----------------------------------------------------------------------------
(* The loop: dispatch of one message.                                        *)

Channel(u) == <<u, "channel">>

\* Mutant: a message is handled while the loop finishes another.
Takes_busy(u, t) ==
    /\ sent[u] # <<>> /\ Head(sent[u]).t = t
    /\ sent' = [sent EXCEPT ![u] = Tail(@)]

\* A message of tab u that the loop handles next.
Takes(u, t) ==
    /\ loop = {} /\ sent[u] # <<>> /\ Head(sent[u]).t = t
    /\ sent' = [sent EXCEPT ![u] = Tail(@)]

Replies(u, verdict) == replies' = [replies EXCEPT ![u] = Append(@, verdict)]

\* handle_push.  When the staging file cannot be made the answer names no
\* transfer, and the tab does not take it for its own.
HandlePush(u) ==
    /\ Takes(u, "push")
    /\ \/ /\ transfers[u] = -1
          /\ transfers' = [transfers EXCEPT ![u] = 0]
          /\ files' = files \cup {Server(Channel(u))}
          /\ Replies(u, "ready")
       \/ UNCHANGED <<transfers, files, replies>>
    /\ UNCHANGED <<tab, conn, loop, job, app, given>>

\* Mutant: the number of a chunk is not compared.
Expected_any(u, seq) == transfers[u] < Chunks

\* write_chunk takes the chunk it expects.
Expected(u, seq) == seq = transfers[u]

\* handle_chunk; the write may fail.
HandleChunk(u) ==
    /\ Takes(u, "chunk")
    /\ \/ /\ transfers[u] # -1 /\ Expected(u, Head(sent[u]).seq)
          /\ transfers' = [transfers EXCEPT ![u] = @ + 1]
          /\ UNCHANGED replies
       \/ /\ Replies(u, "error")
          /\ UNCHANGED transfers
    /\ UNCHANGED <<tab, conn, loop, job, files, app, given>>

\* handle_end: whatever was received is final.
HandleEnd(u) ==
    /\ Takes(u, "end")
    /\ \/ /\ transfers[u] # -1
          /\ transfers' = [transfers EXCEPT ![u] = -1]
          /\ job' = [job EXCEPT ![Channel(u)] = Started(u, transfers[u] = Chunks)]
          /\ loop' = {u}
          /\ UNCHANGED replies
       \/ /\ transfers[u] = -1
          /\ Replies(u, "error")
          /\ UNCHANGED <<transfers, job, loop>>
    /\ UNCHANGED <<tab, conn, files, app, given>>

LoopStep(u) == HandlePush(u) \/ HandleChunk(u) \/ HandleEnd(u)

-----------------------------------------------------------------------------
(* The form: upload_file and stage_and_dispatch.                             *)

Form(u) == <<u, IF tab[u].force THEN "forced" ELSE "form">>

\* The client is up and the file is saved, or the request ends there: before the
\* file is made, or with the file, when its save fails.
StageForm(u) ==
    /\ tab[u].at = "form" /\ ~Working(Form(u))
    /\ \/ /\ job' = [job EXCEPT ![Form(u)] = Started(u, TRUE)]
          /\ files' = files \cup {Server(Form(u))}
          /\ UNCHANGED tab
       \/ /\ tab' = [tab EXCEPT ![u] = Settled(@, "error")]
          /\ files' \in {files, files \cup {Server(Form(u))}}
          /\ UNCHANGED job
    /\ UNCHANGED <<conn, sent, replies, transfers, loop, app, given>>

-----------------------------------------------------------------------------
(* The finaliser of a staged file, on the loop or on a thread of its own.    *)

KindOf(j) == tab[j[1]].kind
Forced(j) == j[2] = "forced"

Goes(j, step) == job' = [job EXCEPT ![j].at = step]
Decides(j, step, verdict) == job' = [job EXCEPT ![j].at = step, ![j].verdict = verdict]
Gives(j) == given' = [given EXCEPT ![j[1]] = IF job[j].whole THEN "whole" ELSE "cut"]

\* client.device.push; an error outside the caught classes leaves no answer on
\* the channel.
CopyFile(j) ==
    /\ job[j].at = "copy" /\ KindOf(j) = "file"
    /\ \/ Gives(j) /\ Decides(j, "answer", "ok")
       \/ \E verdict \in {"error", "silent"} : Decides(j, "answer", verdict) /\ UNCHANGED given
    /\ UNCHANGED <<tab, conn, sent, replies, transfers, loop, files, app>>

\* install_from_local: the apk to the device, before the try that cleans up; a
\* push that fails may leave what it wrote.
CopyApk(j) ==
    /\ job[j].at = "copy" /\ KindOf(j) # "file"
    /\ \/ files' = files \cup {Device(j)} /\ Goes(j, "install")
       \/ /\ \E verdict \in {"error", "silent"} : Decides(j, "answer", verdict)
          /\ files' \in {files, files \cup {Device(j)}}
    /\ UNCHANGED <<tab, conn, sent, replies, transfers, loop, app, given>>

\* Mutant: the installed app goes without force.
AfterMismatch_always(j) == IF job[j].at = "install" THEN "uninstall" ELSE "clean"

\* A mismatch is for the user to settle unless the request has force.
AfterMismatch(j) ==
    IF Forced(j) /\ job[j].at = "install" THEN "uninstall" ELSE "clean"

Mismatched(j) == app \notin {"none", KindOf(j)}
Installable(j) == job[j].whole /\ Device(j) \in files /\ ~Mismatched(j)

\* _do_install.  A command that fails or is cut short may have installed.
Install(j) ==
    /\ job[j].at \in {"install", "retry"}
    /\ \/ /\ Installable(j)
          /\ app' = KindOf(j) /\ Gives(j)
          /\ \E verdict \in {"ok", "error"} : Decides(j, "clean", verdict)
       \/ /\ job[j].whole /\ Mismatched(j)
          /\ Decides(j, AfterMismatch(j), "mismatch")
          /\ UNCHANGED <<app, given>>
       \/ Decides(j, "clean", "error") /\ UNCHANGED <<app, given>>
    /\ UNCHANGED <<tab, conn, sent, replies, transfers, loop, files>>

\* uninstall, of the package by its name, whichever it is by now.
Uninstall(j) ==
    /\ job[j].at = "uninstall"
    /\ \/ app # "none" /\ app' = "none" /\ Goes(j, "retry")
       \/ app' \in {app, "none"} /\ Decides(j, "clean", "error")
    /\ UNCHANGED <<tab, conn, sent, replies, transfers, loop, files, given>>

\* The finally of install_from_local; when rm fails the copy stays until the
\* device reboots.
Clean(j) ==
    /\ job[j].at = "clean"
    /\ files' = files \ {Device(j)}
    /\ Goes(j, "answer")
    /\ UNCHANGED <<tab, conn, sent, replies, transfers, loop, app, given>>

\* The finally that removes the staged file.
Unlinked(j) == files \ {Server(j)}

\* The answer, with the finally.  An answer over a channel that was replaced is
\* lost; a form with no verdict is a 500.
AnswerOnChannel(u) ==
    LET j == Channel(u)
        heard == conn[u].open /\ conn[u].drops = job[j].conn /\ job[j].verdict # "silent"
    IN  /\ job[j].at = "answer"
        /\ replies' = [replies EXCEPT ![u] = IF heard THEN Append(@, job[j].verdict) ELSE @]
        /\ job' = [job EXCEPT ![j] = Idle]
        /\ files' = Unlinked(j)
        /\ loop' = {}
        /\ UNCHANGED <<tab, conn, sent, transfers, app, given>>

AnswerForm(u) ==
    LET j == Form(u)
    IN  /\ job[j].at = "answer"
        /\ tab' = [tab EXCEPT ![u] = Settled(@, job[j].verdict)]
        /\ job' = [job EXCEPT ![j] = Idle]
        /\ files' = Unlinked(j)
        /\ UNCHANGED <<conn, sent, replies, transfers, loop, app, given>>

JobStep(j) == CopyFile(j) \/ CopyApk(j) \/ Install(j) \/ Uninstall(j) \/ Clean(j)
ServerStep(u) ==
    \/ LoopStep(u) \/ StageForm(u)
    \/ \E p \in Path : JobStep(<<u, p>>)
    \/ AnswerOnChannel(u) \/ AnswerForm(u)

Next == \E u \in Uploads : TabStep(u) \/ Disconnect(u) \/ Reconnect(u) \/ ServerStep(u)

Spec == Init /\ [][Next]_vars

\* The loop and the threads of the server run on, and so does the tab; nothing
\* says a file is dropped or a connection made.
FairSpec ==
    /\ Spec
    /\ \A u \in Uploads :
         /\ WF_vars(ServerStep(u))
         /\ WF_vars(Stream(u)) /\ WF_vars(Receive(u)) /\ WF_vars(Timeout(u))

-----------------------------------------------------------------------------
(* Properties.                                                               *)

\* Every variable has its type, and the loop serves at most one file.end.
TypeOK ==
    /\ tab \in [Uploads -> [at : {"idle", "ok", "failed"} \cup Busy, kind : Kind,
                            force : BOOLEAN, seq : 0 .. Chunks]]
    /\ conn \in [Uploads -> [drops : 0 .. MaxDrops, open : BOOLEAN]]
    /\ \A u \in Uploads :
         /\ \A i \in DOMAIN sent[u] : sent[u][i] \in
              [t : {"push", "chunk", "end"}, seq : 0 .. Chunks]
         /\ \A i \in DOMAIN replies[u] : replies[u][i] \in {"ready", "ok", "error", "mismatch"}
    /\ transfers \in [Uploads -> -1 .. Chunks]
    /\ loop = {u \in Uploads : Working(Channel(u))} /\ \A u, v \in loop : u = v
    /\ job \in [Job -> [at : Step, whole : BOOLEAN, verdict : Verdict, conn : 0 .. MaxDrops]]
    /\ files \subseteq {"server", "device"} \X Job
    /\ app \in Keys \cup {"none"}
    /\ given \in [Uploads -> {"nothing", "cut", "whole"}]

\* A tab that reports the upload done has given the device the whole file, though
\* handle_end compares nothing with the size: a chunk that was lost on a replaced
\* connection, or not written, shows as an error before the file.done.
DoneIsWhole == \A u \in Uploads : tab[u].at = "ok" => given[u] = "whole"

\* The device is left without the app only by an upload with force that is still
\* at work or whose tab says that it failed.
LossIsTold ==
    app = "none" => \E u \in Uploads :
        /\ tab[u].force
        /\ tab[u].at = "failed" \/ job[Form(u)].at \in {"retry", "clean", "answer"}

\* Every upload settles, whatever is lost on the way.
UploadSettles == \A u \in Uploads : tab[u].at \in Busy ~> tab[u].at \in {"ok", "failed"}

\* What the services say of the files they stage, and is not so: uploads.py that it
\* owns the life cycle of the temporary file and unlinks it, on success and on
\* failure.  A form whose save fails has made the file and not entered the try that
\* removes it; an apk whose push fails is likewise left as far as it got.
NothingLeftBehind ==
    \A j \in Job : \A f \in {Server(j), Device(j)} \cap files :
        \/ Working(j)
        \/ f = Server(j) /\ j[2] = "channel" /\ transfers[j[1]] # -1
=============================================================================
