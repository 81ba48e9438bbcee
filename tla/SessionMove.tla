----------------------------- MODULE SessionMove -----------------------------
(***************************************************************************)
(* Moving one claude session between hosts.  The API validates the request,*)
(* marks the document and sends "move_out" to the host that owns the       *)
(* session; that worker stops the agent, stores the conversation in the    *)
(* transfers collection and sends "move_in" to the target; the target      *)
(* relaunches the conversation and takes ownership of the document.  Each  *)
(* worker consumes its own durable queue one command at a time, and every  *)
(* await of a handler is a step at which the others may run.               *)
(***************************************************************************)
EXTENDS Integers, Sequences

CONSTANTS Hosts,        \* worker hosts, each with its tmux server and queue
          NoHost,       \* no target host recorded
          Home,         \* the host the session starts on
          Reliable,     \* hosts where git, the clone and the launch succeed
          Patient,      \* clients wait for a move to settle before acting
          Discovery,    \* the 5 s tmux discovery cycle runs
          LossyPublish, \* a publish may fail, delivered or not
          MaxTransfers, \* bound: transfer ids handed out
          MaxMoves, MaxResumes, MaxInputs, MaxExpired, MaxCrashes  \* bounds

ASSUME MoveAssumption ==
  /\ Home \in Hosts /\ NoHost \notin Hosts /\ Reliable \subseteq Hosts
  /\ {Patient, Discovery, LossyPublish} \subseteq BOOLEAN
  /\ {MaxTransfers, MaxMoves, MaxResumes, MaxInputs, MaxExpired, MaxCrashes}
       \subseteq Nat

VARIABLES doc,        \* the session's document in Mongo
          history,    \* its move_history: <<from, to>> of each completed move
          foreign,    \* hosts where discovery keeps an active twin document
          pane,       \* the tmux session of that name on each host
          file,       \* the conversation's jsonl on each host's disk
          parcel,     \* the copy each transfer id holds in Mongo
          lastTid,    \* transfer ids handed out so far
          queue,      \* commands waiting for each worker, the head in progress
          work,       \* where each worker is in its current command
          waking,     \* background resume-and-send tasks yet to relaunch
          sending,    \* background resume-and-send tasks yet to type
          listed,     \* what each host's discovery cycle saw of the session
          requests,   \* move requests the API validated and has not written
          spent,      \* what clients and the environment have done so far
          mishaps     \* what went wrong around the moves so far

stores == <<history, foreign, parcel, lastTid>>       \* the rest of the database
mongo  == <<doc, stores>>
hosted == <<pane, file>>                              \* tmux and the disks
tasks  == <<waking, sending, listed>>                 \* a worker's other tasks
outer  == <<requests, spent, mishaps>>                \* the API and the clients
vars   == <<mongo, hosted, queue, work, tasks, outer>>

Tids    == 0..MaxTransfers  \* 0 when there is no transfer
Phases  == {"none", "exporting", "importing", "failed"}
Panes   == {"none", "shell", "agent"}
Copies  == {"none", "behind", "full"}   \* absent, lacks some turn, has them all
OutSteps == {"out_git", "out_export", "out_handover", "out_publish", "out_rollback"}
InSteps  == {"in_prepare", "in_import", "in_commit", "in_clean", "in_fail",
             "in_spare", "in_giveback"}
Steps    == {"idle", "ack"} \cup OutSteps \cup InSteps
Docs    == [host : Hosts, status : {"active", "stopped"}, phase : Phases,
            target : Hosts \cup {NoHost}, tid : Tids, age : {"fresh", "stale"}]
Cmds    == [type : {"move_out", "move_in", "resume", "input"}, from : Hosts,
            to : Hosts, tid : Tids]
Works   == [at : Steps, tid : Tids]
Spent   == [{"moves", "resumes", "inputs", "expired", "crashes"} -> Nat]

\* A client acts while a move is under way; a publish raises; the "move_in" of a
\* publish that raised was delivered all the same; a worker leaves the agent that
\* it has launched for a move before the session is its own.
Mishaps == {"haste", "lost", "doubled", "stranded"}

TypeOK ==
  /\ doc \in Docs
  /\ history \in Seq(Hosts \X Hosts)
  /\ foreign \subseteq Hosts
  /\ pane \in [Hosts -> Panes]
  /\ file \in [Hosts -> Copies]
  /\ parcel \in [Tids -> Copies]
  /\ lastTid \in Tids
  /\ queue \in [Hosts -> Seq(Cmds)]
  /\ work \in [Hosts -> Works]
  /\ waking \in [Hosts -> Nat] /\ sending \in [Hosts -> Nat]
  /\ listed \in [Hosts -> {"unlisted", "absent", "present"}]
  /\ requests \subseteq [from : Hosts, to : Hosts]
  /\ spent \in Spent
  /\ mishaps \subseteq Mishaps

-----------------------------------------------------------------------------
Idle == [at |-> "idle", tid |-> 0]

Init ==
  /\ doc = [host |-> Home, status |-> "active", phase |-> "none",
            target |-> NoHost, tid |-> 0, age |-> "fresh"]
  /\ history = <<>> /\ foreign = {} /\ lastTid = 0 /\ requests = {}
  /\ pane = [h \in Hosts |-> IF h = Home THEN "agent" ELSE "none"]
  /\ file = [h \in Hosts |-> IF h = Home THEN "full" ELSE "none"]
  /\ parcel = [t \in Tids |-> "none"]
  /\ queue = [h \in Hosts |-> <<>>]
  /\ work = [h \in Hosts |-> Idle]
  /\ waking = [h \in Hosts |-> 0] /\ sending = [h \in Hosts |-> 0]
  /\ listed = [h \in Hosts |-> "unlisted"]
  /\ spent = [k \in {"moves", "resumes", "inputs", "expired", "crashes"} |-> 0]
  /\ mishaps = {}

\* Removing or rewriting doc.moving.  A field set on a document without
\* "moving" creates one with no started_at, which counts as stale.
Unmoved(d) ==
  [d EXCEPT !.phase = "none", !.target = NoHost, !.tid = 0, !.age = "fresh"]
Phase(d, p) ==
  [d EXCEPT !.phase = p, !.age = IF d.phase = "none" THEN "stale" ELSE @]

Cmd(type, from, to, tid) == [type |-> type, from |-> from, to |-> to, tid |-> tid]
Send(h, c) == queue' = [queue EXCEPT ![h] = Append(@, c)]
Spend(k, max) == spent[k] < max /\ spent' = [spent EXCEPT ![k] = @ + 1]
Goto(h, step) == work' = [work EXCEPT ![h].at = step]

\* A turn taken by the agent on h reaches only the jsonl on h.
Behind(c) == IF c = "full" THEN "behind" ELSE c
Turn(h) ==
  /\ file' = [g \in Hosts |-> IF g = h THEN file[g] ELSE Behind(file[g])]
  /\ parcel' = [t \in Tids |-> Behind(parcel[t])]

\* What relaunching claude --resume leaves on h: the resource guard may refuse
\* it, and the agent exits to the shell when it has no conversation to resume.
Refused(h) == h \notin Reliable
Launched(h, copy) ==
  IF copy = "none" THEN {"shell"}
  ELSE IF h \in Reliable THEN {"agent"} ELSE {"agent", "shell"}

\* No move is in progress: its commands stay in the queues until acknowledged.
Waiting(h) == {queue[h][i] : i \in DOMAIN queue[h]}
Queued(h, types) == \E c \in Waiting(h) : c.type \in types
Settled ==
  requests = {} /\ \A h \in Hosts : ~Queued(h, {"move_out", "move_in"})

\* ... and the messages sent to the session are delivered.
Delivered == Settled /\ \A h \in Hosts : ~Queued(h, {"input"}) /\ waking[h] = 0

Befalls(m) == mishaps' = mishaps \cup {m}

\* A client waits until the moves have settled, or acts in haste.
Waits(until) ==
  \/ until /\ UNCHANGED mishaps
  \/ ~until /\ ~Patient /\ Befalls("haste")

-----------------------------------------------------------------------------
(* The API. *)

\* POST /move reads and validates, awaiting between its reads.
MoveRequest(to) ==
  /\ Waits(Delivered) /\ Spend("moves", MaxMoves)
  /\ to # doc.host
  /\ doc.phase \in {"none", "failed"} \/ doc.age = "stale"
  /\ to \notin foreign
  /\ requests' = requests \cup {[from |-> doc.host, to |-> to]}
  /\ UNCHANGED <<mongo, hosted, queue, work, tasks>>

\* ... and then writes "moving" without comparing it with what it read.
MoveAccept(r) ==
  /\ r \in requests /\ requests' = requests \ {r}
  /\ doc' = [doc EXCEPT !.phase = "exporting", !.target = r.to, !.tid = 0,
                        !.age = "fresh"]
  /\ \/ Send(r.from, Cmd("move_out", r.from, r.to, 0)) /\ UNCHANGED mishaps
     \/ LossyPublish /\ Befalls("lost") /\ UNCHANGED queue
  /\ UNCHANGED <<stores, hosted, work, tasks, spent>>

\* POST /resume clears a stuck move, and sends "resume" whatever the phase is.
Resume ==
  /\ Waits(Settled) /\ Spend("resumes", MaxResumes)
  /\ doc' = IF doc.phase \in {"failed", "importing"} /\ doc.age = "stale"
              THEN Unmoved(doc) ELSE doc
  /\ Send(doc.host, Cmd("resume", doc.host, doc.host, 0))
  /\ UNCHANGED <<stores, hosted, work, tasks, requests>>

\* POST /input, a schedule or a notification: routed by the document's host.
Input ==
  /\ Waits(Settled) /\ Spend("inputs", MaxInputs)
  /\ Send(doc.host, Cmd("input", doc.host, doc.host, 0))
  /\ UNCHANGED <<mongo, hosted, work, tasks, requests>>

\* started_at falls more than MOVE_STALE behind.
GrowStale ==
  /\ doc.phase # "none" /\ doc.age = "fresh"
  /\ doc' = [doc EXCEPT !.age = "stale"]
  /\ UNCHANGED <<stores, hosted, queue, work, tasks, outer>>

-----------------------------------------------------------------------------
(* A worker takes the head of its queue, and pops it when the handler ends. *)

Taking(h, type) ==
  /\ work[h].at = "idle" /\ queue[h] # <<>> /\ Head(queue[h]).type = type
At(h, step) == work[h].at = step /\ queue[h] # <<>>

Ack(h) ==
  /\ At(h, "ack")
  /\ queue' = [queue EXCEPT ![h] = Tail(@)]
  /\ work' = [work EXCEPT ![h] = Idle]
  /\ UNCHANGED <<mongo, hosted, tasks, outer>>

\* A command older than COMMAND_STALE_TTL_S is dropped unprocessed.
Expire(h) ==
  /\ work[h].at = "idle" /\ queue[h] # <<>> /\ Spend("expired", MaxExpired)
  /\ Goto(h, "ack")
  /\ UNCHANGED <<mongo, hosted, queue, tasks, requests, mishaps>>

\* The agent was launched here, and the document is not yet this host's.
Committing(h) == work[h].at = "in_commit"

\* The worker dies or is rebuilt: the broker redelivers the command that was
\* not acknowledged, or it was rejected without requeue when its task was
\* cancelled; background tasks die with the process.  tmux survives.
Crash(h) ==
  /\ Spend("crashes", MaxCrashes)
  /\ work' = [work EXCEPT ![h] = Idle]
  /\ \/ UNCHANGED queue
     \/ /\ work[h].at # "idle" /\ queue[h] # <<>>
        /\ queue' = [queue EXCEPT ![h] = Tail(@)]
  /\ waking' = [waking EXCEPT ![h] = 0] /\ sending' = [sending EXCEPT ![h] = 0]
  /\ listed' = [listed EXCEPT ![h] = "unlisted"]
  /\ IF Committing(h) THEN Befalls("stranded") ELSE UNCHANGED mishaps
  /\ UNCHANGED <<mongo, hosted, requests>>

-----------------------------------------------------------------------------
(* move_out, on the host that owns the session. *)

\* The document still asks this host for this move (mutant: any host).
Exportable_AnyHost(h) ==
  doc.target = Head(queue[h]).to /\ doc.phase = "exporting"
Exportable(h) ==
  /\ doc.host = h /\ doc.target = Head(queue[h]).to
  /\ doc.phase = "exporting"

TakeMoveOut(h) ==
  /\ Taking(h, "move_out")
  /\ Goto(h, IF Exportable(h) THEN "out_git" ELSE "ack")
  /\ UNCHANGED <<mongo, hosted, queue, tasks, outer>>

\* Uncommitted or unpushed work, or no jsonl: refused before anything stops.
MoveOutRefuse(h) ==
  /\ At(h, "out_git") /\ (h \notin Reliable \/ file[h] = "none")
  /\ doc' = Phase(doc, "failed")
  /\ Goto(h, "ack")
  /\ UNCHANGED <<stores, hosted, queue, tasks, outer>>

\* The agent is shut down and the tmux session killed (mutant: left alone).
StoppedPane_Left(h) == pane
StoppedPane(h) == [pane EXCEPT ![h] = "none"]

MoveOutStop(h) ==
  /\ At(h, "out_git") /\ file[h] # "none"
  /\ pane' = StoppedPane(h)
  /\ Goto(h, "out_export")
  /\ UNCHANGED <<mongo, file, queue, tasks, outer>>

\* The document becomes stopped, the jsonl is read and stored in chunks under a
\* new transfer id; storing may fail.
MoveOutExport(h) ==
  /\ At(h, "out_export") /\ lastTid < MaxTransfers
  /\ doc' = [doc EXCEPT !.status = "stopped"]
  /\ lastTid' = lastTid + 1
  /\ \E stored \in BOOLEAN :
       /\ ~stored => h \notin Reliable
       /\ parcel' = IF stored THEN [parcel EXCEPT ![lastTid'] = file[h]] ELSE parcel
       /\ work' = [work EXCEPT
            ![h] = [at |-> IF stored THEN "out_handover" ELSE "out_rollback",
                    tid |-> lastTid']]
  /\ UNCHANGED <<history, foreign, hosted, queue, tasks, outer>>

\* phase and transfer_id are written by _id alone, before the publish.
MoveOutHandOver(h) ==
  /\ At(h, "out_handover")
  /\ doc' = [Phase(doc, "importing") EXCEPT !.tid = work[h].tid]
  /\ Goto(h, "out_publish")
  /\ UNCHANGED <<stores, hosted, queue, tasks, outer>>

MoveOutPublish_Forgets(h) ==
  /\ At(h, "out_publish") /\ Goto(h, "ack")
  /\ UNCHANGED <<mongo, hosted, queue, tasks, outer>>
MoveOutPublish(h) ==
  /\ At(h, "out_publish")
  /\ LET to == Head(queue[h]).to
         c  == Cmd("move_in", h, to, work[h].tid)
     IN \/ Send(to, c) /\ Goto(h, "ack") /\ UNCHANGED mishaps
        \/ /\ LossyPublish /\ Goto(h, "out_rollback")
           /\ \/ Send(to, c) /\ Befalls("doubled")
              \/ UNCHANGED queue /\ Befalls("lost")
  /\ UNCHANGED <<mongo, hosted, tasks, requests, spent>>

\* The transfer is deleted, the agent relaunched here, the move marked failed.
MoveOutRollback(h) ==
  /\ At(h, "out_rollback")
  /\ parcel' = [parcel EXCEPT ![work[h].tid] = "none"]
  /\ \/ /\ \E p \in Launched(h, file[h]) :
             pane' = [pane EXCEPT ![h] = IF @ = "agent" THEN @ ELSE p]
        /\ doc' = [Phase(doc, "failed") EXCEPT !.status = "active"]
     \/ /\ Refused(h) /\ UNCHANGED pane
        /\ doc' = Phase(doc, "failed")
  /\ Goto(h, "ack")
  /\ UNCHANGED <<history, foreign, lastTid, file, queue, tasks, outer>>

-----------------------------------------------------------------------------
(* move_in, on the target. *)

\* The document still waits for this transfer.
Awaited(h) == doc.tid = Head(queue[h]).tid

TakeMoveIn(h) ==
  /\ Taking(h, "move_in")
  /\ Goto(h, IF Awaited(h) /\ doc.phase = "importing" THEN "in_prepare" ELSE "ack")
  /\ UNCHANGED <<mongo, hosted, queue, tasks, outer>>

\* The clone may fail; a tmux session of that name is an error, and is spared.
\* (Mutant: ownership is taken before the conversation is here.)
AfterPrepare_Commit == "in_commit"
AfterPrepare == "in_import"

MoveInPrepare(h) ==
  /\ At(h, "in_prepare")
  /\ \/ /\ pane[h] = "none"
        /\ Goto(h, AfterPrepare)
     \/ /\ pane[h] # "none" \/ h \notin Reliable
        /\ Goto(h, "in_spare")
  /\ UNCHANGED <<mongo, hosted, queue, tasks, outer>>

\* The checkout follows the branch, the chunks are read, the jsonl overwritten
\* and the agent launched: success only if its process replaced the shell.
\* (Mutant: a jsonl already here, of an earlier stay, is kept.)
Imported_KeepsOld(h) == IF file[h] # "none" THEN file[h] ELSE parcel[Head(queue[h]).tid]
Imported(h) == parcel[Head(queue[h]).tid]

MoveInImport(h) ==
  /\ At(h, "in_import")
  /\ LET copy == Imported(h)
     IN /\ copy # "none"
        /\ file' = [file EXCEPT ![h] = copy]
        /\ \/ \E p \in Launched(h, copy) :
                /\ pane' = [pane EXCEPT ![h] = p]
                /\ Goto(h, IF p = "agent" THEN "in_commit" ELSE "in_fail")
           \/ Refused(h) /\ Goto(h, "in_fail") /\ UNCHANGED pane
  /\ UNCHANGED <<mongo, queue, tasks, outer>>

MoveInImportFails(h) ==
  /\ At(h, "in_import")
  /\ h \notin Reliable \/ parcel[Head(queue[h]).tid] = "none"
  /\ Goto(h, "in_fail")
  /\ UNCHANGED <<mongo, hosted, queue, tasks, outer>>

\* One update, filtered by the transfer id, makes this host the owner (mutants:
\* host_id is forgotten; no unique index on (host_id, tmux_name)).
Taken_KeepsHost(h) == [Unmoved(doc) EXCEPT !.status = "active"]
Taken(h) == [Unmoved(doc) EXCEPT !.host = h, !.status = "active"]
Unique_NoIndex(h) == TRUE
Unique(h) == h \notin foreign

MoveInCommit(h) ==
  /\ At(h, "in_commit") /\ Awaited(h) /\ Unique(h)
  /\ doc' = Taken(h)
  /\ history' = Append(history, <<Head(queue[h]).from, h>>)
  /\ Goto(h, "in_clean")
  /\ UNCHANGED <<foreign, parcel, lastTid, hosted, queue, tasks, outer>>

\* The unique index on (host_id, tmux_name) rejects that update when discovery
\* already inserted an active document here: the exception is not one handle()
\* knows, the message is rejected (popped like an acknowledged one) and the
\* worker rebuilt.
MoveInCollide(h) ==
  /\ At(h, "in_commit") /\ Awaited(h) /\ ~Unique(h)
  /\ Goto(h, "ack") /\ Befalls("stranded")
  /\ UNCHANGED <<mongo, hosted, queue, tasks, requests, spent>>

\* The move was cancelled meanwhile: the agent started here is killed.
MoveInCancelled(h) ==
  /\ At(h, "in_commit") /\ ~Awaited(h)
  /\ pane' = StoppedPane(h)
  /\ Goto(h, "ack")
  /\ UNCHANGED <<mongo, file, queue, tasks, outer>>

\* Taken over or given back, the transfer is deleted.
MoveInClean(h) ==
  /\ At(h, "in_clean")
  /\ parcel' = [parcel EXCEPT ![Head(queue[h]).tid] = "none"]
  /\ Goto(h, "ack")
  /\ UNCHANGED <<doc, history, foreign, lastTid, hosted, queue, tasks, outer>>

\* Rollback: our tmux session is killed and the move marked failed, by _id
\* (mutants: the transfer id is written back; nothing is written) ...
FailedIn_RestoresTid(h) == [Phase(doc, "failed") EXCEPT !.tid = Head(queue[h]).tid]
FailedIn_Silent(h) == doc
FailedIn(h) == Phase(doc, "failed")

MoveInFail(h) ==
  /\ \/ At(h, "in_fail") /\ pane' = StoppedPane(h)
     \/ At(h, "in_spare") /\ UNCHANGED pane
  /\ doc' = FailedIn(h)
  /\ Goto(h, "in_giveback")
  /\ UNCHANGED <<stores, file, queue, tasks, outer>>

\* ... then the source is told to resume (mutant: only the event is emitted)
\* and the transfer deleted, unless that publish raises out of the rollback.
GivenBack_EventOnly(c) == UNCHANGED queue
GivenBack(c) == Send(c.from, Cmd("resume", c.from, c.from, 0))

MoveInGiveBack(h) ==
  /\ At(h, "in_giveback")
  /\ \/ GivenBack(Head(queue[h])) /\ Goto(h, "in_clean") /\ UNCHANGED mishaps
     \/ /\ LossyPublish /\ Goto(h, "ack") /\ Befalls("lost")
        /\ GivenBack(Head(queue[h])) \/ UNCHANGED queue
  /\ UNCHANGED <<mongo, hosted, tasks, requests, spent>>

-----------------------------------------------------------------------------
(* resume and input. *)

\* Relaunching writes the document it finds by name, whatever host owns it.
Relaunch(h) ==
  /\ \E p \in Launched(h, file[h]) : pane' = [pane EXCEPT ![h] = p]
  /\ doc' = [doc EXCEPT !.status = "active"]

TakeResume(h) ==
  /\ Taking(h, "resume") /\ Goto(h, "ack")
  /\ \/ /\ pane[h] = "agent" /\ UNCHANGED pane
        /\ doc' = [doc EXCEPT !.status = "active"]
     \/ pane[h] # "agent" /\ Relaunch(h)
     \/ pane[h] # "agent" /\ Refused(h) /\ UNCHANGED <<doc, pane>>
  /\ UNCHANGED <<stores, file, queue, tasks, outer>>

\* Without a tmux session, input resumes it in a background task and returns.
TakeInput(h) ==
  /\ Taking(h, "input") /\ Goto(h, "ack")
  /\ \/ /\ pane[h] = "none" /\ waking' = [waking EXCEPT ![h] = @ + 1]
        /\ UNCHANGED <<parcel, file>>
     \/ pane[h] = "shell" /\ UNCHANGED <<waking, file, parcel>>
     \/ pane[h] = "agent" /\ Turn(h) /\ UNCHANGED waking
  /\ UNCHANGED <<doc, history, foreign, lastTid, pane, queue, sending, listed, outer>>

\* The background task relaunches without looking for a live agent: over one,
\* the launch command is typed as a message.  Then it has a message to type.
Wake(h) ==
  /\ waking[h] > 0 /\ waking' = [waking EXCEPT ![h] = @ - 1]
  /\ \/ /\ sending' = [sending EXCEPT ![h] = @ + 1]
        /\ \/ /\ pane[h] = "agent" /\ Turn(h) /\ UNCHANGED pane
              /\ doc' = [doc EXCEPT !.status = "active"]
           \/ pane[h] # "agent" /\ Relaunch(h) /\ UNCHANGED <<file, parcel>>
     \/ Refused(h) /\ UNCHANGED <<doc, pane, file, parcel, sending>>
  /\ UNCHANGED <<history, foreign, lastTid, queue, work, listed, outer>>

Typing_Twice(h) == sending' = [sending EXCEPT ![h] = @ - 1]
Typing(h) == sending[h] > 0 /\ sending' = [sending EXCEPT ![h] = @ - 1]

SendWaiting(h) ==
  /\ Typing(h)
  /\ IF pane[h] = "agent" THEN Turn(h) ELSE UNCHANGED <<file, parcel>>
  /\ UNCHANGED <<doc, history, foreign, lastTid, pane, queue, work, waking, listed, outer>>

-----------------------------------------------------------------------------
(* The discovery cycle of each worker, concurrent with its consumer. *)

\* The cycle lists tmux once and applies that list after several awaits.
DiscoveryList(h) ==
  /\ Discovery /\ listed[h] = "unlisted"
  /\ listed' = [listed EXCEPT ![h] = IF pane[h] = "none" THEN "absent" ELSE "present"]
  /\ UNCHANGED <<mongo, hosted, queue, work, waking, sending, outer>>

\* A tmux session listed here updates this host's document, or inserts one.
DiscoverySees(h) ==
  /\ listed[h] = "present" /\ listed' = [listed EXCEPT ![h] = "unlisted"]
  /\ \/ /\ doc.host = h /\ UNCHANGED foreign
        /\ doc' = [doc EXCEPT !.status = "active"]
     \/ doc.host # h /\ foreign' = foreign \cup {h} /\ UNCHANGED doc
  /\ UNCHANGED <<history, parcel, lastTid, hosted, queue, work, waking, sending, outer>>

\* This host's active documents absent from the list become stopped.
DiscoveryMisses(h) ==
  /\ listed[h] = "absent" /\ listed' = [listed EXCEPT ![h] = "unlisted"]
  /\ doc' = IF doc.host = h THEN [doc EXCEPT !.status = "stopped"] ELSE doc
  /\ foreign' = foreign \ {h}
  /\ UNCHANGED <<history, parcel, lastTid, hosted, queue, work, waking, sending, outer>>

-----------------------------------------------------------------------------
Client == \/ \E to \in Hosts : MoveRequest(to)
          \/ Resume \/ Input \/ GrowStale

MoveOut(h) == \/ TakeMoveOut(h) \/ MoveOutRefuse(h) \/ MoveOutStop(h)
              \/ MoveOutExport(h) \/ MoveOutHandOver(h) \/ MoveOutPublish(h)
              \/ MoveOutRollback(h)

MoveIn(h) == \/ TakeMoveIn(h) \/ MoveInPrepare(h) \/ MoveInImport(h)
             \/ MoveInImportFails(h) \/ MoveInCommit(h) \/ MoveInCollide(h)
             \/ MoveInCancelled(h) \/ MoveInClean(h) \/ MoveInFail(h)
             \/ MoveInGiveBack(h)

Consume(h) == MoveOut(h) \/ MoveIn(h) \/ TakeResume(h) \/ TakeInput(h) \/ Ack(h)

Next ==
  \/ Client
  \/ \E r \in requests : MoveAccept(r)
  \/ \E h \in Hosts : \/ Consume(h) \/ Wake(h) \/ SendWaiting(h)
                      \/ Expire(h) \/ Crash(h)
                      \/ DiscoveryList(h) \/ DiscoverySees(h) \/ DiscoveryMisses(h)

Spec == Init /\ [][Next]_vars

-----------------------------------------------------------------------------
(* What holds whatever clients, crashes, losses and discovery do. *)

\* Wherever a move stops, the host the API routes to has the conversation on
\* disk: "Retomar" there can always resume it.
OwnerHasConversation == file[doc.host] # "none"

\* move_history is the chain of owners: no move was completed by a host whose
\* source had already lost the session.
HistoryIsChain ==
  LET Owner(i) == IF i = 0 THEN Home ELSE history[i][2]
  IN /\ \A i \in DOMAIN history : history[i][1] = Owner(i - 1)
     /\ doc.host = Owner(Len(history))

\* Only the owner is ever past the checks of move_out, and meanwhile no
\* transfer can be completed: the writes by _id alone race with nobody.
Exporting(h) == work[h].at \in {"out_git", "out_export", "out_handover"}
ExporterIsOwner ==
  \A h \in Hosts : Exporting(h) => doc.host = h /\ doc.tid = 0

\* A transfer replaced or cancelled in the document never comes back to it:
\* each one is taken over at most once.
CancelledStaysCancelled == [][doc'.tid \in {0, doc.tid, lastTid}]_vars

\* Whatever discovery inserts, the API lists one active document per host and
\* tmux name.
NoTwinOfOwner == doc.host \notin foreign

\* Moving keeps the promise of SessionOwnership: the document is handed over by
\* its owner, once per transfer, to a host that already has the conversation.
Ownership == INSTANCE SessionOwnership WITH
  owner <- doc.host, log <- history, kept <- {h \in Hosts : file[h] # "none"}
ImplementsOwnership == Ownership!Spec

-----------------------------------------------------------------------------
(* Why it holds: the inductive invariant of the properties above. *)

\* What a worker does is what the head of its queue asks for.
HeadInProgress ==
  \A h \in Hosts :
    /\ work[h].at # "idle" => queue[h] # <<>>
    /\ work[h].at \in OutSteps => Head(queue[h]).type = "move_out"
    /\ work[h].at \in InSteps => Head(queue[h]).type = "move_in"

\* A command is in the queue of the host it is for, and a move has two hosts.
Addressed ==
  /\ \A h \in Hosts : \A c \in Waiting(h) :
       /\ c.type = "move_out" => c.from = h /\ c.to # h
       /\ c.type = "move_in" => c.to = h /\ c.from # h /\ c.tid \in 1..lastTid
  /\ \A r \in requests : r.from # r.to

\* The document names a transfer only once it was exported.
TransferNamed ==
  /\ doc.tid <= lastTid
  /\ doc.phase \in {"none", "exporting"} => doc.tid = 0

\* a may still make others take over transfer t.
Carries(a, t) == work[a].at \in {"out_handover", "out_publish", "out_rollback"}
                   /\ work[a].tid = t
Claims(a, t) ==
  \/ Carries(a, t)
  \/ \E h \in Hosts : \E c \in Waiting(h) :
       c.type = "move_in" /\ c.from = a /\ c.tid = t

\* A transfer has one source, and the one the document names is its owner's.
OneSource ==
  \A a \in Hosts, t \in Tids : Claims(a, t) =>
    /\ t \in 1..lastTid
    /\ \A b \in Hosts : Claims(b, t) => a = b
    /\ doc.tid = t => doc.host = a

Imports == \A h \in Hosts : work[h].at = "in_commit" => file[h] # "none"
FreshTransfer == \A h \in Hosts : work[h].at = "out_handover" => work[h].tid = lastTid

IndInv ==
  /\ HeadInProgress /\ Addressed /\ TransferNamed /\ OneSource
  /\ Imports /\ FreshTransfer
  /\ ExporterIsOwner /\ OwnerHasConversation

-----------------------------------------------------------------------------
(* What holds until one of three mishaps: the rest of what crashes, losses and *)
(* discovery do, it withstands.                                                *)

Undisturbed == mishaps \cap {"haste", "doubled", "stranded"} = {}

\* One claude process at a time writes the conversation.
OneWriter == \A g, h \in Hosts : pane[g] = "agent" /\ pane[h] = "agent" => g = h

\* The agent that lives on once everything settled is on the host the API
\* routes to.
NoOrphanAgent == Settled => \A h \in Hosts : pane[h] = "agent" => doc.host = h

\* One agent at a time, and in the end none but where messages are sent.
OneAgent == Undisturbed => OneWriter /\ NoOrphanAgent

\* A settled session is whole on its host.
KeepsEveryTurn == Settled => file[doc.host] = "full"

\* If nothing was lost on the way, a settled move was completed or rolled back,
\* and nothing of it is left in the transfers collection.
NothingLost == spent["expired"] = 0 /\ spent["crashes"] = 0 /\ "lost" \notin mishaps
SettledIsOver ==
  Settled /\ NothingLost =>
    doc.phase \in {"none", "failed"} /\ \A t \in Tids : parcel[t] = "none"

\* What a settled move leaves: the whole conversation, and nothing else.
SettledIsWhole == Undisturbed => KeepsEveryTurn /\ SettledIsOver

-----------------------------------------------------------------------------
(* Why that holds: what a move under way has left where, at each of its steps. *)

\* The step the worker of h is at with the i-th command of its queue.
Stage(h, i) == IF i = 1 THEN work[h].at ELSE "idle"
NoAgent == \A h \in Hosts : pane[h] # "agent"
MoveTypes == {"move_out", "move_in"}
TalkTypes == {"resume", "input"}

\* The i-th command of h still moves the session: a command given again after a
\* crash does not, once its move went on.
Leaving(h, i) ==
  /\ queue[h][i].type = "move_out"
  /\ doc.phase = "exporting" \/ Stage(h, i) \in OutSteps
Arriving(h, i) ==
  /\ queue[h][i].type = "move_in"
  /\ \/ doc.phase = "importing" /\ doc.tid = queue[h][i].tid
     \/ Stage(h, i) \in InSteps \ {"in_clean"}

\* There is one request or one move, and its source is done when its target has it.
OneMove ==
  /\ \A r, q \in requests : r = q /\ r.from = doc.host
  /\ requests # {} => \A h \in Hosts : ~Queued(h, MoveTypes)
  /\ \A g, h \in Hosts : \A i \in DOMAIN queue[g], j \in DOMAIN queue[h] :
       LET a == queue[g][i].type  b == queue[h][j].type IN
       /\ a = b /\ a \in MoveTypes => g = h /\ i = j
       /\ a = "move_out" /\ b = "move_in" => ~Leaving(g, i)

\* What else is sent goes to the session's host, ahead of a move or after it.
TalkAside ==
  /\ \A h \in Hosts : Queued(h, TalkTypes) => h = doc.host
  /\ \A h \in Hosts : Queued(h, {"input"}) \/ waking[h] > 0 => Settled /\ h = doc.host
  /\ \A h \in Hosts : \A i \in DOMAIN queue[h] :
       /\ Leaving(h, i) => i = Len(queue[h])
       /\ Arriving(h, i) => \A g \in Hosts : ~Queued(g, TalkTypes)

\* Until its commit or its failure a move is in the document, and after the agent
\* was stopped its copy is whole.
OutUnderWay ==
  \A h \in Hosts : \A i \in DOMAIN queue[h] : Leaving(h, i) =>
    LET step == Stage(h, i) IN
    /\ doc.host = h /\ doc.target = queue[h][i].to
    /\ IF step \in {"out_publish", "out_rollback"} THEN doc.phase \in {"exporting", "importing"}
       ELSE doc.phase = "exporting"
    /\ step \in OutSteps \ {"out_git"} => NoAgent
    /\ step \in {"out_handover", "out_publish"} => parcel[work[h].tid] = "full"
    /\ step = "out_publish" => doc.phase = "importing" /\ doc.tid = work[h].tid
InUnderWay ==
  \A h \in Hosts : \A i \in DOMAIN queue[h] : Arriving(h, i) =>
    LET c == queue[h][i]  step == Stage(h, i) IN
    /\ doc.host = c.from /\ step # "in_clean"
    /\ IF step = "in_giveback" THEN doc.phase = "failed"
       ELSE doc.phase = "importing" /\ doc.tid = c.tid
    /\ IF step = "in_commit" THEN file[h] = "full" /\ \A g \in Hosts \ {h} : pane[g] # "agent"
       ELSE NoAgent
    /\ step \notin {"in_commit", "in_giveback"} => parcel[c.tid] = "full"

\* The agent and the whole conversation are with the owner, or with the host that
\* is about to be.
WithOwner ==
  /\ \A h \in Hosts : pane[h] = "agent" => doc.host = h \/ Committing(h)
  /\ file[doc.host] = "full" \/ \E h \in Hosts : Committing(h)

\* A phase and a parcel are of a move under way, unless something was lost.
Carried(t) ==
  \E h \in Hosts :
    \/ Carries(h, t)
    \/ \E i \in DOMAIN queue[h] :
         /\ queue[h][i].tid = t /\ Stage(h, i) # "ack"
         /\ Arriving(h, i) \/ Stage(h, i) = "in_clean"
NothingLeft ==
  NothingLost =>
    /\ doc.phase = "exporting" =>
         \E h \in Hosts : \E i \in DOMAIN queue[h] : Leaving(h, i) /\ Stage(h, i) # "ack"
    /\ doc.phase = "importing" =>
         \E h \in Hosts :
           \/ work[h].at = "out_publish"
           \/ \E i \in DOMAIN queue[h] : Arriving(h, i) /\ Stage(h, i) # "ack"
    /\ \A t \in Tids : parcel[t] # "none" => Carried(t)

InOrder ==
  OneMove /\ TalkAside /\ OutUnderWay /\ InUnderWay /\ WithOwner /\ NothingLeft
Orderly == Undisturbed => InOrder

-----------------------------------------------------------------------------
(* Liveness: a worker keeps consuming, and the API finishes its requests. *)
Fairness ==
  /\ \A h \in Hosts : WF_vars(Consume(h)) /\ WF_vars(Wake(h))
  /\ WF_vars(\E r \in requests : MoveAccept(r))

FairSpec == Spec /\ Fairness

\* Unless a command expires in its queue, a move ends: in the target's hands,
\* or failed with its reason.
MoveEnds ==
  []<>(doc.phase \in {"none", "failed"} \/ spent["expired"] > 0)

\* After a failure the agent runs again on the host that has the session,
\* unless that host cannot launch it or the resume expires.
FailureRestarts ==
  []<>(doc.phase = "failed" =>
         pane[doc.host] = "agent" \/ Refused(doc.host) \/ spent["expired"] > 0)

\* However a move goes, the session comes back to work.
MoveResolves == MoveEnds /\ FailureRestarts
=============================================================================
