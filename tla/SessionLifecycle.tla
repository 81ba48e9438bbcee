-------------------------- MODULE SessionLifecycle --------------------------
(***************************************************************************)
(* How a session is created, found, killed, renamed, resumed and purged.   *)
(*                                                                         *)
(* Three kinds of actors write the documents of the collection `sessions`: *)
(* the API's handlers, each worker's command consumer, and each worker's   *)
(* discovery cycle, which lists tmux and then writes what it saw.  They    *)
(* share no lock: a worker's two tasks interleave at every await, a worker *)
(* may die between two steps and be given its command again, and most of   *)
(* the consumer's queries name a session without naming its host.          *)
(***************************************************************************)
EXTENDS Naturals, Sequences, FiniteSets

CONSTANTS
  Hosts,        \* host_id of every worker
  NoHost,       \* the host of a document that has no host_id
  Names,        \* tmux_name
  NamesOf,      \* the names that clients and users give to sessions of a host
  Renames,      \* whether clients rename sessions
  LossyPublish, \* whether the publish of a purge may fail
  MaxRequests,  \* requests to the API
  MaxDocs,      \* documents ever inserted
  MaxCrashes,   \* workers that die, or are cancelled, with a command unacknowledged
  MaxRefusals,  \* kills that tmux refuses
  MaxByHand     \* tmux sessions opened or closed, agents left, outside the app

ASSUME LifecycleAssumption ==
  /\ NoHost \notin Hosts
  /\ NamesOf \in [Hosts -> SUBSET Names]
  /\ {Renames, LossyPublish} \subseteq BOOLEAN
  /\ {MaxRequests, MaxDocs, MaxCrashes, MaxRefusals, MaxByHand} \subseteq Nat

VARIABLES
  docs,         \* the documents: id in order of insertion, host, name, status
  born,         \* how many were ever inserted
  tmux,         \* what runs in the pane of a name on a host
  queue,        \* sessionflow.commands.<host>: the head is the one in progress
  handler,      \* where the consumer of a host is in its command
  scan,         \* where the discovery of a host is in its cycle
  worker,       \* whether the worker of a host runs
  spent         \* requests, crashes, refusals and changes by hand so far

vars == <<docs, born, tmux, queue, handler, scan, worker, spent>>

Guarded_Destructive == {"create", "resume", "kill", "delete"}
Guarded == {"create", "resume"}   \* _STALE_GUARDED_TYPES
Command == [type : {"create", "resume", "kill", "delete", "rename"},
            name : Names, new : Names]
Document == [id : 1..MaxDocs, host : Hosts \cup {NoHost}, name : Names,
             status : {"active", "stopped"}]
Steps == {"idle", "create_launch", "create_doc", "create_stopped",
          "kill_doc", "delete_read", "delete_doc", "rename_doc", "resume_read",
          "resume_launch", "resume_doc", "ack"}
Resting == [on |-> FALSE, seen |-> {}, todo |-> {}]

TypeOK ==
  /\ docs \subseteq Document
  /\ \A d, e \in docs : d.id = e.id => d = e
  /\ born \in 0..MaxDocs /\ \A d \in docs : d.id <= born
  /\ tmux \in [Hosts -> [Names -> {"none", "shell", "starting", "agent"}]]
  /\ queue \in [Hosts -> Seq(Command)]
  /\ handler \in [Hosts -> Steps]
  /\ \A h \in Hosts : handler[h] # "idle" => queue[h] # <<>>
  /\ scan \in [Hosts -> [on : BOOLEAN, seen : SUBSET Names, todo : SUBSET Names]]
  /\ worker \in [Hosts -> {"up", "down"}]
  /\ spent \in [requests : 0..MaxRequests, crashes : 0..MaxCrashes,
               refusals : 0..MaxRefusals, byHand : 0..MaxByHand]

Init ==
  /\ docs = {} /\ born = 0
  /\ tmux = [h \in Hosts |-> [n \in Names |-> "none"]]
  /\ queue = [h \in Hosts |-> <<>>]
  /\ handler = [h \in Hosts |-> "idle"]
  /\ scan = [h \in Hosts |-> Resting]
  /\ worker = [h \in Hosts |-> "up"]
  /\ spent = [requests |-> 0, crashes |-> 0, refusals |-> 0, byHand |-> 0]

----------------------------------------------------------------------------
(* The collection. *)

Named(n) == {d \in docs : d.name = n}
Here(h, n) == {d \in docs : d.host = h /\ d.name = n}

\* find_one and update_one take the first match of a collection scan.
First(D) == CHOOSE d \in D : \A e \in D : d.id <= e.id

\* uq_host_tmux_name_active: what would break the unique index.
Collides(e) ==
  /\ e.status = "active"
  /\ \E f \in docs : f.id # e.id /\ f.status = "active" /\ f.host = e.host /\ f.name = e.name

Write(d, e) == docs' = (docs \ {d}) \cup {e} /\ UNCHANGED born
Insert(h, n, status) ==
  /\ born < MaxDocs
  /\ born' = born + 1
  /\ docs' = docs \cup {[id |-> born + 1, host |-> h, name |-> n, status |-> status]}

----------------------------------------------------------------------------
(* The API.  A request reads a document and publishes to its host's queue. *)

Request == /\ spent.requests < MaxRequests
           /\ spent' = [spent EXCEPT !.requests = @ + 1]
Publish(h, type, name, new) ==
  queue' = [queue EXCEPT ![h] = Append(@, [type |-> type, name |-> name, new |-> new])]

CreateRequest(h, n) ==
  /\ Request
  /\ n \in NamesOf[h]
  /\ \A d \in Named(n) : d.status = "stopped"
  /\ Publish(h, "create", n, n)
  /\ UNCHANGED <<docs, born, tmux, handler, scan, worker>>

\* An offline host: the document is stopped at once, the command waits.
KillRequest(d) ==
  /\ Request
  /\ d.host # NoHost
  /\ \/ UNCHANGED <<docs, born>>
     \/ worker[d.host] = "down" /\ Write(d, [d EXCEPT !.status = "stopped"])
  /\ Publish(d.host, "kill", d.name, d.name)
  /\ UNCHANGED <<tmux, handler, scan, worker>>

PurgeRequest(d) ==
  /\ Request
  /\ d.host # NoHost
  /\ docs' = docs \ {d}
  /\ \/ Publish(d.host, "delete", d.name, d.name)
     \/ LossyPublish /\ UNCHANGED queue
  /\ UNCHANGED <<born, tmux, handler, scan, worker>>

RenameRequest(d, n) ==
  /\ Request
  /\ Renames /\ d.host # NoHost /\ n \in NamesOf[d.host]
  /\ Publish(d.host, "rename", d.name, n)
  /\ UNCHANGED <<docs, born, tmux, handler, scan, worker>>

ResumeRequest(d) ==
  /\ Request
  /\ d.host # NoHost
  /\ Publish(d.host, "resume", d.name, d.name)
  /\ UNCHANGED <<docs, born, tmux, handler, scan, worker>>

Client ==
  \/ \E h \in Hosts, n \in Names : CreateRequest(h, n)
  \/ \E d \in docs : \/ KillRequest(d)
                     \/ PurgeRequest(d)
                     \/ ResumeRequest(d)
                     \/ \E n \in Names : RenameRequest(d, n)

----------------------------------------------------------------------------
(* The command consumer of a host: one command at a time. *)

Cmd(h) == Head(queue[h])
Goto(h, step) == handler' = [handler EXCEPT ![h] = step] /\ UNCHANGED queue
Pane(h, n, what) == tmux' = [tmux EXCEPT ![h][n] = what]

\* tmux_runtime: what each call does where it does not raise.
NewSession(h, n) == tmux[h][n] = "none" /\ Pane(h, n, "shell")
KillSession(h, n) == Pane(h, n, "none")
RenameSession(h, old, new) ==
  /\ tmux[h][old] # "none" /\ (new = old \/ tmux[h][new] = "none")
  /\ tmux' = [tmux EXCEPT ![h] = [@ EXCEPT ![old] = "none", ![new] = tmux[h][old]]]

\* The message was rejected without requeue by an exception the consumer or
\* discovery did not catch: every task is cancelled and the worker rebuilt.
Fall(h) ==
  /\ worker' = [worker EXCEPT ![h] = "down"]
  /\ scan' = [scan EXCEPT ![h] = Resting]
  /\ handler' = [handler EXCEPT ![h] = "idle"]
  /\ queue' = [queue EXCEPT ![h] = IF handler[h] = "idle" THEN @ ELSE Tail(@)]
  /\ UNCHANGED <<docs, born, tmux, spent>>

At(h, step) == worker[h] = "up" /\ handler[h] = step
Taking(h, type) == At(h, "idle") /\ queue[h] # <<>> /\ Cmd(h).type = type

\* The command that writes e over d goes on, or breaks the index.
Commit(h, d, e) ==
  IF Collides(e) THEN Fall(h)
  ELSE Write(d, e) /\ Goto(h, "ack") /\ UNCHANGED <<tmux, scan, worker, spent>>

Ack_StaysBusy(h) ==
  /\ At(h, "ack")
  /\ queue' = [queue EXCEPT ![h] = Tail(@)]
  /\ UNCHANGED <<docs, born, tmux, handler, scan, worker, spent>>

Ack(h) ==
  /\ At(h, "ack")
  /\ queue' = [queue EXCEPT ![h] = Tail(@)]
  /\ handler' = [handler EXCEPT ![h] = "idle"]
  /\ UNCHANGED <<docs, born, tmux, scan, worker, spent>>

Expire(h) ==
  /\ At(h, "idle") /\ queue[h] # <<>> /\ Cmd(h).type \in Guarded
  /\ Goto(h, "ack")
  /\ UNCHANGED <<docs, born, tmux, scan, worker, spent>>

\* The session exists, or the host has no memory left.
CreateRefused(h) ==
  /\ Taking(h, "create")
  /\ Goto(h, "ack")
  /\ UNCHANGED <<docs, born, tmux, scan, worker, spent>>

CreatePane(h) ==
  /\ Taking(h, "create")
  /\ NewSession(h, Cmd(h).name)
  /\ Goto(h, "create_launch")
  /\ UNCHANGED <<docs, born, scan, worker, spent>>

Launch(h) ==
  /\ Pane(h, Cmd(h).name, IF tmux[h][Cmd(h).name] = "shell" THEN "starting" ELSE tmux[h][Cmd(h).name])
  /\ UNCHANGED <<docs, born, scan, worker, spent>>

CreateLaunch(h) == At(h, "create_launch") /\ Launch(h) /\ Goto(h, "create_doc")

Upsert_Inserts(h, n, status) ==
  Insert(h, n, status) /\ Goto(h, "ack") /\ UNCHANGED <<tmux, scan, worker, spent>>

\* The upsert names the session without its host.
Upsert(h, n, status) ==
  IF Named(n) = {}
  THEN Insert(h, n, status) /\ Goto(h, "ack") /\ UNCHANGED <<tmux, scan, worker, spent>>
  ELSE LET d == First(Named(n)) IN Commit(h, d, [d EXCEPT !.host = h, !.status = status])

CreateDoc(h) == At(h, "create_doc") /\ Upsert(h, Cmd(h).name, "active")

\* The folder cannot be made: a stopped document tells why.
CreateNoFolder(h) ==
  /\ Taking(h, "create")
  /\ tmux[h][Cmd(h).name] = "none"
  /\ Goto(h, "create_stopped")
  /\ UNCHANGED <<docs, born, tmux, scan, worker, spent>>

CreateStopped(h) == At(h, "create_stopped") /\ Upsert(h, Cmd(h).name, "stopped")

\* tmux kills the session, or raises: that is logged, and the handler goes on.
Kills(h, n) ==
  \/ KillSession(h, n) /\ UNCHANGED spent
  \/ /\ tmux[h][n] # "none" /\ spent.refusals < MaxRefusals
     /\ spent' = [spent EXCEPT !.refusals = @ + 1]
     /\ UNCHANGED tmux

KillPane(h) ==
  /\ Taking(h, "kill")
  /\ Kills(h, Cmd(h).name)
  /\ Goto(h, "kill_doc")
  /\ UNCHANGED <<docs, born, scan, worker>>

KillDoc(h) ==
  LET n == Cmd(h).name
      found == IF Here(h, n) # {} THEN Here(h, n) ELSE Named(n)
  IN /\ At(h, "kill_doc")
     /\ IF found = {} THEN UNCHANGED <<docs, born>>
        ELSE Write(First(found), [First(found) EXCEPT !.status = "stopped"])
     /\ Goto(h, "ack")
     /\ UNCHANGED <<tmux, scan, worker, spent>>

\* The document is looked up for a worktree before anything is killed.
DeleteRead(h) ==
  /\ Taking(h, "delete")
  /\ Goto(h, "delete_read")
  /\ UNCHANGED <<docs, born, tmux, scan, worker, spent>>

DeletePane(h) ==
  /\ At(h, "delete_read")
  /\ Kills(h, Cmd(h).name)
  /\ Goto(h, "delete_doc")
  /\ UNCHANGED <<docs, born, scan, worker>>

DeleteDoc(h) ==
  LET n == Cmd(h).name
  IN /\ At(h, "delete_doc")
     /\ docs' = IF Named(n) = {} THEN docs ELSE docs \ {First(Named(n))}
     /\ Goto(h, "ack")
     /\ UNCHANGED <<born, tmux, scan, worker, spent>>

RenamePane(h) ==
  LET old == Cmd(h).name
      new == Cmd(h).new
  IN /\ Taking(h, "rename")
     /\ \/ RenameSession(h, old, new) /\ Goto(h, "rename_doc")
        \/ /\ tmux[h][old] = "none" \/ (new # old /\ tmux[h][new] # "none")
           /\ Goto(h, "ack") /\ UNCHANGED tmux
     /\ UNCHANGED <<docs, born, scan, worker, spent>>

RenameDoc(h) ==
  LET n == Cmd(h).name
  IN /\ At(h, "rename_doc")
     /\ IF Named(n) = {}
        THEN Goto(h, "ack") /\ UNCHANGED <<docs, born, tmux, scan, worker, spent>>
        ELSE Commit(h, First(Named(n)), [First(Named(n)) EXCEPT !.name = Cmd(h).new])

\* An agent that is alive is only marked; one still starting is not seen.
TakeResume(h) ==
  /\ Taking(h, "resume")
  /\ Goto(h, IF tmux[h][Cmd(h).name] = "agent" THEN "resume_doc" ELSE "resume_read")
  /\ UNCHANGED <<docs, born, tmux, scan, worker, spent>>

\* No document, no folder or no memory left.
ResumeRefused(h) ==
  /\ At(h, "resume_read")
  /\ Goto(h, "ack")
  /\ UNCHANGED <<docs, born, tmux, scan, worker, spent>>

ResumePane(h) ==
  LET n == Cmd(h).name
  IN /\ At(h, "resume_read")
     /\ Named(n) # {}
     /\ Pane(h, n, IF tmux[h][n] = "none" THEN "shell" ELSE tmux[h][n])
     /\ Goto(h, "resume_launch")
     /\ UNCHANGED <<docs, born, scan, worker, spent>>

ResumeLaunch(h) == At(h, "resume_launch") /\ Launch(h) /\ Goto(h, "resume_doc")

\* upsert by name alone: a document it inserts has no host.
ResumeDoc(h) ==
  LET n == Cmd(h).name
  IN /\ At(h, "resume_doc")
     /\ IF Named(n) = {}
        THEN Insert(NoHost, n, "active") /\ Goto(h, "ack") /\ UNCHANGED <<tmux, scan, worker, spent>>
        ELSE Commit(h, First(Named(n)), [First(Named(n)) EXCEPT !.status = "active"])

Handle(h) ==
  \/ CreateRefused(h) \/ CreatePane(h) \/ CreateLaunch(h) \/ CreateDoc(h)
  \/ CreateNoFolder(h) \/ CreateStopped(h)
  \/ KillPane(h) \/ KillDoc(h) \/ DeleteRead(h) \/ DeletePane(h) \/ DeleteDoc(h)
  \/ RenamePane(h) \/ RenameDoc(h)
  \/ TakeResume(h) \/ ResumeRefused(h) \/ ResumePane(h) \/ ResumeLaunch(h) \/ ResumeDoc(h)
  \/ Expire(h) \/ Ack(h)

----------------------------------------------------------------------------
(* The discovery cycle of a host. *)

Present(h) == {n \in Names : tmux[h][n] # "none"}

ScanList(h) ==
  /\ worker[h] = "up" /\ ~scan[h].on
  /\ scan' = [scan EXCEPT ![h] = [on |-> TRUE, seen |-> Present(h), todo |-> Present(h)]]
  /\ UNCHANGED <<docs, born, tmux, queue, handler, worker, spent>>

Known_Active(h, n) == {d \in Here(h, n) \cup Here(NoHost, n) : d.status = "active"}

\* This host's document, else one without host, else a new one.
Known(h, n) == IF Here(h, n) # {} THEN Here(h, n) ELSE Here(NoHost, n)

Seen_KeepsStatus(h, n) == First(Known(h, n))
Seen(h, n) == [First(Known(h, n)) EXCEPT !.status = "active"]

ScanSee(h, n) ==
  /\ worker[h] = "up" /\ n \in scan[h].todo
  /\ IF Known(h, n) # {} /\ Collides(Seen(h, n)) THEN Fall(h)
     ELSE /\ IF Known(h, n) = {} THEN Insert(h, n, "active")
             ELSE Write(First(Known(h, n)), Seen(h, n))
          /\ scan' = [scan EXCEPT ![h].todo = @ \ {n}]
          /\ UNCHANGED <<tmux, queue, handler, worker, spent>>

Missing_AnyHost(h, seen) == {d \in docs : d.name \notin seen /\ d.status = "active"}

\* What of the documents of h a cycle that saw the names in seen stops.
Missing(h, seen) == {d \in docs : d.host = h /\ d.name \notin seen /\ d.status = "active"}

StopAll(D) == docs' = (docs \ D) \cup {[d EXCEPT !.status = "stopped"] : d \in D}

ScanStop(h) ==
  /\ worker[h] = "up" /\ scan[h].on /\ scan[h].todo = {}
  /\ StopAll(Missing(h, scan[h].seen))
  /\ scan' = [scan EXCEPT ![h] = Resting]
  /\ UNCHANGED <<born, tmux, queue, handler, worker, spent>>

Scan(h) == ScanList(h) \/ (\E n \in Names : ScanSee(h, n)) \/ ScanStop(h)

----------------------------------------------------------------------------
(* Workers that die and come back, and what happens outside the app. *)

\* The worker dies and the broker gives the command again, or the command was
\* rejected without requeue when its task was cancelled or failed at an await.
Crash(h) ==
  /\ worker[h] = "up"
  /\ spent.crashes < MaxCrashes
  /\ spent' = [spent EXCEPT !.crashes = @ + 1]
  /\ worker' = [worker EXCEPT ![h] = "down"]
  /\ handler' = [handler EXCEPT ![h] = "idle"]
  /\ scan' = [scan EXCEPT ![h] = Resting]
  /\ \/ UNCHANGED queue
     \/ handler[h] # "idle" /\ queue' = [queue EXCEPT ![h] = Tail(@)]
  /\ UNCHANGED <<docs, born, tmux>>

\* _backfill_legacy_host_id, then reconcile_stale_sessions_on_startup.
Claimed(h) == {IF d.host = NoHost THEN [d EXCEPT !.host = h] ELSE d : d \in docs}

Restart(h) ==
  /\ worker[h] = "down"
  /\ \A d \in docs : d.host = NoHost => ~Collides([d EXCEPT !.host = h])
  /\ worker' = [worker EXCEPT ![h] = "up"]
  /\ docs' = {IF d.host = h /\ tmux[h][d.name] = "none" THEN [d EXCEPT !.status = "stopped"] ELSE d
               : d \in Claimed(h)}
  /\ UNCHANGED <<born, tmux, queue, handler, scan, spent>>

AgentUp(h, n) ==
  /\ tmux[h][n] = "starting"
  /\ Pane(h, n, "agent")
  /\ UNCHANGED <<docs, born, queue, handler, scan, worker, spent>>

\* Somebody at the host opens a session, closes it or leaves its agent.
ByHand(h, n) ==
  /\ spent.byHand < MaxByHand
  /\ spent' = [spent EXCEPT !.byHand = @ + 1]
  /\ n \in NamesOf[h]
  /\ \/ tmux[h][n] = "none" /\ Pane(h, n, "agent")
     \/ tmux[h][n] # "none" /\ Pane(h, n, "none")
     \/ tmux[h][n] = "agent" /\ Pane(h, n, "shell")
  /\ UNCHANGED <<docs, born, queue, handler, scan, worker>>

Next ==
  \/ Client
  \/ \E h \in Hosts : Handle(h) \/ Scan(h) \/ Crash(h) \/ Restart(h)
  \/ \E h \in Hosts, n \in Names : AgentUp(h, n) \/ ByHand(h, n)

Spec == Init /\ [][Next]_vars

\* A worker that runs keeps consuming and scanning; one that died is started
\* again by run's loop or by its supervisor.
FairSpec ==
  /\ Spec
  /\ \A h \in Hosts : WF_vars(Handle(h)) /\ WF_vars(Scan(h)) /\ WF_vars(Restart(h))

----------------------------------------------------------------------------
(* What must hold. *)

\* With one host and no renames, create, resume and discovery, each with an
\* upsert of its own, never leave two documents for one session.
OneDocument == \A d, e \in docs : d.name = e.name => d = e

\* Documents and commands of a host bear the names that are used there.  A worker
\* that restarts claims every document without a host, and with the document that
\* a resume of another host left it claims a name of that host.
InOrder ==
  /\ \A d \in docs : d.host # NoHost => d.name \in NamesOf[d.host]
  /\ \A h \in Hosts : \A i \in DOMAIN queue[h] :
       {queue[h][i].name, queue[h][i].new} \subseteq NamesOf[h]

\* Until then, a worker's tasks write only documents of its host (or of no host),
\* though their queries name no host: hosts have sessions of different names.
OwnDocsOnly ==
  [][InOrder => \A h \in Hosts : handler'[h] # handler[h] \/ scan'[h] # scan[h] =>
       \A d \in docs : d.host \notin {h, NoHost} => d \in docs']_vars

\* In the end the active documents of a host are the sessions its tmux has,
\* unless a resume left a document without host: no cycle stops that one.
Agree == \A h \in Hosts, n \in Names :
           tmux[h][n] # "none" <=> \E d \in Here(h, n) : d.status = "active"
DocsAgree == <>[](Agree \/ \E d \in docs : d.host = NoHost)

\* In the end no worker is rebuilt any more.
WorkersSettle == <>[](\A h \in Hosts : worker[h] = "up")

\* Both: documents end up telling what tmux has, to workers that are there.
DocsFollowTmux == DocsAgree /\ WorkersSettle

\* A kill or a delete that was published reaches tmux: it leaves the queue, and
\* with its session gone, unless tmux refused to kill it or the worker was cancelled
\* while it read the document of the session to delete.  (What such a session has
\* left alive, DocsFollowTmux shows again.)
Ending(h, n) == \E i \in 1..Len(queue[h]) :
  /\ queue[h][i].type \in {"kill", "delete"} /\ queue[h][i].name = n
  /\ i = 1 => handler[h] \in {"idle", "delete_read"}
Refused(h) == handler'[h] # handler[h] /\ spent'.refusals > spent.refusals
Cancelled(h) == handler[h] = "delete_read" /\ worker'[h] = "down"
KillIsDone ==
  [][\A h \in Hosts, n \in Names :
       Ending(h, n) /\ ~Ending(h, n)' => tmux'[h][n] = "none" \/ Refused(h) \/ Cancelled(h)]_vars
KillReaches == KillIsDone /\ \A h \in Hosts, n \in Names : []<>~Ending(h, n)
=============================================================================
