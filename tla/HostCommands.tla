---------------------------- MODULE HostCommands ----------------------------
(***************************************************************************)
(* Requests that a host answers: fs_op, fs_fetch and gpu_service.          *)
(*                                                                         *)
(* The API checks that the host's worker sent a heartbeat lately, queues   *)
(* the command and returns its id.  The worker carries it out, in a thread *)
(* of the executor, and stores the answer under the id.  The caller, a     *)
(* tool of the MCP server or the command line, asks for the answer until   *)
(* it is there or half a minute has passed.  A copy between two sessions   *)
(* is a read and, with what was read, a write.                             *)
(*                                                                         *)
(* One host and its files, of which only which are there is kept: what an  *)
(* operation answers depends on no more.  list is a read, mkdir a write.   *)
(***************************************************************************)
EXTENDS Naturals, Sequences

CONSTANTS
  Callers,
  Paths,
  MaxCommands,
  MaxFaults     \* crashes and errors that nothing catches

VARIABLES
  files,     \* the paths that are there
  queue,     \* the commands of the host, the first of them being handled
  work,      \* what the worker does with it, and the answer it has
  processed, \* command ids that this consumer handled
  results,   \* command_results
  calls,     \* what each caller waits for
  beat,      \* whether the last heartbeat is younger than five minutes
  lost,      \* commands that an error took from the queue
  spent

vars == <<files, queue, work, processed, results, calls, beat, lost, spent>>

Commands == 1..MaxCommands
NoCall == [id |-> 0, dest |-> "nowhere"]
Ops == {"read", "fetch", "write", "copy", "delete"}
Answers == {"none", "ok", "error"}

TypeOK ==
  /\ files \subseteq Paths
  /\ queue \in Seq([id : Commands, op : Ops, path : Paths, dest : Paths])
  /\ work \in [at : {"down", "idle", "taken", "ran", "answered"}, answer : Answers]
  /\ processed \subseteq Commands /\ lost \subseteq Commands
  /\ results \in [Commands -> Answers]
  /\ calls \in [Callers -> [id : 0..spent.commands, dest : Paths \cup {"nowhere"}]]
  /\ beat \in BOOLEAN
  /\ spent \in [commands : 0..MaxCommands, faults : 0..MaxFaults]

Idle == [at |-> "idle", answer |-> "none"]
Down == [at |-> "down", answer |-> "none"]

Init ==
  /\ files \in SUBSET Paths
  /\ queue = <<>> /\ work = Idle
  /\ processed = {} /\ lost = {}
  /\ results = [i \in Commands |-> "none"]
  /\ calls = [c \in Callers |-> NoCall]
  /\ beat = TRUE
  /\ spent = [commands |-> 0, faults |-> 0]

(***************************************************************************)
(* Callers.                                                                *)
(***************************************************************************)
\* session_fs: nothing is queued for a host whose heartbeat is old.
Post(c, op, path, dest, copyTo) ==
  /\ beat
  /\ spent.commands < MaxCommands
  /\ LET id == spent.commands + 1
     IN  /\ queue' = Append(queue, [id |-> id, op |-> op, path |-> path, dest |-> dest])
         /\ calls' = [calls EXCEPT ![c] = [id |-> id, dest |-> copyTo]]
         /\ spent' = [spent EXCEPT !.commands = id]

\* post_fetch asks a host, not a session, for one file.
PostFetch(c, path) == Post(c, "fetch", path, path, "nowhere")

\* The tools fetch_file and fs, and the first half of copy_between_sessions.
Request(c) ==
  /\ calls[c] = NoCall
  /\ \/ \E path \in Paths : PostFetch(c, path)
     \/ \E op \in Ops \ {"fetch", "copy"}, path \in Paths :
          Post(c, op, path, path, "nowhere")
     \/ \E path, dest \in Paths : Post(c, "copy", path, dest, "nowhere")
     \/ \E path, dest \in Paths : Post(c, "read", path, path, dest)
  /\ UNCHANGED <<files, work, processed, results, beat, lost>>

Waits(c) == calls[c].id # 0
Said(c) == results[calls[c].id]

\* _poll_command.  What was read is written, if the host still beats.
PollAnswered(c) ==
  /\ Waits(c) /\ Said(c) # "none"
  /\ IF Said(c) = "ok" /\ calls[c].dest # "nowhere" /\ beat /\ spent.commands < MaxCommands
     THEN Post(c, "write", calls[c].dest, calls[c].dest, "nowhere")
     ELSE calls' = [calls EXCEPT ![c] = NoCall] /\ UNCHANGED <<queue, spent>>
  /\ UNCHANGED <<files, work, processed, results, beat, lost>>

PollTimesOut(c) ==
  /\ Waits(c)
  /\ calls' = [calls EXCEPT ![c] = NoCall]
  /\ UNCHANGED <<files, queue, work, processed, results, beat, lost, spent>>

(***************************************************************************)
(* The worker: handle, _handle_fs_op and its operations.                   *)
(***************************************************************************)
Cmd == Head(queue)

\* What an operation leaves in the files, and its answer.
Outcome(there, said) == files' = there /\ work' = [at |-> "ran", answer |-> said]

FsRead(cmd) == cmd.op = "read" /\ cmd.path \in files /\ Outcome(files, "ok")

\* _fs_fetch_read: absolute, under the home or /tmp, and cut at 1 MiB; any error
\* of the disk is an answer.
FsFetch(cmd) == cmd.op = "fetch" /\ cmd.path \in files /\ Outcome(files, "ok")

\* An error of the disk may come when the file is already made.
FsWrite(cmd) ==
  /\ cmd.op = "write"
  /\ \E said \in {"ok", "error"} : Outcome(files \cup {cmd.path}, said)

\* _fs_copy writes over nothing; of a tree it may leave a part.
FsCopy(cmd) ==
  /\ cmd.op = "copy" /\ cmd.path \in files /\ cmd.dest \notin files
  /\ \E said \in {"ok", "error"} : Outcome(files \cup {cmd.dest}, said)

FsDelete(cmd) ==
  /\ cmd.op = "delete" /\ cmd.path \in files
  /\ Outcome(files \ {cmd.path}, "ok")

\* What was handled in this life is acknowledged and not carried out again.
Take ==
  /\ work = Idle /\ queue # <<>>
  /\ IF Cmd.id \in processed THEN queue' = Tail(queue) /\ UNCHANGED work
     ELSE work' = [Idle EXCEPT !.at = "taken"] /\ UNCHANGED queue
  /\ UNCHANGED <<files, processed, results, calls, beat, lost, spent>>

\* Any check of the path or the operation may fail with a CommandError.
Run ==
  /\ work.at = "taken"
  /\ \/ FsRead(Cmd) \/ FsFetch(Cmd) \/ FsWrite(Cmd) \/ FsCopy(Cmd) \/ FsDelete(Cmd)
     \/ Outcome(files, "error")
  /\ UNCHANGED <<queue, processed, results, calls, beat, lost, spent>>

WriteCommandResult_OksOnly ==
  /\ work.at = "ran"
  /\ results' = IF work.answer = "ok" THEN [results EXCEPT ![Cmd.id] = work.answer]
                ELSE results
  /\ work' = [work EXCEPT !.at = "answered"]
  /\ UNCHANGED <<files, queue, processed, calls, beat, lost, spent>>

\* _write_command_result: the last answer stands.
WriteCommandResult ==
  /\ work.at = "ran"
  /\ results' = [results EXCEPT ![Cmd.id] = work.answer]
  /\ work' = [work EXCEPT !.at = "answered"]
  /\ UNCHANGED <<files, queue, processed, calls, beat, lost, spent>>

\* The event, and the acknowledgement.
Ack ==
  /\ work.at = "answered"
  /\ processed' = processed \cup {Cmd.id}
  /\ queue' = Tail(queue)
  /\ work' = Idle
  /\ UNCHANGED <<files, results, calls, beat, lost, spent>>

(***************************************************************************)
(* Faults.                                                                 *)
(***************************************************************************)
Fault ==
  /\ spent.faults < MaxFaults
  /\ spent' = [spent EXCEPT !.faults = @ + 1]

\* An error that is none of those handle catches, of a path that has no home
\* (which fs_fetch catches) or of Mongo: the message is rejected and the worker
\* rebuilt.
Raises ==
  /\ Fault
  /\ work.at = "ran" \/ (work.at = "taken" /\ Cmd.op # "fetch")
  /\ lost' = IF results[Cmd.id] = "none" THEN lost \cup {Cmd.id} ELSE lost
  /\ queue' = Tail(queue)
  /\ work' = Down /\ processed' = {}
  /\ UNCHANGED <<files, results, calls, beat>>

\* The process dies, and what was not acknowledged is delivered again.
Crash ==
  /\ Fault
  /\ work.at # "down"
  /\ work' = Down /\ processed' = {}
  /\ UNCHANGED <<files, queue, results, calls, beat, lost>>

Restart ==
  /\ work.at = "down"
  /\ work' = Idle
  /\ beat' = TRUE
  /\ UNCHANGED <<files, queue, processed, results, calls, lost, spent>>

HeartbeatAges ==
  /\ work.at = "down" /\ beat
  /\ beat' = FALSE
  /\ UNCHANGED <<files, queue, work, processed, results, calls, lost, spent>>

Worker == Take \/ Run \/ WriteCommandResult \/ Ack \/ Restart
Next == \/ \E c \in Callers : Request(c) \/ PollAnswered(c) \/ PollTimesOut(c)
        \/ Worker \/ Raises \/ Crash \/ HeartbeatAges
Spec == Init /\ [][Next]_vars
\* Callers may give up; a worker comes back and goes on.
Fairness == WF_vars(Worker)
FairSpec == Spec /\ Fairness

\* "Todo erro (validação inclusa) também persiste": whatever is asked of a host
\* comes to have an answer, though its worker dies on the way, unless an error
\* that nothing catches took it from the queue.
Answered == \A i \in Commands : []<>(i <= spent.commands => results[i] # "none" \/ i \in lost)
=============================================================================
