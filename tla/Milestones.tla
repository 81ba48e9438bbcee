----------------------------- MODULE Milestones -----------------------------
(***************************************************************************)
(* The milestones of a session: a file that its agent writes, mirrored     *)
(* into the collection tasks by a loop of the worker.                      *)
(*                                                                         *)
(* Every six seconds the loop reads the file, upserts one task after the   *)
(* other, removes those that are not in the file, and announces the ones   *)
(* that became done.  A user may delete a task: the API removes it from    *)
(* the collection and publishes delete_task, for the worker to take it out *)
(* of the file, but with no host: the key it goes by, without the suffix   *)
(* of a host, is bound to no queue, and nobody gets the command.           *)
(*                                                                         *)
(* Titles, epics, the description and the file that sessions of a folder   *)
(* share are left out; todo and doing are one state.                       *)
(***************************************************************************)
EXTENDS Naturals, FiniteSets

CONSTANTS
  Marks,
  MaxWrites,   \* writes of the agent
  MaxDeletes,  \* tasks deleted by a user
  MaxFaults    \* crashes, and passes that an error of Mongo ends

VARIABLES
  file,     \* the state of each milestone in the file
  tasks,    \* and in the collection
  sync,     \* where the loop is, what it read, what is left, what became done
  told,     \* announcements of each milestone
  dones,    \* times that each came to be done in the file
  spent

vars == <<file, tasks, sync, told, dones, spent>>

States == {"absent", "todo", "done"}
Nothing == [m \in Marks |-> "absent"]
Asleep == [at |-> "asleep", items |-> Nothing, left |-> {}, newly |-> {}]

TypeOK ==
  /\ file \in [Marks -> States] /\ tasks \in [Marks -> States]
  /\ sync \in [at : {"asleep", "upsert", "tell"}, items : [Marks -> States],
               left : SUBSET Marks, newly : SUBSET Marks]
  /\ told \in [Marks -> Nat] /\ dones \in [Marks -> 0..MaxWrites]
  /\ spent \in [writes : 0..MaxWrites, deletes : 0..MaxDeletes, faults : 0..MaxFaults]

Init ==
  /\ file = Nothing /\ tasks = Nothing
  /\ sync = Asleep
  /\ told = [m \in Marks |-> 0] /\ dones = [m \in Marks |-> 0]
  /\ spent = [writes |-> 0, deletes |-> 0, faults |-> 0]

AgentWrites ==
  /\ spent.writes < MaxWrites
  /\ spent' = [spent EXCEPT !.writes = @ + 1]
  /\ \E m \in Marks, s \in States :
       /\ file[m] # s
       /\ file' = [file EXCEPT ![m] = s]
       /\ dones' = [dones EXCEPT ![m] = IF s = "done" THEN @ + 1 ELSE @]
  /\ UNCHANGED <<tasks, sync, told>>

(***************************************************************************)
(* sync_session, and the rest of a pass of milestones_loop                 *)
(***************************************************************************)
SyncReads ==
  /\ sync.at = "asleep"
  /\ sync' = [at |-> "upsert", items |-> file, newly |-> {},
              left |-> {m \in Marks : file[m] # "absent"}]
  /\ UNCHANGED <<file, tasks, told, dones, spent>>

Upserted_Once(m) == IF tasks[m] = "absent" THEN sync.items[m] ELSE tasks[m]
Upserted(m) == sync.items[m]

\* A task that is there and not done becomes done: it is to be announced, but
\* not one that is first seen done.
SyncUpserts(m) ==
  /\ sync.at = "upsert" /\ m \in sync.left
  /\ tasks' = [tasks EXCEPT ![m] = Upserted(m)]
  /\ sync' = [sync EXCEPT !.left = @ \ {m},
                         !.newly = IF tasks[m] = "todo" /\ sync.items[m] = "done"
                                   THEN @ \cup {m} ELSE @]
  /\ UNCHANGED <<file, told, dones, spent>>

SyncPrunes_Nothing ==
  /\ sync.at = "upsert" /\ sync.left = {}
  /\ sync' = [sync EXCEPT !.at = "tell"]
  /\ UNCHANGED <<file, tasks, told, dones, spent>>

SyncPrunes ==
  /\ sync.at = "upsert" /\ sync.left = {}
  /\ tasks' = [m \in Marks |-> IF sync.items[m] = "absent" THEN "absent" ELSE tasks[m]]
  /\ sync' = [sync EXCEPT !.at = "tell"]
  /\ UNCHANGED <<file, told, dones, spent>>

\* An event for each, or one for the list that was closed.
SyncTells ==
  /\ sync.at = "tell"
  /\ told' = [m \in Marks |-> IF m \in sync.newly THEN told[m] + 1 ELSE told[m]]
  /\ sync' = Asleep
  /\ UNCHANGED <<file, tasks, dones, spent>>

\* delete_task of the API.
ApiDeletesTask(m) ==
  /\ tasks[m] # "absent"
  /\ spent.deletes < MaxDeletes
  /\ spent' = [spent EXCEPT !.deletes = @ + 1]
  /\ tasks' = [tasks EXCEPT ![m] = "absent"]
  /\ UNCHANGED <<file, sync, told, dones>>

\* An error, or a crash, ends the pass of the session.
Fault ==
  /\ spent.faults < MaxFaults
  /\ spent' = [spent EXCEPT !.faults = @ + 1]
  /\ sync' = Asleep
  /\ UNCHANGED <<file, tasks, told, dones>>

Sync == SyncReads \/ (\E m \in Marks : SyncUpserts(m)) \/ SyncPrunes \/ SyncTells
Next == AgentWrites \/ Sync \/ (\E m \in Marks : ApiDeletesTask(m)) \/ Fault
Spec == Init /\ [][Next]_vars
Fairness == WF_vars(Sync)
FairSpec == Spec /\ Fairness

\* "só dispara na transição, nunca em ciclo repetido": a milestone is announced
\* no more often than it came to be done.
ToldOncePerDone == \A m \in Marks : told[m] <= dones[m]

\* When agent and users have stopped, the tasks come to be the file and stay so,
\* though passes, deletions and writes of the agent overlapped.
TasksMirrorFile == <>[](tasks = file)

\* What a user sees and hears of the milestones is what the agent wrote.
MilestonesShow == []ToldOncePerDone /\ TasksMirrorFile
=============================================================================
