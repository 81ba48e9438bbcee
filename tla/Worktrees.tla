------------------------------ MODULE Worktrees ------------------------------
(***************************************************************************)
(* Sessions in a git worktree of their own: a clone of a session, or one   *)
(* delegated with --worktree.                                              *)
(*                                                                         *)
(* The API picks the name of a clone and publishes; the worker of the host *)
(* makes a worktree, named after the session, on a new branch, opens the   *)
(* session in it, and undoes the worktree when that fails.  A purge takes  *)
(* the document away and leaves the session and the worktree to the        *)
(* worker.  A command whose worker dies is delivered again.                *)
(*                                                                         *)
(* One host and one repository; which commit a branch is at, and what git  *)
(* holds that is not of these sessions, are left out.                      *)
(***************************************************************************)
EXTENDS Naturals, Sequences, FiniteSets

CONSTANTS
  Cloners,     \* calls of POST /sessions/{id}/clone, of one session
  MaxRequests, \* requests
  MaxFaults    \* worker crashes, hosts without memory, git and Mongo errors

VARIABLES
  docs,     \* documents: the worktree each records
  tmux,     \* sessions of tmux: "tree" if opened in the worktree of their name
  trees,    \* worktrees, by the name of their session
  branches,
  queue,    \* commands, the first of them being handled
  step,     \* where the worker is with it
  cloners,  \* the name each clone has picked, 0 if none
  spent

vars == <<docs, tmux, trees, branches, queue, step, cloners, spent>>

\* s-clone, s-clone-2 and so on; a clone has the branch of its name, and one
\* more branch is the one that who delegates asks for.
Slugs == 1..Cardinality(Cloners) + 1
Own == 0
Branches == Slugs \cup {Own}
None == "none"
NoCommand == [type |-> None, name |-> 1, branch |-> Own, tree |-> FALSE]

TypeOK ==
  /\ docs \in [Slugs -> {None, "plain", "tree"}]
  /\ tmux \in [Slugs -> {None, "plain", "tree"}]
  /\ trees \subseteq Slugs /\ branches \subseteq Branches
  /\ queue \in Seq([type : {"open", "delete"}, name : Slugs, branch : Branches,
                    tree : BOOLEAN])
  /\ step \in {"down", "idle", "made", "failed", "opened"}
  /\ cloners \in [Cloners -> Slugs \cup {0}]
  /\ spent \in [requests : 0..MaxRequests, faults : 0..MaxFaults]

Init ==
  /\ docs = [n \in Slugs |-> None] /\ tmux = docs
  /\ trees = {} /\ branches = {} /\ queue = <<>> /\ step = "idle"
  /\ cloners = [c \in Cloners |-> 0]
  /\ spent = [requests |-> 0, faults |-> 0]

Request == spent.requests < MaxRequests /\ spent' = [spent EXCEPT !.requests = @ + 1]
Fault == spent.faults < MaxFaults /\ spent' = [spent EXCEPT !.faults = @ + 1]

(***************************************************************************)
(* The API.                                                                *)
(***************************************************************************)
\* _dedupe_name: the first name that no document has.
DedupeName == CHOOSE n \in Slugs : docs[n] = None /\ \A k \in 1..n - 1 : docs[k] # None

CloneNames(c) ==
  /\ cloners[c] = 0
  /\ \E n \in Slugs : docs[n] = None
  /\ Request
  /\ cloners' = [cloners EXCEPT ![c] = DedupeName]
  /\ UNCHANGED <<docs, tmux, trees, branches, queue, step>>

Publish(type, name, branch, tree) ==
  queue' = Append(queue, [type |-> type, name |-> name, branch |-> branch, tree |-> tree])

ClonePublishes(c) ==
  /\ cloners[c] # 0
  /\ Publish("open", cloners[c], cloners[c], FALSE)
  /\ cloners' = [cloners EXCEPT ![c] = 0]
  /\ UNCHANGED <<docs, tmux, trees, branches, step, spent>>

\* create_session with a worktree_branch: the name is not one of a document.
Delegate(n) ==
  /\ docs[n] = None
  /\ Request
  /\ Publish("open", n, Own, FALSE)
  /\ UNCHANGED <<docs, tmux, trees, branches, step, cloners>>

\* purge_session: the worktree of the document travels with the command.
Purge(n) ==
  /\ docs[n] # None
  /\ Request
  /\ Publish("delete", n, Own, docs[n] = "tree")
  /\ docs' = [docs EXCEPT ![n] = None]
  /\ UNCHANGED <<tmux, trees, branches, step, cloners>>

(***************************************************************************)
(* The worker.                                                             *)
(***************************************************************************)
Command == IF queue = <<>> THEN NoCommand ELSE Head(queue)
Handling(type, at) == Command.type = type /\ step = at
Ends == step' = "idle" /\ queue' = Tail(queue)

\* git worktree add -b refuses a branch or a directory that is there; git may
\* fail otherwise, or expire with its work done.
AddTree(n, b) ==
  \/ /\ b \notin branches /\ n \notin trees
     /\ branches' = branches \cup {b} /\ trees' = trees \cup {n}
     /\ step' = "made" /\ UNCHANGED <<queue, spent>>
  \/ /\ b \in branches \/ n \in trees
     /\ Ends /\ UNCHANGED <<branches, trees, spent>>
  \/ /\ b \notin branches /\ n \notin trees
     /\ Fault /\ Ends
     /\ \/ UNCHANGED <<branches, trees>>
        \/ branches' = branches \cup {b} /\ trees' = trees \cup {n}

MakeTree_Guarded ==
  /\ Handling("open", "idle")
  /\ LET n == Command.name  b == Command.branch IN
     IF b \in branches \/ n \in trees
     THEN step' = "failed" /\ UNCHANGED <<branches, trees, queue, spent>>
     ELSE AddTree(n, b)
  /\ UNCHANGED <<docs, tmux, cloners>>
\* _create_in_worktree: without the worktree there is nothing to undo.
MakeTree ==
  /\ Handling("open", "idle")
  /\ AddTree(Command.name, Command.branch)
  /\ UNCHANGED <<docs, tmux, cloners>>

\* _handle_create: a session of that name, or a host without memory, refuses.
OpenSession ==
  LET n == Command.name IN
  /\ Handling("open", "made")
  /\ \/ /\ tmux[n] = None
        /\ tmux' = [tmux EXCEPT ![n] = "tree"]
        /\ docs' = [docs EXCEPT ![n] = IF @ = None THEN "plain" ELSE @]
        /\ step' = "opened" /\ UNCHANGED spent
     \/ /\ tmux[n] # None
        /\ step' = "failed" /\ UNCHANGED <<tmux, docs, spent>>
     \/ /\ tmux[n] = None
        /\ Fault
        /\ step' = "failed" /\ UNCHANGED docs
        /\ tmux' \in {tmux, [tmux EXCEPT ![n] = "tree"]}
  /\ UNCHANGED <<trees, branches, queue, cloners>>

\* remove_worktree (--force) and delete_branch (-D), which tell of no error but
\* the log: a branch that is checked out in a worktree stays.
RemoveTree(n) == trees' = trees \ {n}
DeleteBranch(b, n) ==
  branches' = IF n \in trees' THEN branches ELSE branches \ {b}

\* The rollback: the worktree, and the branch it was made on.
RollBack ==
  LET n == Command.name IN
  /\ Handling("open", "failed")
  /\ \/ RemoveTree(n) /\ DeleteBranch(Command.branch, n) /\ UNCHANGED spent
     \/ /\ Fault
        /\ RemoveTree(n) \/ UNCHANGED trees
        /\ DeleteBranch(Command.branch, n) \/ UNCHANGED branches
  /\ Ends
  /\ UNCHANGED <<docs, tmux, cloners>>

RecordTree ==
  LET n == Command.name IN
  /\ Handling("open", "opened")
  /\ docs' = [docs EXCEPT ![n] = IF @ = None THEN None ELSE "tree"]
  /\ Ends
  /\ UNCHANGED <<tmux, trees, branches, cloners, spent>>

\* _handle_delete: kills the session, removes the worktree, best effort, and the
\* document.
HandleDelete ==
  LET n == Command.name
      hasTree == Command.tree \/ docs[n] = "tree" IN
  /\ Handling("delete", "idle")
  /\ tmux' = [tmux EXCEPT ![n] = None]
  /\ docs' = [docs EXCEPT ![n] = None]
  /\ \/ hasTree /\ RemoveTree(n) /\ UNCHANGED spent
     \/ hasTree /\ Fault /\ UNCHANGED trees
     \/ ~hasTree /\ UNCHANGED <<trees, spent>>
  /\ Ends
  /\ UNCHANGED <<branches, cloners>>

Crash ==
  /\ step # "down"
  /\ Fault
  /\ step' = "down"
  /\ UNCHANGED <<docs, tmux, trees, branches, queue, cloners>>

Restart ==
  /\ step = "down"
  /\ step' = "idle"
  /\ UNCHANGED <<docs, tmux, trees, branches, queue, cloners, spent>>

\* A session of tmux without a document gets one.
DiscoveryAdopts(n) ==
  /\ step # "down" /\ tmux[n] # None /\ docs[n] = None
  /\ docs' = [docs EXCEPT ![n] = "plain"]
  /\ UNCHANGED <<tmux, trees, branches, queue, step, cloners, spent>>

Worker == MakeTree \/ OpenSession \/ RollBack \/ RecordTree \/ HandleDelete \/ Restart
Next == \/ \E c \in Cloners : CloneNames(c) \/ ClonePublishes(c)
        \/ \E n \in Slugs : Delegate(n) \/ Purge(n) \/ DiscoveryAdopts(n)
        \/ Worker \/ Crash

Spec == Init /\ [][Next]_vars

(***************************************************************************)
(* Properties.                                                             *)
(***************************************************************************)
\* Whatever is published twice, delivered again or undone, a session that runs
\* in the worktree its document records has it on disk.
RunsInItsTree ==
  \A n \in Slugs : docs[n] = "tree" /\ tmux[n] = "tree" => n \in trees
=============================================================================
