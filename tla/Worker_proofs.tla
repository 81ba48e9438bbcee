---------------------------- MODULE Worker_proofs ----------------------------
(***************************************************************************)
(* Proofs about the parts of a worker's host: the worktrees of its clones, *)
(* the agent in the terminal of a session and its change of provider, the  *)
(* moves of one, the types of every part, and a shutdown that is kept.     *)
(***************************************************************************)
EXTENDS MCWorker, SessionLifecycle_proofs, FiniteSetTheorems

-----------------------------------------------------------------------------
(* Worktrees. *)

\* An instance has a Cardinality of its own, which is the same.
LEMMA SameCardinality ==
  ASSUME NEW D
  PROVE  W!Cardinality(D) = Cardinality(D) /\ T!Cardinality(D) = Cardinality(D)
BY DEF W!Cardinality, T!Cardinality, Cardinality

LEMMA CloneAssumption == W!Cardinality(Cloners) \in Nat /\ MaxClones \in Nat /\ MaxFaults \in Nat
BY WorkerAssumption, FS_CardinalityType, SameCardinality

TreeCommand == [type : {"open", "delete"}, name : W!Slugs, branch : W!Branches, tree : BOOLEAN]

\* A queue of typed commands, and the one in progress.
LEMMA TreeCommandType ==
  ASSUME w_queue \in Seq(TreeCommand), NEW type \in {"open", "delete"}, NEW at,
         W!Handling(type, at)
  PROVE  /\ w_queue # <<>> /\ W!Command \in TreeCommand
         /\ W!Command.name \in W!Slugs /\ W!Command.branch \in W!Branches
         /\ Tail(w_queue) \in Seq(TreeCommand)
<1>1. w_queue # <<>>
  BY DEF W!Handling, W!Command, W!NoCommand, W!None
<1>2. Head(w_queue) \in TreeCommand /\ Tail(w_queue) \in Seq(TreeCommand)
  BY <1>1
<1>3. W!Command \in TreeCommand
  BY <1>1, <1>2 DEF W!Command
<1> QED BY <1>1, <1>2, <1>3 DEF TreeCommand

\* The first free name is one.
LEMMA DedupeNameType ==
  ASSUME \E n \in W!Slugs : w_docs[n] = W!None
  PROVE  W!DedupeName \in W!Slugs /\ w_docs[W!DedupeName] = W!None
<1> DEFINE Free == {n \in W!Slugs : w_docs[n] = W!None}
<1>1. PICK last \in Nat : W!Slugs = 1..last
  BY CloneAssumption DEF W!Slugs
<1>2. Free \subseteq Nat /\ Free # {}
  BY <1>1 DEF W!None
<1> HIDE DEF Free
<1>3. PICK n \in Free : \A k \in Free : n <= k
  BY <1>2, LeastOfNats
<1> USE DEF Free
<1>4. \A k \in 1..n - 1 : w_docs[k] # W!None
  <2>1. SUFFICES ASSUME NEW k \in 1..n - 1, w_docs[k] = W!None PROVE FALSE
    OBVIOUS
  <2>2. n \in 1..last
    BY <1>1, <1>3
  <2>3. k \in 1..last /\ k < n
    BY <2>1, <2>2
  <2> QED BY <1>1, <1>3, <2>1, <2>2, <2>3
<1> QED BY <1>3, <1>4 DEF W!DedupeName

LEMMA TreeFault ==
  ASSUME w_spent \in [requests : 0..MaxClones, faults : 0..MaxFaults], W!Fault
  PROVE  w_spent' \in [requests : 0..MaxClones, faults : 0..MaxFaults]
BY CloneAssumption DEF W!Fault

LEMMA TreeRequest ==
  ASSUME w_spent \in [requests : 0..MaxClones, faults : 0..MaxFaults], W!Request
  PROVE  w_spent' \in [requests : 0..MaxClones, faults : 0..MaxFaults]
BY CloneAssumption DEF W!Request

LEMMA TreeTypesInit == W!Init => W!TypeOK
BY CloneAssumption DEF W!Init, W!TypeOK, W!None, W!Branches

LEMMA TreeTypesStep == W!TypeOK /\ [W!Next]_(W!vars) => W!TypeOK'
<1> SUFFICES ASSUME W!TypeOK, [W!Next]_(W!vars) PROVE W!TypeOK'
  OBVIOUS
<1> USE CloneAssumption
<1>1. w_queue \in Seq(TreeCommand)
  BY DEF W!TypeOK, TreeCommand
<1>2. CASE UNCHANGED W!vars
  BY <1>2 DEF W!vars, W!TypeOK
<1>3. ASSUME NEW c \in Cloners, W!CloneNames(c) PROVE W!TypeOK'
  <2>1. w_spent' \in [requests : 0..MaxClones, faults : 0..MaxFaults]
    BY <1>3, TreeRequest DEF W!CloneNames, W!TypeOK
  <2> QED BY <1>3, <2>1, DedupeNameType DEF W!CloneNames, W!TypeOK
<1>4. ASSUME NEW c \in Cloners, W!ClonePublishes(c) PROVE W!TypeOK'
  <2>1. w_cloners[c] \in W!Slugs
    BY <1>4 DEF W!ClonePublishes, W!TypeOK
  <2>2. [type |-> "open", name |-> w_cloners[c], branch |-> w_cloners[c], tree |-> FALSE] \in TreeCommand
    BY <2>1 DEF TreeCommand, W!Branches
  <2>3. w_queue' \in Seq(TreeCommand)
    BY <1>1, <1>4, <2>2 DEF W!ClonePublishes, W!Publish
  <2> QED BY <1>4, <2>1, <2>3 DEF W!ClonePublishes, W!TypeOK, TreeCommand
<1>5. ASSUME NEW n \in W!Slugs, W!Delegate(n) PROVE W!TypeOK'
  <2>1. [type |-> "open", name |-> n, branch |-> W!Own, tree |-> FALSE] \in TreeCommand
    BY DEF TreeCommand, W!Branches
  <2>2. w_queue' \in Seq(TreeCommand)
    BY <1>1, <1>5, <2>1 DEF W!Delegate, W!Publish
  <2>3. w_spent' \in [requests : 0..MaxClones, faults : 0..MaxFaults]
    BY <1>5, TreeRequest DEF W!Delegate, W!TypeOK
  <2> QED BY <1>5, <2>2, <2>3 DEF W!Delegate, W!TypeOK, TreeCommand
<1>6. ASSUME NEW n \in W!Slugs, W!Purge(n) PROVE W!TypeOK'
  <2>1. [type |-> "delete", name |-> n, branch |-> W!Own, tree |-> (w_docs[n] = "tree")] \in TreeCommand
    BY DEF TreeCommand, W!Branches
  <2>2. w_queue' \in Seq(TreeCommand)
    BY <1>1, <1>6, <2>1 DEF W!Purge, W!Publish
  <2>3. w_spent' \in [requests : 0..MaxClones, faults : 0..MaxFaults]
    BY <1>6, TreeRequest DEF W!Purge, W!TypeOK
  <2> QED BY <1>6, <2>2, <2>3 DEF W!Purge, W!TypeOK, W!None, TreeCommand
<1>7. ASSUME NEW n \in W!Slugs, W!DiscoveryAdopts(n) PROVE W!TypeOK'
  BY <1>7 DEF W!DiscoveryAdopts, W!TypeOK
<1>8. CASE W!MakeTree
  <2>1. W!Command.name \in W!Slugs /\ W!Command.branch \in W!Branches /\ Tail(w_queue) \in Seq(TreeCommand)
    BY <1>1, <1>8, TreeCommandType DEF W!MakeTree
  <2>2. w_trees' \subseteq W!Slugs /\ w_branches' \subseteq W!Branches
    BY <1>8, <2>1 DEF W!MakeTree, W!AddTree, W!TypeOK
  <2>3. w_queue' \in Seq(TreeCommand) /\ w_step' \in {"idle", "made"}
    BY <1>1, <1>8, <2>1 DEF W!MakeTree, W!AddTree, W!Ends
  <2>4. w_spent' \in [requests : 0..MaxClones, faults : 0..MaxFaults]
    BY <1>8, TreeFault DEF W!MakeTree, W!AddTree, W!TypeOK
  <2> QED BY <1>8, <2>2, <2>3, <2>4 DEF W!MakeTree, W!TypeOK, TreeCommand
<1>9. CASE W!OpenSession
  <2>1. W!Command.name \in W!Slugs
    BY <1>1, <1>9, TreeCommandType DEF W!OpenSession
  <2>2. w_spent' \in [requests : 0..MaxClones, faults : 0..MaxFaults]
    BY <1>9, TreeFault DEF W!OpenSession, W!TypeOK
  <2>3. /\ w_docs' \in [W!Slugs -> {"none", "plain", "tree"}]
        /\ w_tmux' \in [W!Slugs -> {"none", "plain", "tree"}]
    BY <1>9, <2>1 DEF W!OpenSession, W!TypeOK, W!None
  <2>4. w_step' \in {"failed", "opened"} /\ UNCHANGED <<w_trees, w_branches, w_queue, w_cloners>>
    BY <1>9 DEF W!OpenSession
  <2> QED BY <2>2, <2>3, <2>4 DEF W!TypeOK, W!None
<1>10. CASE W!RollBack
  <2>1. Tail(w_queue) \in Seq(TreeCommand)
    BY <1>1, <1>10, TreeCommandType DEF W!RollBack
  <2>2. w_trees' \subseteq W!Slugs /\ w_branches' \subseteq W!Branches
    BY <1>10 DEF W!RollBack, W!RemoveTree, W!DeleteBranch, W!TypeOK
  <2>3. w_spent' \in [requests : 0..MaxClones, faults : 0..MaxFaults]
    BY <1>10, TreeFault DEF W!RollBack, W!TypeOK
  <2> QED BY <1>10, <2>1, <2>2, <2>3 DEF W!RollBack, W!Ends, W!TypeOK, TreeCommand
<1>11. CASE W!RecordTree
  <2>1. Tail(w_queue) \in Seq(TreeCommand)
    BY <1>1, <1>11, TreeCommandType DEF W!RecordTree
  <2> QED BY <1>11, <2>1 DEF W!RecordTree, W!Ends, W!TypeOK, W!None, TreeCommand
<1>12. CASE W!HandleDelete
  <2>1. Tail(w_queue) \in Seq(TreeCommand)
    BY <1>1, <1>12, TreeCommandType DEF W!HandleDelete
  <2>2. w_spent' \in [requests : 0..MaxClones, faults : 0..MaxFaults]
    BY <1>12, TreeFault DEF W!HandleDelete, W!TypeOK
  <2>3. w_trees' \subseteq W!Slugs
    BY <1>12 DEF W!HandleDelete, W!RemoveTree, W!TypeOK
  <2> QED BY <1>12, <2>1, <2>2, <2>3 DEF W!HandleDelete, W!Ends, W!TypeOK, W!None, TreeCommand
<1>13. CASE W!Crash \/ W!Restart
  BY <1>13 DEF W!Crash, W!Restart, W!Fault, W!TypeOK
<1> QED BY <1>2, <1>3, <1>4, <1>5, <1>6, <1>7, <1>8, <1>9, <1>10, <1>11, <1>12, <1>13
    DEF W!Next, W!Worker

\* A document records a worktree only while the worktree is there and the session
\* runs in it, whatever step the worker is at with the command in progress.
TreesHeld ==
  /\ \A n \in W!Slugs : w_docs[n] = "tree" => w_tmux[n] = "tree" /\ n \in w_trees
  /\ w_step \notin {"idle", "down"} => w_queue # <<>> /\ W!Command.type = "open"
  /\ w_step = "made" => W!Command.name \in w_trees /\ w_docs[W!Command.name] # "tree"
  /\ w_step = "failed" => w_docs[W!Command.name] # "tree"
  /\ w_step = "opened" => w_tmux[W!Command.name] = "tree" /\ W!Command.name \in w_trees

LEMMA PublishBehind ==
  ASSUME w_queue \in Seq(TreeCommand), NEW type, NEW n, NEW b, NEW t, W!Publish(type, n, b, t)
  PROVE  w_queue # <<>> => w_queue' # <<>> /\ W!Command' = W!Command
<1> DEFINE c == [type |-> type, name |-> n, branch |-> b, tree |-> t]
<1>1. w_queue' = Append(w_queue, c)
  BY DEF W!Publish
<1> HIDE DEF c
<1>2. w_queue # <<>> => Append(w_queue, c) # <<>> /\ Head(Append(w_queue, c)) = Head(w_queue)
  OBVIOUS
<1> QED BY <1>1, <1>2 DEF W!Command

LEMMA TreesHeldInit == W!Init => TreesHeld
BY DEF W!Init, TreesHeld, W!None

LEMMA TreesHeldStep == W!TypeOK /\ TreesHeld /\ [W!Next]_(W!vars) => TreesHeld'
<1> SUFFICES ASSUME W!TypeOK, TreesHeld, [W!Next]_(W!vars) PROVE TreesHeld'
  OBVIOUS
<1>1. w_queue \in Seq(TreeCommand)
  BY DEF W!TypeOK, TreeCommand
<1>2. /\ w_docs \in [W!Slugs -> {"none", "plain", "tree"}]
      /\ w_tmux \in [W!Slugs -> {"none", "plain", "tree"}]
  BY DEF W!TypeOK, W!None
<1>3. CASE UNCHANGED W!vars
  BY <1>3 DEF W!vars, TreesHeld, W!Command
<1>4. ASSUME NEW c \in Cloners, W!CloneNames(c) PROVE TreesHeld'
  BY <1>4 DEF W!CloneNames, TreesHeld, W!Command
<1>5. ASSUME NEW c \in Cloners, W!ClonePublishes(c) PROVE TreesHeld'
  <2>1. w_queue # <<>> => w_queue' # <<>> /\ W!Command' = W!Command
    BY <1>1, <1>5, PublishBehind DEF W!ClonePublishes
  <2> QED BY <1>5, <2>1 DEF W!ClonePublishes, TreesHeld
<1>6. ASSUME NEW n \in W!Slugs, W!Delegate(n) PROVE TreesHeld'
  <2>1. w_queue # <<>> => w_queue' # <<>> /\ W!Command' = W!Command
    BY <1>1, <1>6, PublishBehind DEF W!Delegate
  <2> QED BY <1>6, <2>1 DEF W!Delegate, TreesHeld
<1>7. ASSUME NEW n \in W!Slugs, W!Purge(n) PROVE TreesHeld'
  <2>1. w_queue # <<>> => w_queue' # <<>> /\ W!Command' = W!Command
    BY <1>1, <1>7, PublishBehind DEF W!Purge
  <2>2. \A k : w_docs'[k] = "tree" => w_docs[k] = "tree"
    BY <1>2, <1>7 DEF W!Purge, W!None
  <2> QED BY <1>7, <2>1, <2>2 DEF W!Purge, TreesHeld
<1>8. ASSUME NEW n \in W!Slugs, W!DiscoveryAdopts(n) PROVE TreesHeld'
  <2>1. \A k : w_docs'[k] = "tree" => w_docs[k] = "tree"
    BY <1>2, <1>8 DEF W!DiscoveryAdopts
  <2> QED BY <1>8, <2>1 DEF W!DiscoveryAdopts, TreesHeld, W!Command
<1>9. CASE W!MakeTree
  <2>1. W!Command.name \in W!Slugs /\ w_queue # <<>> /\ W!Command.type = "open"
    BY <1>1, <1>9, TreeCommandType DEF W!MakeTree, W!Handling
  <2>2. w_trees \subseteq w_trees' /\ UNCHANGED <<w_docs, w_tmux>>
    BY <1>9 DEF W!MakeTree, W!AddTree
  <2>3. \/ w_step' = "idle"
        \/ /\ w_step' = "made" /\ UNCHANGED w_queue
           /\ W!Command.name \notin w_trees /\ W!Command.name \in w_trees'
    BY <1>9 DEF W!MakeTree, W!AddTree, W!Ends
  <2>4. UNCHANGED w_queue => W!Command' = W!Command
    BY DEF W!Command
  <2> QED BY <2>1, <2>2, <2>3, <2>4 DEF TreesHeld
<1>10. CASE W!OpenSession
  <2>1. W!Command.name \in W!Slugs /\ w_queue # <<>> /\ W!Command.type = "open" /\ w_step = "made"
    BY <1>1, <1>10, TreeCommandType DEF W!OpenSession, W!Handling
  <2>2. W!Command' = W!Command /\ w_queue' # <<>> /\ w_trees' = w_trees
    BY <1>10, <2>1 DEF W!OpenSession, W!Command
  <2>3. \A k \in W!Slugs : w_docs'[k] = "tree" => w_docs[k] = "tree" /\ k # W!Command.name
    <3>1. w_docs[W!Command.name] # "tree"
      BY <2>1 DEF TreesHeld
    <3>2. \/ w_docs' = w_docs
          \/ w_docs' = [w_docs EXCEPT ![W!Command.name] = IF @ = "none" THEN "plain" ELSE @]
      BY <1>10 DEF W!OpenSession, W!None
    <3> QED BY <1>2, <3>1, <3>2
  <2>4. \A k \in W!Slugs \ {W!Command.name} : w_tmux'[k] = w_tmux[k]
    BY <1>2, <1>10 DEF W!OpenSession
  <2>5. w_step' = "failed" \/ (w_step' = "opened" /\ w_tmux'[W!Command.name] = "tree")
    BY <1>2, <1>10, <2>1 DEF W!OpenSession
  <2> QED BY <2>1, <2>2, <2>3, <2>4, <2>5 DEF TreesHeld
<1>11. CASE W!RollBack
  <2>1. w_step = "failed" /\ w_step' = "idle" /\ UNCHANGED <<w_docs, w_tmux>>
    BY <1>11 DEF W!RollBack, W!Handling, W!Ends
  <2>2. w_trees' = w_trees \/ w_trees' = w_trees \ {W!Command.name}
    BY <1>11 DEF W!RollBack, W!RemoveTree
  <2> QED BY <2>1, <2>2 DEF TreesHeld
<1>12. CASE W!RecordTree
  <2>1. w_step = "opened" /\ w_step' = "idle" /\ UNCHANGED <<w_trees, w_tmux>>
    BY <1>12 DEF W!RecordTree, W!Handling, W!Ends
  <2>2. \A k : w_docs'[k] = "tree" => w_docs[k] = "tree" \/ k = W!Command.name
    BY <1>2, <1>12 DEF W!RecordTree, W!None
  <2> QED BY <2>1, <2>2 DEF TreesHeld
<1>13. CASE W!HandleDelete
  <2>1. w_step' = "idle" /\ w_trees \ {W!Command.name} \subseteq w_trees'
    BY <1>13 DEF W!HandleDelete, W!Ends, W!RemoveTree
  <2>2. \A k \in W!Slugs : w_docs'[k] = "tree" => /\ w_docs[k] = "tree" /\ k # W!Command.name
                                                  /\ w_tmux'[k] = w_tmux[k]
    BY <1>2, <1>13 DEF W!HandleDelete, W!None
  <2> QED BY <2>1, <2>2 DEF TreesHeld
<1>14. CASE W!Crash \/ W!Restart
  BY <1>14 DEF W!Crash, W!Restart, TreesHeld
<1> QED BY <1>3, <1>4, <1>5, <1>6, <1>7, <1>8, <1>9, <1>10, <1>11, <1>12, <1>13, <1>14
    DEF W!Next, W!Worker

\* A step of the host is one of the part or none.
LEMMA TreeSteps == [Nexts]_all => [W!Next]_(W!vars)
BY DEF Nexts, all, worktreesVars, W!vars, Life, Moves, Terminal, Worktrees, Supervision, Gpu,
   Power, Of

\* However clones, delegations, purges, faults of git and redelivered commands
\* interleave, a session that runs in the worktree its document records has it.
THEOREM ClonesRunInTheirTree == Behaviour => []RunsInItsTree
<1>1. Inits => W!Init
  BY DEF Inits
<1>2. TreesHeld => RunsInItsTree
  BY DEF TreesHeld, RunsInItsTree, W!RunsInItsTree
<1> QED BY <1>1, <1>2, TreeTypesInit, TreeTypesStep, TreesHeldInit, TreesHeldStep, TreeSteps, PTL
    DEF Behaviour

-----------------------------------------------------------------------------
(* The terminal of a session. *)

Ids == 0..(1 + MaxCommands)
TypingSteps == {"off", "start", "launch", "ready", "text", "done", "failed"}
Typings == [at : TypingSteps, read : [agent : Providers, id : Ids]]
FlowSteps == {"off", "ask", "stop", "launch", "record", "ready", "context", "end"}

TypingOK == t_typing \in [T!Typists -> Typings]
FlowOK == t_flow \in [at : FlowSteps, to : Providers, from : Ids]
TDocOK == t_doc \in [agent : Providers, conversation : Ids, switching : BOOLEAN]
TRestOK ==
  /\ t_pane \in T!Programs
  /\ t_seen \in Providers \cup {"nothing", "unknown"}
  /\ t_conversations \subseteq 1..(1 + MaxCommands)
TSpentOK ==
  t_spent \in [commands : 0..MaxCommands, losses : 0..MaxLosses, crashes : 0..MaxCrashes]

LEMMA TerminalParts == T!TypeOK <=> TypingOK /\ FlowOK /\ TDocOK /\ TRestOK /\ TSpentOK
BY DEF T!TypeOK, TypingOK, FlowOK, TDocOK, TRestOK, TSpentOK, Typings, TypingSteps, FlowSteps, Ids

LEMMA TerminalAssumption ==
  /\ MaxCommands \in Nat /\ MaxLosses \in Nat /\ MaxCrashes \in Nat
  /\ Claude \in Providers
  /\ 0 \in Ids /\ Ids \subseteq Nat /\ Ids \ {0} \subseteq 1..(1 + MaxCommands)
BY WorkerAssumption DEF Ids

\* A typist that goes on, with nothing read.
LEMMA AtType ==
  ASSUME TypingOK, NEW t, NEW at \in TypingSteps, t_typing' = T!At(t, at)
  PROVE  /\ TypingOK'
         /\ \A u \in T!Typists : t_typing'[u] = t_typing[u] \/ t_typing'[u].read.id = 0
<1> DEFINE r == [T!Still EXCEPT !.at = at]
<1>1. r \in Typings /\ r.read.id = 0
  BY TerminalAssumption DEF T!Still, T!NoRead, Typings
<1>2. t_typing' = [t_typing EXCEPT ![t] = r]
  BY DEF T!At
<1> HIDE DEF r
<1> QED BY <1>1, <1>2 DEF TypingOK

\* What a launch may add to the conversations.
LEMMA LaunchType ==
  ASSUME TRestOK, NEW agent \in Providers, NEW id \in Ids, T!Launch(agent, id)
  PROVE  /\ t_pane' \in T!Programs
         /\ t_conversations' \subseteq 1..(1 + MaxCommands)
         /\ \/ t_conversations' = t_conversations
            \/ agent = Claude /\ id # 0 /\ t_conversations' = t_conversations \cup {id}
<1>1. [prog |-> "boot", who |-> agent] \in T!Programs
  BY DEF T!Programs
<1> QED BY <1>1, TerminalAssumption DEF T!Launch, TRestOK

LEMMA TerminalInit == T!Init => T!TypeOK
<1> SUFFICES ASSUME T!Init PROVE T!TypeOK
  OBVIOUS
<1>1. PICK a \in Providers, p \in {"none", "agent"} :
        /\ t_pane = IF p = "none" THEN T!Gone ELSE [prog |-> "agent", who |-> a]
        /\ t_doc = [agent |-> a, conversation |-> IF a = Claude THEN 1 ELSE 0,
                    switching |-> FALSE]
        /\ t_conversations = IF a = Claude THEN {1} ELSE {}
  BY DEF T!Init
<1>2. TRestOK
  BY <1>1, TerminalAssumption DEF T!Init, TRestOK, T!Programs, T!Gone
<1>3. TDocOK
  BY <1>1, TerminalAssumption DEF TDocOK, Ids
<1>4. TypingOK
  BY TerminalAssumption DEF T!Init, TypingOK, Typings, TypingSteps, T!Still, T!NoRead
<1>5. FlowOK /\ TSpentOK
  BY TerminalAssumption DEF T!Init, FlowOK, FlowSteps, T!NoFlow, TSpentOK
<1> QED BY <1>2, <1>3, <1>4, <1>5, TerminalParts

LEMMA TerminalCommands ==
  ASSUME T!TypeOK, T!Command
  PROVE  T!TypeOK'
<1>1. TypingOK /\ FlowOK /\ TDocOK /\ TRestOK /\ TSpentOK
  BY TerminalParts
<1>2. TSpentOK'
  BY <1>1, TerminalAssumption DEF TSpentOK, T!Command, T!HandleText, T!HandleInputStopped,
     T!HandleKill, T!HandleSwitchAgent, T!HandleResume, T!NextCommand
<1>3. TypingOK'
  <2>1. UNCHANGED t_typing \/ \E t, at : at \in TypingSteps /\ t_typing' = T!At(t, at)
    BY Zenon DEF T!Command, T!HandleText, T!HandleInputStopped, T!HandleKill, T!HandleSwitchAgent,
       T!HandleResume, TypingSteps
  <2> QED BY <1>1, <2>1, AtType DEF TypingOK
<1>4. TRestOK'
  BY <1>1, TerminalAssumption DEF T!Command, T!HandleText, T!HandleInputStopped, T!HandleKill,
     T!HandleSwitchAgent, T!HandleResume, TRestOK, T!Programs, T!Gone
<1>5. CASE T!HandleSwitchAgent
  <2>1. FlowOK'
    BY <1>1, <1>5 DEF T!HandleSwitchAgent, FlowOK, FlowSteps, TDocOK
  <2>2. TDocOK'
    BY <1>1, <1>5 DEF T!HandleSwitchAgent, TDocOK
  <2> QED BY <1>2, <1>3, <1>4, <2>1, <2>2, TerminalParts, PTL
<1>6. CASE UNCHANGED <<t_flow, t_doc>>
  <2>1. FlowOK' /\ TDocOK'
    BY <1>1, <1>6 DEF FlowOK, TDocOK
  <2> QED BY <1>2, <1>3, <1>4, <2>1, TerminalParts, PTL
<1> QED BY <1>5, <1>6 DEF T!Command, T!HandleText, T!HandleInputStopped, T!HandleKill, T!HandleResume

\* The typists: the consumer, the change of provider and the wakers.
LEMMA TerminalTypists ==
  ASSUME T!TypeOK, NEW t \in T!Typists,
         T!Types(t) \/ T!HandlerEnds \/ T!WakerTypes(t) \/ T!WakerEnds(t)
  PROVE  T!TypeOK'
<1>1. TypingOK /\ FlowOK /\ TDocOK /\ TRestOK /\ TSpentOK
  BY TerminalParts
<1>2. UNCHANGED <<t_doc, t_flow, t_spent, t_seen>>
  BY DEF T!Types, T!HandlerEnds, T!WakerTypes, T!WakerEnds, T!TypeAndSubmit, T!RelaunchOpens,
         T!RelaunchTypes
<1>3. FlowOK' /\ TDocOK' /\ TSpentOK'
  BY <1>1, <1>2 DEF FlowOK, TDocOK, TSpentOK
<1>4. CASE T!TypeAndSubmit(t) \/ T!HandlerEnds \/ T!WakerTypes(t) \/ T!WakerEnds(t)
  <2>1. \E u, at : at \in TypingSteps /\ t_typing' = T!At(u, at)
    BY <1>4 DEF T!HandlerEnds, T!WakerTypes, T!WakerEnds, T!TypeAndSubmit, TypingSteps
  <2>2. TRestOK'
    BY <1>1, <1>4 DEF T!HandlerEnds, T!WakerTypes, T!WakerEnds, T!TypeAndSubmit, TRestOK
  <2>3. TypingOK'
    BY <1>1, <2>1, AtType
  <2> QED BY <1>3, <2>2, <2>3, TerminalParts, PTL
<1>5. CASE T!RelaunchOpens(t)
  <2> DEFINE r == [at |-> "launch",
                   read |-> [agent |-> t_doc.agent,
                             id |-> IF t_doc.agent = Claude THEN t_doc.conversation ELSE 0]]
  <2>1. r \in Typings
    BY <1>1, TerminalAssumption DEF Typings, TypingSteps, TDocOK
  <2>2. t_typing' = [t_typing EXCEPT ![t] = r]
    BY <1>5 DEF T!RelaunchOpens
  <2> HIDE DEF r
  <2>3. TypingOK'
    BY <1>1, <2>1, <2>2 DEF TypingOK
  <2>4. TRestOK'
    BY <1>1, <1>5, TerminalAssumption DEF T!RelaunchOpens, TRestOK, T!Programs, T!Shell
  <2> QED BY <1>3, <2>3, <2>4, TerminalParts, PTL
<1>6. CASE T!RelaunchTypes(t)
  <2>1. t_typing[t].read.agent \in Providers /\ t_typing[t].read.id \in Ids
    BY <1>1 DEF TypingOK, Typings
  <2>2. TRestOK'
    BY <1>1, <1>6, <2>1, LaunchType DEF T!RelaunchTypes, TRestOK
  <2>3. \E at \in TypingSteps : t_typing' = T!At(t, at)
    BY <1>6 DEF T!RelaunchTypes, TypingSteps
  <2>4. TypingOK'
    BY <1>1, <2>3, AtType
  <2> QED BY <1>3, <2>2, <2>4, TerminalParts, PTL
<1> QED BY <1>4, <1>5, <1>6 DEF T!Types

LEMMA ConversationForType ==
  ASSUME FlowOK, TSpentOK
  PROVE  T!ConversationFor(t_flow.to, t_flow.from) \in Ids
BY TerminalAssumption DEF T!ConversationFor, FlowOK, TSpentOK, Ids

LEMMA TerminalFlow ==
  ASSUME T!TypeOK, T!Flow, ~T!Types("switch")
  PROVE  T!TypeOK'
<1>1. TypingOK /\ FlowOK /\ TDocOK /\ TRestOK /\ TSpentOK
  BY TerminalParts
<1>2. TSpentOK' /\ t_seen' = t_seen
  BY <1>1 DEF T!Flow, T!FlowAsked, T!FlowStops, T!FlowAborts, T!FlowLaunches, T!FlowRecords,
     T!FlowTypes, T!FlowTyped, T!FlowEnds, TSpentOK
<1>3. TypingOK'
  <2>1. UNCHANGED t_typing \/ \E t, at : at \in TypingSteps /\ t_typing' = T!At(t, at)
    BY DEF T!Flow, T!FlowAsked, T!FlowStops, T!FlowAborts, T!FlowLaunches, T!FlowRecords,
     T!FlowTypes, T!FlowTyped, T!FlowEnds, TypingSteps
  <2> QED BY <1>1, <2>1, AtType DEF TypingOK
<1>4. FlowOK'
  <2>1. CASE T!FlowLaunches
    BY <1>1, <2>1, ConversationForType DEF T!FlowLaunches, T!FlowAt, FlowOK, FlowSteps
  <2>2. CASE ~T!FlowLaunches
    BY <1>1, <2>2, TerminalAssumption DEF T!Flow, T!FlowAsked, T!FlowStops, T!FlowAborts,
       T!FlowRecords, T!FlowTypes, T!FlowTyped, T!FlowEnds, T!FlowAt, T!NoFlow, FlowOK, FlowSteps
  <2> QED BY <2>1, <2>2
<1>5. TDocOK'
  <2>1. CASE T!FlowRecords
    BY <1>1, <2>1 DEF T!FlowRecords, TDocOK, FlowOK
  <2>2. CASE T!FlowEnds
    BY <1>1, <2>2 DEF T!FlowEnds, TDocOK
  <2>3. CASE UNCHANGED t_doc
    BY <1>1, <2>3 DEF TDocOK
  <2> QED BY <2>1, <2>2, <2>3 DEF T!Flow, T!FlowAsked, T!FlowStops, T!FlowAborts, T!FlowLaunches,
          T!FlowTypes, T!FlowTyped
<1>6. TRestOK'
  <2>1. CASE T!FlowLaunches
    <3>1. t_flow.to \in Providers /\ T!ConversationFor(t_flow.to, t_flow.from) \in Ids
      BY <1>1, ConversationForType DEF FlowOK
    <3> QED BY <1>1, <1>2, <2>1, <3>1, LaunchType DEF T!FlowLaunches, TRestOK
  <2>2. CASE ~T!FlowLaunches
    BY <1>1, <1>2, <2>2, TerminalAssumption DEF T!Flow, T!FlowAsked, T!FlowStops, T!FlowAborts,
       T!FlowRecords, T!FlowTypes, T!FlowTyped, T!FlowEnds, TRestOK, T!Programs, T!Shell
  <2> QED BY <2>1, <2>2
<1> QED BY <1>2, <1>3, <1>4, <1>5, <1>6, TerminalParts, PTL

LEMMA TerminalOthers ==
  ASSUME T!TypeOK, T!Discovery \/ T!AgentUp \/ T!AgentLost \/ T!Crash
  PROVE  T!TypeOK'
<1>1. TypingOK /\ FlowOK /\ TDocOK /\ TRestOK /\ TSpentOK
  BY TerminalParts
<1>2. TypingOK' /\ FlowOK'
  BY <1>1, TerminalAssumption DEF T!Discovery, T!DiscoveryReads, T!DiscoveryWrites, T!AgentUp,
     T!AgentLost, T!Crash, T!Still, T!NoRead, T!NoFlow, TypingOK, Typings, TypingSteps, FlowOK, FlowSteps
<1>3. TSpentOK'
  BY <1>1, TerminalAssumption DEF T!Discovery, T!DiscoveryReads, T!DiscoveryWrites, T!AgentUp,
     T!AgentLost, T!Crash, TSpentOK
<1>4. TRestOK'
  BY <1>1, TerminalAssumption DEF T!Discovery, T!DiscoveryReads, T!DiscoveryWrites, T!AgentUp,
     T!AgentLost, T!Crash, TRestOK, T!Programs, T!Shell
<1>5. TDocOK'
  <2>1. CASE T!DiscoveryWrites
    BY <1>1, <2>1 DEF T!DiscoveryWrites, TDocOK, TRestOK
  <2>2. CASE UNCHANGED t_doc
    BY <1>1, <2>2 DEF TDocOK
  <2> QED BY <2>1, <2>2 DEF T!Discovery, T!DiscoveryReads, T!AgentUp, T!AgentLost, T!Crash
<1> QED BY <1>2, <1>3, <1>4, <1>5, TerminalParts, PTL

LEMMA TerminalStep == T!TypeOK /\ [T!Next]_(T!vars) => T!TypeOK'
<1> SUFFICES ASSUME T!TypeOK, [T!Next]_(T!vars) PROVE T!TypeOK'
  OBVIOUS
<1>1. CASE UNCHANGED T!vars
  BY <1>1 DEF T!vars, T!TypeOK
<1>2. "consumer" \in T!Typists /\ "switch" \in T!Typists /\ Wakers \subseteq T!Typists
  BY DEF T!Typists
<1>3. CASE T!Next
  BY <1>2, <1>3, TerminalCommands, TerminalTypists, TerminalFlow, TerminalOthers
     DEF T!Next, T!Consumer, T!Waker, T!Flow
<1> QED BY <1>1, <1>3

\* While no worker dies, whoever may launch Claude has read the id of the document
\* or none; a change of provider that mints one is the only launch that has it,
\* until it records it.
OneId ==
  /\ t_doc.switching <=> t_flow.at # "off"
  /\ t_doc.conversation # 0 => t_conversations \subseteq {t_doc.conversation}
  /\ t_doc.conversation = 0 =>
       \/ t_conversations = {}
       \/ /\ t_flow.at = "record" /\ t_flow.to = Claude
          /\ t_conversations \subseteq {t_flow.from}
  /\ t_flow.at \in {"ask", "stop", "launch"} => t_flow.from = t_doc.conversation
  /\ t_flow.at = "record" /\ t_flow.to = Claude =>
       t_flow.from # 0 /\ t_doc.conversation \in {0, t_flow.from}
  /\ \A t \in T!Typists : t_typing[t].read.id \in {0, t_doc.conversation}

LEMMA OneIdInit == T!Init => OneId
BY DEF T!Init, OneId, T!NoFlow, T!Still, T!NoRead

\* A step that leaves the document, the change of provider and the conversations.
LEMMA OneIdQuiet ==
  ASSUME OneId, t_doc'.conversation = t_doc.conversation, t_doc'.switching = t_doc.switching,
         UNCHANGED <<t_flow, t_conversations>>,
         \A t \in T!Typists : t_typing'[t] = t_typing[t] \/ t_typing'[t].read.id = 0
  PROVE  OneId'
BY DEF OneId

LEMMA OneIdCommands ==
  ASSUME T!TypeOK, OneId, T!Command
  PROVE  OneId'
<1>1. TypingOK /\ FlowOK /\ TDocOK
  BY TerminalParts
<1>2. \A t \in T!Typists : t_typing'[t] = t_typing[t] \/ t_typing'[t].read.id = 0
  <2>1. UNCHANGED t_typing \/ \E t, at : at \in TypingSteps /\ t_typing' = T!At(t, at)
    BY Zenon DEF T!Command, T!HandleText, T!HandleInputStopped, T!HandleKill, T!HandleSwitchAgent,
       T!HandleResume, TypingSteps
  <2> QED BY <1>1, <2>1, AtType
<1>3. CASE T!HandleSwitchAgent
  <2>1. /\ t_doc.switching = FALSE /\ t_doc'.switching = TRUE
        /\ t_doc'.conversation = t_doc.conversation
        /\ t_flow'.at = "ask" /\ t_flow'.from = t_doc.conversation
        /\ UNCHANGED t_conversations
    BY <1>1, <1>3 DEF T!HandleSwitchAgent, TDocOK
  <2> QED BY <1>2, <2>1 DEF OneId
<1>4. CASE UNCHANGED <<t_doc, t_flow, t_conversations>>
  BY <1>2, <1>4, OneIdQuiet
<1> QED BY <1>3, <1>4 DEF T!Command, T!HandleText, T!HandleInputStopped, T!HandleKill,
        T!HandleResume

LEMMA OneIdTypists ==
  ASSUME T!TypeOK, OneId, NEW t \in T!Typists,
         T!Types(t) \/ T!HandlerEnds \/ T!WakerTypes(t) \/ T!WakerEnds(t)
  PROVE  OneId'
<1>1. TypingOK /\ FlowOK /\ TDocOK /\ TRestOK
  BY TerminalParts
<1>2. UNCHANGED <<t_doc, t_flow>>
  BY DEF T!Types, T!HandlerEnds, T!WakerTypes, T!WakerEnds, T!TypeAndSubmit, T!RelaunchOpens,
         T!RelaunchTypes
<1>3. CASE T!TypeAndSubmit(t) \/ T!HandlerEnds \/ T!WakerTypes(t) \/ T!WakerEnds(t)
  <2>1. \E u, at : at \in TypingSteps /\ t_typing' = T!At(u, at)
    BY <1>3 DEF T!HandlerEnds, T!WakerTypes, T!WakerEnds, T!TypeAndSubmit, TypingSteps
  <2>2. UNCHANGED t_conversations
    BY <1>3 DEF T!HandlerEnds, T!WakerTypes, T!WakerEnds, T!TypeAndSubmit
  <2> QED BY <1>1, <1>2, <2>1, <2>2, AtType, OneIdQuiet
<1>4. CASE T!RelaunchOpens(t)
  <2>1. \A u \in T!Typists : \/ t_typing'[u] = t_typing[u]
                             \/ t_typing'[u].read.id \in {0, t_doc.conversation}
    BY <1>1, <1>4 DEF T!RelaunchOpens, TypingOK
  <2>2. UNCHANGED t_conversations
    BY <1>4 DEF T!RelaunchOpens
  <2> QED BY <1>2, <2>1, <2>2 DEF OneId
<1>5. CASE T!RelaunchTypes(t)
  <2>1. /\ t_typing[t].read.agent \in Providers /\ t_typing[t].read.id \in Ids
        /\ t_typing[t].read.id \in {0, t_doc.conversation}
    BY <1>1 DEF TypingOK, Typings, OneId
  <2>2. t_conversations' \subseteq t_conversations \cup ({t_doc.conversation} \ {0})
    BY <1>1, <1>5, <2>1, LaunchType DEF T!RelaunchTypes
  <2>3. \A u \in T!Typists : t_typing'[u] = t_typing[u] \/ t_typing'[u].read.id = 0
    <3>1. \E at \in TypingSteps : t_typing' = T!At(t, at)
      BY <1>5 DEF T!RelaunchTypes, TypingSteps
    <3> QED BY <1>1, <3>1, AtType
  <2> QED BY <1>2, <2>2, <2>3 DEF OneId
<1> QED BY <1>3, <1>4, <1>5 DEF T!Types

LEMMA OneIdFlow ==
  ASSUME T!TypeOK, OneId, T!Flow, ~T!Types("switch")
  PROVE  OneId'
<1>1. TypingOK /\ FlowOK /\ TDocOK /\ TRestOK /\ TSpentOK
  BY TerminalParts
<1>2. \A t \in T!Typists : t_typing'[t] = t_typing[t] \/ t_typing'[t].read.id = 0
  <2>1. UNCHANGED t_typing \/ \E t, at : at \in TypingSteps /\ t_typing' = T!At(t, at)
    BY DEF T!Flow, T!FlowAsked, T!FlowStops, T!FlowAborts, T!FlowLaunches, T!FlowRecords,
     T!FlowTypes, T!FlowTyped, T!FlowEnds, TypingSteps
  <2> QED BY <1>1, <2>1, AtType
<1>3. CASE T!FlowLaunches
  <2> DEFINE id == T!ConversationFor(t_flow.to, t_flow.from)
  <2>1. /\ t_flow.at = "launch" /\ UNCHANGED <<t_doc, t_typing>>
        /\ \/ /\ T!Launch(t_flow.to, id)
              /\ t_flow' = [t_flow EXCEPT !.at = "record", !.from = id]
           \/ t_flow' = [t_flow EXCEPT !.at = "end"] /\ UNCHANGED t_conversations
    BY <1>3 DEF T!FlowLaunches, T!FlowAt
  <2>2. t_flow.from = t_doc.conversation
    BY <2>1 DEF OneId
  <2>3. id \in Ids /\ (t_flow.to = Claude => id # 0 /\ t_doc.conversation \in {0, id})
    BY <1>1, <2>2, ConversationForType, TerminalAssumption DEF T!ConversationFor, TSpentOK
  <2> HIDE DEF id
  <2>4. CASE t_flow' = [t_flow EXCEPT !.at = "end"] /\ UNCHANGED t_conversations
    BY <1>1, <2>1, <2>4 DEF FlowOK, OneId
  <2>5. CASE T!Launch(t_flow.to, id) /\ t_flow' = [t_flow EXCEPT !.at = "record", !.from = id]
    <3>1. \/ t_conversations' = t_conversations
          \/ t_flow.to = Claude /\ t_conversations' = t_conversations \cup {id}
      BY <1>1, <2>3, <2>5, LaunchType DEF FlowOK
    <3>2. t_flow'.at = "record" /\ t_flow'.to = t_flow.to /\ t_flow'.from = id
      BY <1>1, <2>5 DEF FlowOK
    <3> QED BY <2>1, <2>3, <3>1, <3>2 DEF OneId
  <2> QED BY <2>1, <2>4, <2>5
<1>4. CASE T!FlowRecords
  <2>1. /\ t_flow.at = "record" /\ UNCHANGED <<t_typing, t_conversations>>
        /\ t_doc'.switching = t_doc.switching
        /\ t_doc'.conversation = IF t_flow.to = Claude THEN t_flow.from ELSE t_doc.conversation
        /\ t_flow'.at = "ready"
    BY <1>1, <1>4 DEF T!FlowRecords, T!FlowAt, TDocOK, FlowOK
  <2> QED BY <2>1 DEF OneId
<1>5. CASE T!FlowEnds
  <2>1. /\ t_flow.at = "end" /\ t_flow'.at = "off" /\ UNCHANGED <<t_typing, t_conversations>>
        /\ t_doc'.switching = FALSE /\ t_doc'.conversation = t_doc.conversation
    BY <1>1, <1>5 DEF T!FlowEnds, T!NoFlow, TDocOK
  <2> QED BY <2>1 DEF OneId
<1>6. CASE T!FlowAsked \/ T!FlowStops \/ T!FlowAborts \/ T!FlowTypes \/ T!FlowTyped
  <2>1. UNCHANGED <<t_doc, t_conversations>> /\ t_flow.at \notin {"off", "record"}
    BY <1>6 DEF T!FlowAsked, T!FlowStops, T!FlowAborts, T!FlowTypes, T!FlowTyped
  <2>2. /\ t_flow'.to = t_flow.to /\ t_flow'.from = t_flow.from
        /\ t_flow'.at \in {"stop", "launch", "end", "context"}
        /\ t_flow'.at \in {"stop", "launch"} => t_flow.at \in {"ask", "stop"}
    BY <1>1, <1>6 DEF T!FlowAsked, T!FlowStops, T!FlowAborts, T!FlowTypes, T!FlowTyped,
       T!FlowAt, FlowOK
  <2> QED BY <1>2, <2>1, <2>2 DEF OneId
<1> QED BY <1>3, <1>4, <1>5, <1>6 DEF T!Flow

LEMMA OneIdOthers ==
  ASSUME T!TypeOK, OneId, T!Discovery \/ T!AgentUp \/ T!AgentLost
  PROVE  OneId'
<1>1. TDocOK
  BY TerminalParts
<1>2. t_doc'.conversation = t_doc.conversation /\ t_doc'.switching = t_doc.switching
  BY <1>1 DEF T!Discovery, T!DiscoveryReads, T!DiscoveryWrites, T!AgentUp, T!AgentLost, TDocOK
<1>3. UNCHANGED <<t_flow, t_conversations, t_typing>>
  BY DEF T!Discovery, T!DiscoveryReads, T!DiscoveryWrites, T!AgentUp, T!AgentLost
<1> QED BY <1>2, <1>3, OneIdQuiet

LEMMA CrashesGrow ==
  ASSUME T!TypeOK, [T!Next]_(T!vars), t_spent'.crashes = 0
  PROVE  t_spent.crashes = 0 /\ ~T!Crash
<1>1. TSpentOK
  BY TerminalParts
<1>2. T!Crash => t_spent'.crashes = t_spent.crashes + 1
  BY <1>1 DEF T!Crash, TSpentOK
<1>3. ~T!Crash => t_spent'.crashes = t_spent.crashes
  BY <1>1 DEF T!Next, T!vars, T!Command, T!HandleText, T!HandleInputStopped, T!HandleKill,
     T!HandleSwitchAgent, T!HandleResume, T!NextCommand, T!Consumer, T!Types, T!TypeAndSubmit,
     T!RelaunchOpens, T!RelaunchTypes, T!HandlerEnds, T!Flow, T!FlowAsked, T!FlowStops,
     T!FlowAborts, T!FlowLaunches, T!FlowRecords, T!FlowTypes, T!FlowTyped, T!FlowEnds,
     T!Discovery, T!DiscoveryReads, T!DiscoveryWrites, T!AgentUp, T!AgentLost, T!Waker,
     T!WakerTypes, T!WakerEnds, TSpentOK
<1>4. t_spent.crashes \in Nat
  BY <1>1, TerminalAssumption DEF TSpentOK
<1> QED BY <1>2, <1>3, <1>4

Unbroken == t_spent.crashes = 0 => OneId

LEMMA OneIdStep == T!TypeOK /\ Unbroken /\ [T!Next]_(T!vars) => Unbroken'
<1> SUFFICES ASSUME T!TypeOK, Unbroken, [T!Next]_(T!vars), t_spent'.crashes = 0 PROVE OneId'
  BY DEF Unbroken
<1>1. OneId /\ ~T!Crash
  BY CrashesGrow DEF Unbroken
<1>2. CASE UNCHANGED T!vars
  BY <1>1, <1>2 DEF T!vars, OneId
<1>3. "consumer" \in T!Typists /\ "switch" \in T!Typists /\ Wakers \subseteq T!Typists
  BY DEF T!Typists
<1>4. CASE T!Next
  BY <1>1, <1>3, <1>4, OneIdCommands, OneIdTypists, OneIdFlow, OneIdOthers
     DEF T!Next, T!Consumer, T!Waker, T!Flow
<1> QED BY <1>2, <1>4

LEMMA TerminalSteps == [Nexts]_all => [T!Next]_(T!vars)
BY DEF Nexts, all, terminalVars, T!vars, Life, Moves, Terminal, Worktrees, Supervision, Gpu,
   Power, Of

\* Whatever messages, resumes and changes of provider do to a session between two
\* awaits of one another, Claude is launched in it with one conversation.
THEOREM ClaudeKeepsItsConversation == Behaviour => []OneConversation
<1>1. Inits => T!Init
  BY DEF Inits
<1>2. Unbroken => OneConversation
  <2>1. SUFFICES ASSUME OneId PROVE T!Cardinality(t_conversations) <= 1
    BY DEF Unbroken, OneConversation, T!OneConversation
  <2>2. PICK id : t_conversations \subseteq {id}
    BY <2>1 DEF OneId
  <2>3. t_conversations = {} \/ t_conversations = {id}
    BY <2>2
  <2>4. Cardinality(t_conversations) \in {0, 1}
    BY <2>3, FS_EmptySet, FS_Singleton
  <2>5. Cardinality(t_conversations) <= 1
    BY <2>4
  <2> QED BY <2>5, SameCardinality
<1> QED BY <1>1, <1>2, TerminalInit, TerminalStep, OneIdInit, OneIdStep, TerminalSteps, PTL
    DEF Behaviour, Unbroken

-----------------------------------------------------------------------------
(* The flag of a change of provider. *)

\* switching is on as long as a change of provider runs and is left on only by a worker
\* that died; and while the change waits for a text to be typed, its own task types it.
FlagIsHeld ==
  /\ t_doc.switching => t_flow.at # "off" \/ t_spent.crashes > 0
  /\ t_flow.at # "off" => t_doc.switching
  /\ t_flow.at \in {"ask", "context"} => t_typing["switch"].at \in {"text", "done", "failed"}

LEMMA TypistNames == "switch" \in T!Typists /\ "switch" \notin Wakers /\ "consumer" # "switch"
BY WorkerAssumption DEF T!Typists

LEMMA FlagInit == T!Init => FlagIsHeld
BY DEF T!Init, FlagIsHeld, T!NoFlow

\* One typist goes on and the others stay.
LEMMA AtElse ==
  ASSUME TypingOK, NEW t, NEW at, t_typing' = T!At(t, at)
  PROVE  /\ \A u \in T!Typists : u # t => t_typing'[u] = t_typing[u]
         /\ t \in T!Typists => t_typing'[t].at = at
BY DEF T!At, T!Still, TypingOK

LEMMA FlagCommands ==
  ASSUME T!TypeOK, FlagIsHeld, T!Command
  PROVE  FlagIsHeld'
<1>1. TypingOK /\ FlowOK /\ TDocOK /\ TSpentOK
  BY TerminalParts
<1>2. t_spent'.crashes = t_spent.crashes
  BY <1>1 DEF T!Command, T!HandleText, T!HandleInputStopped, T!HandleKill, T!HandleSwitchAgent,
     T!HandleResume, T!NextCommand, TSpentOK
<1>3. CASE T!HandleSwitchAgent
  <2>1. t_doc'.switching = TRUE /\ t_flow'.at = "ask" /\ t_typing' = T!At("switch", "text")
    BY <1>1, <1>3 DEF T!HandleSwitchAgent, TDocOK
  <2>2. t_typing'["switch"].at = "text"
    BY <1>1, <2>1, AtElse, TypistNames
  <2> QED BY <2>1, <2>2 DEF FlagIsHeld
<1>4. CASE T!HandleText \/ T!HandleInputStopped \/ T!HandleKill \/ T!HandleResume
  <2>1. UNCHANGED <<t_doc, t_flow>>
    BY <1>4 DEF T!HandleText, T!HandleInputStopped, T!HandleKill, T!HandleResume
  <2>2. UNCHANGED t_typing \/ \E t, at : t # "switch" /\ t_typing' = T!At(t, at)
    BY <1>4, TypistNames DEF T!HandleText, T!HandleInputStopped, T!HandleKill, T!HandleResume
  <2>3. t_typing'["switch"] = t_typing["switch"]
    BY <1>1, <2>2, AtElse, TypistNames
  <2> QED BY <1>2, <2>1, <2>3 DEF FlagIsHeld
<1> QED BY <1>3, <1>4 DEF T!Command

LEMMA FlagTypists ==
  ASSUME T!TypeOK, FlagIsHeld, NEW t \in T!Typists,
         \/ T!Types(t)
         \/ t = "consumer" /\ T!HandlerEnds
         \/ t \in Wakers /\ (T!WakerTypes(t) \/ T!WakerEnds(t))
  PROVE  FlagIsHeld'
<1>1. TypingOK
  BY TerminalParts
<1>2. UNCHANGED <<t_doc, t_flow>> /\ UNCHANGED t_spent
  BY DEF T!Types, T!HandlerEnds, T!WakerTypes, T!WakerEnds, T!TypeAndSubmit, T!RelaunchOpens,
         T!RelaunchTypes
<1>3. CASE t # "switch"
  <2>1. CASE T!RelaunchOpens(t)
    <3>1. t_typing'["switch"] = t_typing["switch"]
      BY <1>1, <1>3, <2>1, TypistNames DEF T!RelaunchOpens, TypingOK
    <3> QED BY <1>2, <3>1 DEF FlagIsHeld
  <2>2. CASE ~T!RelaunchOpens(t)
    <3>1. \E at : t_typing' = T!At(t, at)
      BY <2>2 DEF T!Types, T!HandlerEnds, T!WakerTypes, T!WakerEnds, T!TypeAndSubmit,
         T!RelaunchTypes
    <3>2. t_typing'["switch"] = t_typing["switch"]
      BY <1>1, <1>3, <3>1, AtElse, TypistNames
    <3> QED BY <1>2, <3>2 DEF FlagIsHeld
  <2> QED BY <2>1, <2>2
<1>4. CASE t = "switch"
  <2>1. T!Types("switch")
    BY <1>4, TypistNames
  <2>2. CASE t_typing["switch"].at \in {"text", "done", "failed"}
    <3>1. \E at \in {"done", "failed"} : t_typing' = T!At("switch", at)
      BY <2>1, <2>2 DEF T!Types, T!TypeAndSubmit, T!RelaunchOpens, T!RelaunchTypes
    <3>2. t_typing'["switch"].at \in {"done", "failed"}
      BY <1>1, <3>1, AtElse, TypistNames
    <3> QED BY <1>2, <3>2 DEF FlagIsHeld
  <2>3. CASE t_flow.at \notin {"ask", "context"}
    BY <1>2, <2>3 DEF FlagIsHeld
  <2> QED BY <2>2, <2>3 DEF FlagIsHeld
<1> QED BY <1>3, <1>4

LEMMA FlagFlow ==
  ASSUME T!TypeOK, FlagIsHeld, T!Flow, ~T!Types("switch")
  PROVE  FlagIsHeld'
<1>1. TypingOK /\ FlowOK /\ TDocOK
  BY TerminalParts
<1>2. UNCHANGED t_spent
  BY DEF T!Flow, T!FlowAsked, T!FlowStops, T!FlowAborts, T!FlowLaunches, T!FlowRecords,
         T!FlowTypes, T!FlowTyped, T!FlowEnds
<1>3. CASE T!FlowEnds
  <2>1. t_flow'.at = "off" /\ t_doc'.switching = FALSE
    BY <1>1, <1>3 DEF T!FlowEnds, T!NoFlow, TDocOK
  <2> QED BY <2>1 DEF FlagIsHeld
<1>4. CASE T!FlowTypes
  <2>1. /\ t_flow.at = "ready" /\ t_flow'.at = "context" /\ UNCHANGED t_doc
        /\ t_typing' = T!At("switch", "text")
    BY <1>1, <1>4 DEF T!FlowTypes, T!FlowAt, FlowOK
  <2>2. t_typing'["switch"].at = "text"
    BY <1>1, <2>1, AtElse, TypistNames
  <2> QED BY <2>1, <2>2 DEF FlagIsHeld
<1>5. CASE T!FlowRecords
  <2>1. /\ t_flow.at = "record" /\ t_flow'.at = "ready"
        /\ t_doc'.switching = t_doc.switching
    BY <1>1, <1>5 DEF T!FlowRecords, T!FlowAt, FlowOK, TDocOK
  <2> QED BY <2>1 DEF FlagIsHeld
<1>6. CASE T!FlowAsked \/ T!FlowStops \/ T!FlowAborts \/ T!FlowLaunches \/ T!FlowTyped
  <2>1. /\ t_flow.at # "off" /\ UNCHANGED t_doc
        /\ t_flow'.at \in {"stop", "launch", "record", "end"}
    BY <1>1, <1>6 DEF T!FlowAsked, T!FlowStops, T!FlowAborts, T!FlowLaunches, T!FlowTyped,
       T!FlowAt, FlowOK
  <2> QED BY <2>1 DEF FlagIsHeld
<1> QED BY <1>3, <1>4, <1>5, <1>6 DEF T!Flow

LEMMA FlagOthers ==
  ASSUME T!TypeOK, FlagIsHeld, T!Discovery \/ T!AgentUp \/ T!AgentLost \/ T!Crash
  PROVE  FlagIsHeld'
<1>1. TDocOK /\ TSpentOK
  BY TerminalParts
<1>2. t_doc'.switching = t_doc.switching
  BY <1>1 DEF T!Discovery, T!DiscoveryReads, T!DiscoveryWrites, T!AgentUp, T!AgentLost, T!Crash,
     TDocOK
<1>3. CASE T!Crash
  <2>1. t_spent.crashes \in Nat
    BY <1>1, TerminalAssumption DEF TSpentOK
  <2>2. t_flow'.at = "off" /\ t_spent'.crashes = t_spent.crashes + 1
    BY <1>1, <1>3 DEF T!Crash, T!NoFlow, TSpentOK
  <2> QED BY <2>1, <2>2 DEF FlagIsHeld
<1>4. CASE T!Discovery \/ T!AgentUp \/ T!AgentLost
  <2>1. UNCHANGED <<t_flow, t_typing>> /\ t_spent'.crashes = t_spent.crashes
    BY <1>1, <1>4 DEF T!Discovery, T!DiscoveryReads, T!DiscoveryWrites, T!AgentUp, T!AgentLost,
       TSpentOK
  <2> QED BY <1>2, <2>1 DEF FlagIsHeld
<1> QED BY <1>3, <1>4

\* However commands, resumes, losses and crashes fall into a change of provider, it
\* holds the flag that refuses another one until its end, and never waits for a text
\* that nobody types: the flag is only left by a dead worker.
THEOREM SwitchHoldsItsFlag == Behaviour => []FlagIsHeld
<1>1. Inits => T!TypeOK /\ FlagIsHeld
  BY TerminalInit, FlagInit DEF Inits
<1>2. T!TypeOK /\ FlagIsHeld /\ [T!Next]_(T!vars) => FlagIsHeld'
  <2> SUFFICES ASSUME T!TypeOK, FlagIsHeld, [T!Next]_(T!vars) PROVE FlagIsHeld'
    OBVIOUS
  <2>1. CASE UNCHANGED T!vars
    BY <2>1 DEF T!vars, FlagIsHeld
  <2>2. "consumer" \in T!Typists /\ "switch" \in T!Typists /\ Wakers \subseteq T!Typists
    BY DEF T!Typists
  <2>3. CASE T!Command
    BY <2>3, FlagCommands
  <2>4. CASE T!Consumer
    BY <2>2, <2>4, FlagTypists DEF T!Consumer
  <2>5. CASE T!Flow
    BY <2>2, <2>5, FlagTypists, FlagFlow
  <2>6. ASSUME NEW w \in Wakers, T!Waker(w) PROVE FlagIsHeld'
    BY <2>2, <2>6, FlagTypists DEF T!Waker
  <2>7. CASE T!Discovery \/ T!AgentUp \/ T!AgentLost \/ T!Crash
    BY <2>7, FlagOthers
  <2> QED BY <2>1, <2>3, <2>4, <2>5, <2>6, <2>7 DEF T!Next
<1> QED BY <1>1, <1>2, TerminalStep, TerminalSteps, PTL DEF Behaviour

-----------------------------------------------------------------------------
(* The moves of a session, of which SessionMove_proofs is proved for any hosts *)
(* and bounds.                                                                 *)
MP == INSTANCE SessionMove_proofs WITH
  Hosts <- ThreeHosts, NoHost <- NoHost, Home <- h1, Reliable <- OneHost,
  Patient <- Patient, Discovery <- Discovers, LossyPublish <- LossyPublish,
  MaxTransfers <- 3, MaxMoves <- 3, MaxResumes <- 1, MaxInputs <- 1,
  MaxExpired <- 1, MaxCrashes <- MaxMoveCrashes, doc <- m_doc, history <- m_history,
  foreign <- m_foreign, pane <- m_pane, file <- m_file, parcel <- m_parcel,
  lastTid <- m_lastTid, queue <- m_queue, work <- m_work, waking <- m_waking,
  sending <- m_sending, listed <- m_listed, requests <- m_requests,
  spent <- m_spent, mishaps <- m_mishaps

LEMMA MovesAssumption == MP!MoveAssumption
BY WorkerAssumption, LifecycleAssumption DEF MP!MoveAssumption, ThreeHosts, OneHost

\* Two instances of SessionMove say the same.
LEMMA SameMoves == (M!Next <=> MP!Next) /\ (M!Init <=> MP!Init)
BY DEF M!stores, M!mongo, M!hosted, M!tasks, M!outer, M!vars, M!Tids, M!Idle, M!Init,
     M!Unmoved, M!Phase, M!Cmd, M!Send, M!Spend, M!Goto, M!Behind, M!Turn, M!Refused,
     M!Launched, M!Waiting, M!Queued, M!Settled, M!Delivered, M!Befalls, M!Waits, M!Committing,
     M!MoveRequest,
     M!MoveAccept, M!Resume, M!Input, M!GrowStale, M!Taking, M!At, M!Ack, M!Expire, M!Crash,
     M!Exportable, M!TakeMoveOut, M!MoveOutRefuse, M!StoppedPane, M!MoveOutStop,
     M!MoveOutExport, M!MoveOutHandOver, M!MoveOutPublish, M!MoveOutRollback, M!Awaited,
     M!TakeMoveIn, M!AfterPrepare, M!MoveInPrepare, M!Imported, M!MoveInImport,
     M!MoveInImportFails, M!Taken, M!Unique, M!MoveInCommit, M!MoveInCollide,
     M!MoveInCancelled, M!MoveInClean, M!FailedIn, M!MoveInFail, M!GivenBack,
     M!MoveInGiveBack, M!Relaunch, M!TakeResume, M!TakeInput, M!Wake, M!Typing,
     M!SendWaiting, M!DiscoveryList, M!DiscoverySees, M!DiscoveryMisses, M!Client, M!MoveOut,
     M!MoveIn, M!Consume, M!Next, MP!stores, MP!mongo, MP!hosted, MP!tasks, MP!outer,
     MP!vars, MP!Tids, MP!Idle, MP!Init, MP!Unmoved, MP!Phase, MP!Cmd, MP!Send, MP!Spend,
     MP!Goto, MP!Behind, MP!Turn, MP!Refused, MP!Launched, MP!Waiting, MP!Queued, MP!Settled,
     MP!Delivered, MP!Befalls, MP!Waits, MP!Committing, MP!MoveRequest,
     MP!MoveAccept, MP!Resume, MP!Input, MP!GrowStale,
     MP!Taking, MP!At, MP!Ack, MP!Expire, MP!Crash, MP!Exportable, MP!TakeMoveOut,
     MP!MoveOutRefuse, MP!StoppedPane, MP!MoveOutStop, MP!MoveOutExport, MP!MoveOutHandOver,
     MP!MoveOutPublish, MP!MoveOutRollback, MP!Awaited, MP!TakeMoveIn, MP!AfterPrepare,
     MP!MoveInPrepare, MP!Imported, MP!MoveInImport, MP!MoveInImportFails, MP!Taken,
     MP!Unique, MP!MoveInCommit, MP!MoveInCollide, MP!MoveInCancelled, MP!MoveInClean,
     MP!FailedIn, MP!MoveInFail, MP!GivenBack, MP!MoveInGiveBack, MP!Relaunch, MP!TakeResume,
     MP!TakeInput, MP!Wake, MP!Typing, MP!SendWaiting, MP!DiscoveryList, MP!DiscoverySees,
     MP!DiscoveryMisses, MP!Client, MP!MoveOut, MP!MoveIn, MP!Consume, MP!Next

LEMMA SameInvariants ==
  /\ MP!TypeOK => M!TypeOK
  /\ MP!IndInv => M!IndInv
  /\ MP!Orderly => M!Orderly
<1> USE DEF M!Waiting, MP!Waiting, M!Queued, MP!Queued, M!Settled, MP!Settled, M!Tids, MP!Tids,
        M!OutSteps, MP!OutSteps, M!InSteps, MP!InSteps
<1>1. MP!TypeOK => M!TypeOK
  BY DEF M!TypeOK, MP!TypeOK, M!Docs, MP!Docs, M!Cmds, MP!Cmds, M!Works, MP!Works, M!Spent,
     MP!Spent, M!Steps, MP!Steps, M!Phases, MP!Phases, M!Panes, MP!Panes, M!Copies, MP!Copies,
     M!Mishaps, MP!Mishaps
<1>2. MP!IndInv => M!IndInv
  BY DEF M!IndInv, MP!IndInv, M!OwnerHasConversation, MP!OwnerHasConversation,
     M!ExporterIsOwner, MP!ExporterIsOwner,
     M!Exporting, MP!Exporting, M!HeadInProgress, MP!HeadInProgress, M!Addressed,
     MP!Addressed, M!TransferNamed, MP!TransferNamed, M!Claims, MP!Claims, M!Carries,
     MP!Carries, M!OneSource, MP!OneSource, M!Imports, MP!Imports, M!FreshTransfer,
     MP!FreshTransfer
<1>3. MP!Orderly => M!Orderly
  BY DEF M!Orderly, MP!Orderly, M!Undisturbed, MP!Undisturbed, M!InOrder, MP!InOrder,
     M!NothingLost, MP!NothingLost, M!Leaving, MP!Leaving, M!Arriving, MP!Arriving, M!OneMove, MP!OneMove, M!TalkAside, MP!TalkAside,
     M!OutUnderWay, MP!OutUnderWay, M!InUnderWay, MP!InUnderWay, M!WithOwner, MP!WithOwner,
     M!NothingLeft, MP!NothingLeft, M!Stage, MP!Stage, M!NoAgent, MP!NoAgent, M!MoveTypes,
     MP!MoveTypes, M!TalkTypes, MP!TalkTypes, M!Committing, MP!Committing,
     M!Carried, MP!Carried, M!Carries, MP!Carries
<1> QED BY <1>1, <1>2, <1>3

LEMMA MoveSteps == [Nexts]_all => [MP!Next]_(MP!vars)
<1>1. UNCHANGED movesVars => UNCHANGED MP!vars
  BY DEF movesVars, MP!vars, MP!mongo, MP!stores, MP!hosted, MP!tasks, MP!outer
<1>2. [Nexts]_all => M!Next \/ UNCHANGED movesVars
  BY DEF Nexts, all, movesVars, Life, Moves, Terminal, Worktrees, Supervision, Gpu, Power, Of
<1> QED BY <1>1, <1>2, SameMoves

\* What SessionMove_proofs shows of its Spec holds of a move of this worker.
LEMMA MovesAreTheirs == Behaviour => MP!Spec
<1>1. Inits => MP!Init
  BY SameMoves DEF Inits
<1> QED BY <1>1, MoveSteps, PTL DEF Behaviour, MP!Spec

LEMMA MovesKeep == Behaviour => [](MP!TypeOK /\ MP!IndInv /\ MP!Orderly)
<1>1. MP!Spec => [](MP!TypeOK /\ MP!IndInv)
  BY MovesAssumption, MP!Inductive
<1>2. MP!Spec => []MP!Orderly
  BY MovesAssumption, MP!MovesAreOrderly
<1> QED BY <1>1, <1>2, MovesAreTheirs, PTL

\* Wherever a move is, whatever of it fails, expires or is lost and whoever dies, the
\* agent runs in one terminal at most, and in the end in its session's host or none,
\* until one of the three mishaps that break it.
THEOREM HostsShareOneAgent == Behaviour => []OneAgent
<1>1. MP!Spec => []MP!OneAgent
  BY MovesAssumption, MP!OneAgentAtATime
<1>2. MP!OneAgent => OneAgent
  BY DEF OneAgent, M!OneAgent, MP!OneAgent, M!Undisturbed, MP!Undisturbed, M!OneWriter,
     MP!OneWriter, M!NoOrphanAgent, MP!NoOrphanAgent, M!Settled, MP!Settled, M!Queued,
     MP!Queued, M!Waiting, MP!Waiting
<1> QED BY <1>1, <1>2, MovesAreTheirs, PTL

\* Until one of those mishaps a session with nothing under way has its whole
\* conversation on the disk of its host, and nothing in transit if nothing was lost.
THEOREM MovesLeaveItWhole == Behaviour => []SettledIsWhole
<1>1. MP!Spec => []MP!SettledIsWhole
  BY MovesAssumption, MP!SettledSessionIsWhole
<1>2. MP!SettledIsWhole => SettledIsWhole
  BY DEF SettledIsWhole, M!SettledIsWhole, MP!SettledIsWhole, M!Undisturbed, MP!Undisturbed,
     M!KeepsEveryTurn, MP!KeepsEveryTurn, M!SettledIsOver, MP!SettledIsOver, M!NothingLost,
     MP!NothingLost, M!Settled, MP!Settled, M!Queued, MP!Queued, M!Waiting, MP!Waiting,
     M!Tids, MP!Tids
<1> QED BY <1>1, <1>2, MovesAreTheirs, PTL

-----------------------------------------------------------------------------
(* The process, the GPU services and the power of the host. *)

LEMMA HostAssumption ==
  /\ Grace \in Nat /\ Grace > 0 /\ MaxBackoff \in Nat /\ MaxOutages \in Nat /\ MaxStalls \in Nat
  /\ MaxErrors \in Nat /\ MaxJobs \in Nat /\ MaxPresses \in Nat /\ MaxFaults \in Nat
BY WorkerAssumption

LEMMA SupervisionInit == S!Init => S!TypeOK
<1> SUFFICES ASSUME S!Init PROVE S!TypeOK
  OBVIOUS
<1>1. s_misses \in 0..(Grace - 1) /\ s_backoff \in 0..MaxBackoff
  BY HostAssumption DEF S!Init
<1>2. s_spent \in [outages : 0..MaxOutages, stalls : 0..MaxStalls, errors : 0..MaxErrors]
  BY HostAssumption DEF S!Init
<1> QED BY <1>1, <1>2 DEF S!Init, S!TypeOK

LEMMA SupervisionStep == S!TypeOK /\ [S!Next]_(S!vars) => S!TypeOK'
<1> SUFFICES ASSUME S!TypeOK, [S!Next]_(S!vars) PROVE S!TypeOK'
  OBVIOUS
<1> USE HostAssumption DEF S!vars, S!Next, S!Worker, S!Build, S!InfraFails, S!Pause, S!Stopper,
        S!TmuxFails, S!SetStop, S!WatchdogCounts, S!WatchdogUnanswered, S!TakenDown,
        S!ConsumerHangs, S!ConsumerReturns, S!Outage, S!Restored
<1>1. s_phase' \in {"build", "up", "backoff", "ended"} /\ s_consumer' \in {"none", "ok", "stalled"}
  BY DEF S!TypeOK
<1>2. s_misses' \in 0..(Grace - 1) /\ s_backoff' \in 0..MaxBackoff
  BY DEF S!TypeOK
<1>3. s_infra' \in BOOLEAN /\ s_stop' \in BOOLEAN
  BY DEF S!TypeOK
<1>4. s_spent' \in [outages : 0..MaxOutages, stalls : 0..MaxStalls, errors : 0..MaxErrors]
  BY DEF S!TypeOK
<1> QED BY <1>1, <1>2, <1>3, <1>4 DEF S!TypeOK


LEMMA WorkRests == G!Resting \in G!Work
BY SMT DEF G!Resting, G!Work

\* The next thing that the thread, or the watchdog, does.
LEMMA BeginType ==
  ASSUME NEW does \in {"start", "ensure", "stop"}
  PROVE  /\ [G!Resting EXCEPT !.does = does] \in G!Work
         /\ [G!Resting EXCEPT !.does = does, !.unit = 2] \in G!Work
<1>1. \A work \in G!Work : [work EXCEPT !.does = does] \in G!Work
  BY DEF G!Work
<1>2. \A work \in G!Work, unit \in 0..3 :
         [work EXCEPT !.does = does, !.unit = unit] \in G!Work
  BY DEF G!Work
<1>3. 2 \in 0..3
  OBVIOUS
<1> QED BY <1>1, <1>2, <1>3, WorkRests, Zenon

LEMMA AfterUnitType ==
  ASSUME NEW work \in G!Work, G!StopUnit(work)
  PROVE  G!AfterUnit(work) \in G!Work
<1>1. work.unit - 1 \in 0..3
  BY DEF G!StopUnit, G!Units
<1>2. \A u \in 0..3, f \in BOOLEAN : [work EXCEPT !.unit = u, !.failed = f] \in G!Work
  BY DEF G!Work
<1>3. (work.failed \/ (g_on'[work.unit] /\ g_spent' # g_spent)) \in BOOLEAN
  BY Zenon
<1> QED BY <1>1, <1>2, <1>3 DEF G!AfterUnit

LEMMA StartUnitType ==
  ASSUME NEW work \in G!Work, work.unit \in G!Units
  PROVE  [work EXCEPT !.unit = @ + 1] \in G!Work
<1>1. work.unit + 1 \in 0..3
  BY DEF G!Units
<1> QED BY <1>1 DEF G!Work

LEMMA GpuInit == G!Init => G!TypeOK
<1> SUFFICES ASSUME G!Init PROVE G!TypeOK
  OBVIOUS
<1>1. g_spent \in [jobs : 0..MaxJobs, faults : 0..MaxFaults]
  BY HostAssumption DEF G!Init
<1>2. g_job \in G!Work /\ g_watch \in G!Work
  BY WorkRests, Zenon DEF G!Init
<1>3. /\ g_on \in [G!Units -> BOOLEAN] /\ g_used \in {"none", "fresh", "idle"}
      /\ g_conns \in BOOLEAN
  BY DEF G!Init
<1> QED BY <1>1, <1>2, <1>3, Zenon DEF G!TypeOK

LEMMA GpuStep == G!TypeOK /\ [G!Next]_(G!vars) => G!TypeOK'
<1> SUFFICES ASSUME G!TypeOK, [G!Next]_(G!vars) PROVE G!TypeOK'
  OBVIOUS
<1> USE HostAssumption DEF G!vars, G!Next, G!Thread, G!Watchdog, G!HandleStart, G!HandleStop,
        G!EnsureStarted, G!NextJob, G!StartUnit, G!Ready, G!JobStops, G!WatchdogStops,
        G!WatchdogLooks, G!LimitPasses, G!ClientConnects, G!ClientLeaves, G!UnitDies
<1>1. g_on' \in [G!Units -> BOOLEAN]
  BY DEF G!TypeOK, G!Units, G!StopUnit
<1>2. g_used' \in {"none", "fresh", "idle"}
  BY DEF G!TypeOK, G!Forget
<1>3. g_conns' \in BOOLEAN
  BY DEF G!TypeOK, G!StopUnit
<1>4. g_job' \in G!Work
  <2>1. \/ UNCHANGED g_job \/ g_job' = G!Resting
        \/ \E does \in {"start", "ensure", "stop"} :
              g_job' \in {[G!Resting EXCEPT !.does = does], [G!Resting EXCEPT !.does = does, !.unit = 2]}
        \/ g_job.unit \in G!Units /\ g_job' = [g_job EXCEPT !.unit = @ + 1]
        \/ G!StopUnit(g_job) /\ g_job' = G!AfterUnit(g_job)
    BY Zenon
  <2>2. g_job \in G!Work
    BY DEF G!TypeOK
  <2>3. \A does \in {"start", "ensure", "stop"} :
           /\ [G!Resting EXCEPT !.does = does] \in G!Work
           /\ [G!Resting EXCEPT !.does = does, !.unit = 2] \in G!Work
    BY BeginType
  <2> QED BY <2>1, <2>2, <2>3, WorkRests, AfterUnitType, StartUnitType, Zenon
<1>5. g_watch' \in G!Work
  <2>1. \/ UNCHANGED g_watch \/ g_watch' = G!Resting
        \/ g_watch' = [G!Resting EXCEPT !.does = "stop", !.unit = 2]
        \/ G!StopUnit(g_watch) /\ g_watch' = G!AfterUnit(g_watch)
    BY Zenon
  <2>2. g_watch \in G!Work
    BY DEF G!TypeOK
  <2>3. [G!Resting EXCEPT !.does = "stop", !.unit = 2] \in G!Work
    BY BeginType
  <2> QED BY <2>1, <2>2, <2>3, WorkRests, AfterUnitType, Zenon
<1>6. g_spent' \in [jobs : 0..MaxJobs, faults : 0..MaxFaults]
  BY DEF G!TypeOK, G!StopUnit, G!Fails
<1> QED BY <1>1, <1>2, <1>3, <1>4, <1>5, <1>6 DEF G!TypeOK

\* The shutdowns that were published, and the one to be, were asked for.
ShutdownsAsked ==
  /\ p_queue + (IF p_stop = "marked" THEN 1 ELSE 0) <= p_spent.presses
  /\ p_worker = "ending" => p_queue > 0

LEMMA PowerInit == P!Init => P!TypeOK /\ ShutdownsAsked
<1> SUFFICES ASSUME P!Init PROVE P!TypeOK /\ ShutdownsAsked
  OBVIOUS
<1>1. p_spent \in [presses : 0..MaxPresses, faults : 0..MaxFaults] /\ p_queue \in 0..MaxPresses
  BY HostAssumption DEF P!Init
<1>2. p_doc \in [kind : P!Kinds \cup {"none"}, named : BOOLEAN,
                 beat : {"none", "fresh", "old"}, starting : BOOLEAN]
  BY DEF P!Init, P!NoDoc
<1>3. ShutdownsAsked
  BY DEF P!Init, ShutdownsAsked
<1> QED BY <1>1, <1>2, <1>3 DEF P!Init, P!TypeOK

LEMMA PowerStep == P!TypeOK /\ ShutdownsAsked /\ [P!Next]_(P!vars) => P!TypeOK' /\ ShutdownsAsked'
<1> SUFFICES ASSUME P!TypeOK, ShutdownsAsked, [P!Next]_(P!vars) PROVE P!TypeOK' /\ ShutdownsAsked'
  OBVIOUS
<1> USE HostAssumption DEF P!vars, P!Next, P!Host, P!Rename, P!StartWorker, P!StartGracePasses,
        P!StopMarks, P!StopPublishes, P!SfKills, P!Selfboot, P!LoopRelaunches, P!LoopEnds,
        P!Heartbeat, P!HeartbeatAges, P!HandleShutdown, P!WorkerEnds, P!WorkerDies, P!VmDies,
        P!Press, P!Fault
<1>1. p_kind' \in P!Kinds
  BY DEF P!TypeOK
<1>2. p_loop' \in BOOLEAN /\ p_sentinel' \in BOOLEAN
  BY DEF P!TypeOK
<1>3. p_worker' \in {"off", "up", "ending"} /\ p_stop' \in {"none", "marked", "published"}
  BY DEF P!TypeOK
<1>4. p_doc' \in [kind : P!Kinds \cup {"none"}, named : BOOLEAN,
                  beat : {"none", "fresh", "old"}, starting : BOOLEAN]
  BY DEF P!TypeOK, P!SandboxIdentity, P!Kinds
<1>5. p_spent' \in [presses : 0..MaxPresses, faults : 0..MaxFaults]
  BY DEF P!TypeOK
<1>6. p_queue' \in Nat
  BY DEF P!TypeOK, ShutdownsAsked
<1>7. ShutdownsAsked'
  BY DEF P!TypeOK, ShutdownsAsked
<1>8. p_queue' \in 0..MaxPresses
  BY <1>5, <1>6, <1>7 DEF ShutdownsAsked
<1> QED BY <1>1, <1>2, <1>3, <1>4, <1>5, <1>7, <1>8 DEF P!TypeOK

\* What a published shutdown leads to is on its way: the command in the queue, or the
\* sentinel that the loop looks for before it relaunches the worker.
ShutdownIsKept == p_stop = "published" /\ p_loop => p_queue > 0 \/ p_sentinel

\* Without a loop no worker runs, and one that ends has left the sentinel.
ShutdownHeld ==
  /\ ShutdownIsKept
  /\ ~p_loop => p_worker = "off"
  /\ p_worker = "ending" => p_sentinel

LEMMA ShutdownStep == P!TypeOK /\ ShutdownHeld /\ [P!Next]_(P!vars) => ShutdownHeld'
<1> SUFFICES ASSUME P!TypeOK, ShutdownHeld, [P!Next]_(P!vars) PROVE ShutdownHeld'
  OBVIOUS
<1> USE DEF P!vars, P!Next, P!Host, P!Rename, P!StartWorker, P!StartGracePasses, P!StopMarks,
        P!StopPublishes, P!SfKills, P!Selfboot, P!LoopRelaunches, P!LoopEnds, P!Heartbeat,
        P!HeartbeatAges, P!HandleShutdown, P!WorkerEnds, P!WorkerDies, P!VmDies
<1>1. p_queue \in Nat
  BY DEF P!TypeOK
<1>2. (~p_loop => p_worker = "off")' /\ (p_worker = "ending" => p_sentinel)'
  BY DEF ShutdownHeld
<1>3. ShutdownIsKept'
  <2>1. CASE P!StopPublishes
    BY <1>1, <2>1 DEF ShutdownHeld, ShutdownIsKept
  <2>2. CASE ~P!StopPublishes
    <3>1. /\ p_stop' = "published" => p_stop = "published"
          /\ p_stop' = "published" /\ p_loop' => p_loop
          /\ p_queue' # p_queue => p_worker = "ending" /\ UNCHANGED p_sentinel
      BY <2>2
    <3>2. p_stop' = "published" /\ p_loop' /\ p_sentinel => p_sentinel'
      BY <2>2
    <3> QED BY <3>1, <3>2 DEF ShutdownHeld, ShutdownIsKept
  <2> QED BY <2>1, <2>2
<1> QED BY <1>2, <1>3 DEF ShutdownHeld

-----------------------------------------------------------------------------
(* The parts together. *)

LEMMA LifeSteps == [Nexts]_all => [Next]_vars
BY DEF Nexts, all, vars, Life, Moves, Terminal, Worktrees, Supervision, Gpu, Power, Of

LEMMA HostSteps ==
  [Nexts]_all => [S!Next]_(S!vars) /\ [G!Next]_(G!vars) /\ [P!Next]_(P!vars)
BY DEF Nexts, all, supervisionVars, gpuVars, powerVars, S!vars, G!vars, P!vars, Life, Moves,
   Terminal, Worktrees, Supervision, Gpu, Power, Of

\* A shutdown that was published is not lost with the worker that took it: as long as the
\* loop runs, the command is in the queue or the sentinel is there.
THEOREM ShutdownsAreKept == Behaviour => []ShutdownIsKept
<1>1. Inits => P!Init
  BY DEF Inits
<1>2. P!Init => ShutdownHeld
  BY DEF P!Init, ShutdownHeld, ShutdownIsKept
<1>3. ShutdownHeld => ShutdownIsKept
  BY DEF ShutdownHeld
<1> QED BY <1>1, <1>2, <1>3, PowerInit, PowerStep, ShutdownStep, HostSteps, PTL DEF Behaviour

\* Whatever is sent to a host and whatever of it fails, the documents, the queues,
\* the terminals, the worktrees, the units and the counters stay what the handlers
\* of each expect, and a move stays where its commands say it is.
THEOREM PartsKeepTheirTypes == Behaviour => []PartsTypeOK
<1>1. Inits => Init /\ T!Init /\ W!Init /\ S!Init /\ G!Init /\ P!Init
  BY DEF Inits
<1>2. Behaviour => []TypeOK
  BY <1>1, TypeInit, TypeStep, LifeSteps, PTL DEF Behaviour
<1>3. Behaviour => [](T!TypeOK /\ W!TypeOK)
  BY <1>1, TerminalInit, TerminalStep, TerminalSteps, TreeTypesInit, TreeTypesStep, TreeSteps,
     PTL DEF Behaviour
<1>4. Behaviour => [](S!TypeOK /\ G!TypeOK /\ P!TypeOK)
  BY <1>1, SupervisionInit, SupervisionStep, GpuInit, GpuStep, PowerInit, PowerStep, HostSteps,
     PTL DEF Behaviour
<1>5. /\ TypeOK /\ T!TypeOK /\ W!TypeOK /\ S!TypeOK /\ G!TypeOK /\ P!TypeOK
      /\ M!TypeOK /\ M!IndInv /\ M!Orderly
      => PartsTypeOK
  BY DEF PartsTypeOK
<1> QED BY <1>2, <1>3, <1>4, <1>5, MovesKeep, SameInvariants, PTL
=============================================================================
