------------------------------ MODULE Terminal ------------------------------
(***************************************************************************)
(* The pane of one session, and the tasks of a worker that type into it.   *)
(*                                                                         *)
(* A pane shows one program: a shell, an agent that is starting, or an     *)
(* agent.  The command consumer handles one command at a time, but two     *)
(* commands go on in tasks of their own after they were acknowledged: the  *)
(* change of the session's provider (_switch_agent_flow) and the waking of *)
(* a stopped session by a message (_resume_and_send).  All of them paste,  *)
(* wait, press Enter and look at the screen, with awaits in between and no *)
(* lock, while discovery writes to the document the agent it saw.          *)
(*                                                                         *)
(* A text is known by who typed it.  What texts say, the files of a        *)
(* handoff and the keys that only move a cursor are left out.  A command   *)
(* that is redelivered after a crash is a new request here.                *)
(***************************************************************************)
EXTENDS Naturals, FiniteSets

CONSTANTS
  Providers,    \* agents that a session can be given
  Claude,       \* the one whose conversations have an id
  Wakers,       \* tasks that wake the session, at most one per message
  MaxCommands,  \* commands to the session
  MaxLosses,    \* agents that leave or do not start, by themselves
  MaxCrashes

VARIABLES
  pane,         \* the program in front, and which agent it is
  doc,          \* agent_type, claude_session_id (0: none), switching
  typing,       \* where each typist is, and what it read from the document
  flow,         \* the change of provider
  seen,         \* what discovery saw in the pane and has not written yet
  conversations,\* ids that Claude was launched with
  spent

vars == <<pane, doc, typing, flow, seen, conversations, spent>>

Typists == {"consumer", "switch"} \cup Wakers
NoRead == [agent |-> Claude, id |-> 0]
Still == [at |-> "off", read |-> NoRead]
NoFlow == [at |-> "off", to |-> Claude, from |-> 0]
Programs == [prog : {"none", "shell"}, who : {Claude}]
              \cup [prog : {"boot", "agent"}, who : Providers]
Gone == [prog |-> "none", who |-> Claude]
Shell == [prog |-> "shell", who |-> Claude]

TypeOK ==
  /\ pane \in Programs
  /\ doc \in [agent : Providers, conversation : 0..(1 + MaxCommands),
              switching : BOOLEAN]
  /\ typing \in [Typists -> [at : {"off", "start", "launch", "ready", "text", "done", "failed"},
                             read : [agent : Providers, id : 0..(1 + MaxCommands)]]]
  /\ flow \in [at : {"off", "ask", "stop", "launch", "record", "ready", "context", "end"},
               to : Providers, from : 0..(1 + MaxCommands)]
  /\ seen \in Providers \cup {"nothing", "unknown"}
  /\ conversations \subseteq 1..(1 + MaxCommands)
  /\ spent \in [commands : 0..MaxCommands, losses : 0..MaxLosses, crashes : 0..MaxCrashes]

Init ==
  \E a \in Providers, p \in {"none", "agent"} :
    /\ pane = IF p = "none" THEN Gone ELSE [prog |-> "agent", who |-> a]
    /\ doc = [agent |-> a, conversation |-> IF a = Claude THEN 1 ELSE 0,
              switching |-> FALSE]
    /\ conversations = IF a = Claude THEN {1} ELSE {}
    /\ typing = [t \in Typists |-> Still]
    /\ flow = NoFlow
    /\ seen = "nothing"
    /\ spent = [commands |-> 0, losses |-> 0, crashes |-> 0]

At(t, step) == [typing EXCEPT ![t] = [Still EXCEPT !.at = step]]

(***************************************************************************)
(* _type_and_submit: the text is pasted and, after a pause, Enter pressed, *)
(* once more if the screen did not move.  Both raise if the pane is gone.  *)
(***************************************************************************)
TypeAndSubmit(t) ==
  /\ typing[t].at = "text"
  /\ typing' = At(t, IF pane.prog = "none" THEN "failed" ELSE "done")
  /\ UNCHANGED <<pane, doc, flow, seen, conversations, spent>>

Over(t) == typing[t].at \in {"done", "failed"}

\* The handler's last writes (last_activity_at, _mark_working) and its event.
HandlerEnds ==
  /\ Over("consumer")
  /\ typing' = At("consumer", "off")
  /\ UNCHANGED <<pane, doc, flow, seen, conversations, spent>>

(***************************************************************************)
(* Commands.  The consumer takes the next one when a handler has ended.    *)
(***************************************************************************)
NextCommand ==
  /\ typing["consumer"].at = "off"
  /\ spent.commands < MaxCommands
  /\ spent' = [spent EXCEPT !.commands = @ + 1]

\* input, file and a transcribed audio: a text for a session that has a pane.
HandleText ==
  /\ NextCommand
  /\ pane.prog # "none"
  /\ typing' = At("consumer", "text")
  /\ UNCHANGED <<pane, doc, flow, seen, conversations>>

\* A stopped session is woken in the background, and the command is over.
HandleInputStopped ==
  /\ NextCommand
  /\ pane.prog = "none"
  /\ \E w \in Wakers : typing[w].at = "off" /\ typing' = At(w, "start")
  /\ UNCHANGED <<pane, doc, flow, seen, conversations>>

\* resume of a session whose pane is gone or has no agent.
HandleResume ==
  /\ NextCommand
  /\ pane.prog \in {"none", "shell"}
  /\ typing' = At("consumer", "start")
  /\ UNCHANGED <<pane, doc, flow, seen, conversations>>

HandleKill ==
  /\ NextCommand
  /\ pane.prog # "none"
  /\ pane' = Gone
  /\ UNCHANGED <<doc, typing, flow, seen, conversations>>

\* Two commands are never handled at once, so the flag is read and set in one.
HandleSwitchAgent ==
  /\ NextCommand
  /\ pane.prog # "none"
  /\ ~doc.switching
  /\ doc' = [doc EXCEPT !.switching = TRUE]
  /\ \E to \in Providers :
       flow' = [at |-> "ask", to |-> to, from |-> doc.conversation]
  /\ typing' = At("switch", "text")
  /\ UNCHANGED <<pane, seen, conversations>>

(***************************************************************************)
(* A launch command, typed with its Enter.                                 *)
(***************************************************************************)
Launch(agent, id) ==
  /\ pane.prog # "none"
  /\ \/ /\ pane.prog = "shell"
        /\ pane' = [prog |-> "boot", who |-> agent]
        /\ conversations' = IF agent = Claude /\ id # 0 THEN conversations \cup {id}
                            ELSE conversations
     \/ /\ pane.prog # "shell"
        /\ UNCHANGED <<pane, conversations>>

\* _relaunch_agent: the document is read, and a pane opened if there is none.
RelaunchOpens(t) ==
  /\ typing[t].at = "start"
  /\ typing' = [typing EXCEPT ![t] =
       [at |-> "launch",
        read |-> [agent |-> doc.agent,
                  id |-> IF doc.agent = Claude THEN doc.conversation ELSE 0]]]
  /\ IF pane.prog = "none" THEN pane' = Shell ELSE UNCHANGED pane
  /\ UNCHANGED <<doc, flow, seen, conversations, spent>>

\* ... and the launch command typed, after the language was read.
RelaunchTypes(t) ==
  /\ typing[t].at = "launch"
  /\ \/ /\ Launch(typing[t].read.agent, typing[t].read.id)
        /\ typing' = At(t, IF t = "consumer" THEN "done" ELSE "ready")
     \/ /\ pane.prog = "none"            \* CommandError
        /\ typing' = At(t, "failed")
        /\ UNCHANGED <<pane, conversations>>
  /\ UNCHANGED <<doc, flow, seen, spent>>

\* _resume_and_send waits for the agent, twenty seconds at most, and types.
WakerTypes(w) ==
  /\ typing[w].at = "ready"
  /\ typing' = At(w, "text")
  /\ UNCHANGED <<pane, doc, flow, seen, conversations, spent>>

WakerEnds(w) ==
  /\ Over(w)
  /\ typing' = At(w, "off")
  /\ UNCHANGED <<pane, doc, flow, seen, conversations, spent>>

(***************************************************************************)
(* _switch_agent_flow.                                                     *)
(***************************************************************************)
FlowAt(step) == flow' = [flow EXCEPT !.at = step]

\* The instruction was typed.  The agent writes the handoff or, after ninety
\* seconds, the screen is taken; the transcript and the index of skills are
\* written with no await.  A pane that is gone raises, which ends the change.
FlowAsked ==
  /\ flow.at = "ask"
  /\ Over("switch")
  /\ FlowAt(IF typing["switch"].at = "failed" THEN "end" ELSE "stop")
  /\ typing' = At("switch", "off")
  /\ UNCHANGED <<pane, doc, seen, conversations, spent>>

\* _shutdown_agent: Ctrl-C, then TERM and KILL, until a shell is in front.
FlowStops ==
  /\ flow.at = "stop"
  /\ pane.prog # "none"
  /\ pane' = Shell
  /\ FlowAt("launch")
  /\ UNCHANGED <<doc, typing, seen, conversations, spent>>

FlowAborts_NoFinally ==
  /\ flow.at = "stop"
  /\ flow' = NoFlow
  /\ UNCHANGED <<pane, doc, typing, seen, conversations, spent>>

\* The agent outlived all of it, or the pane is gone: nothing is launched.
FlowAborts ==
  /\ flow.at = "stop"
  /\ pane.prog # "shell"
  /\ FlowAt("end")
  /\ UNCHANGED <<pane, doc, typing, seen, conversations, spent>>

\* The conversation of the document that the command read, or a new one.
ConversationFor_Mint(to, from) == IF to = Claude THEN 1 + spent.commands ELSE 0
ConversationFor(to, from) ==
  IF to # Claude THEN 0 ELSE IF from # 0 THEN from ELSE 1 + spent.commands

FlowLaunches ==
  /\ flow.at = "launch"
  /\ \/ /\ Launch(flow.to, ConversationFor(flow.to, flow.from))
        /\ flow' = [flow EXCEPT !.at = "record",
                               !.from = ConversationFor(flow.to, flow.from)]
     \/ /\ pane.prog = "none"
        /\ FlowAt("end")
        /\ UNCHANGED <<pane, conversations>>
  /\ UNCHANGED <<doc, typing, seen, spent>>

FlowRecords ==
  /\ flow.at = "record"
  /\ doc' = [doc EXCEPT !.agent = flow.to,
                       !.conversation = IF flow.to = Claude THEN flow.from ELSE @]
  /\ FlowAt("ready")
  /\ UNCHANGED <<pane, typing, seen, conversations, spent>>

\* Half a minute at most, whether or not the agent is up; then the context.
FlowTypes ==
  /\ flow.at = "ready"
  /\ typing' = At("switch", "text")
  /\ FlowAt("context")
  /\ UNCHANGED <<pane, doc, seen, conversations, spent>>

FlowTyped ==
  /\ flow.at = "context"
  /\ Over("switch")
  /\ FlowAt("end")
  /\ typing' = At("switch", "off")
  /\ UNCHANGED <<pane, doc, seen, conversations, spent>>

\* finally: the flag is taken off whatever happened.
FlowEnds ==
  /\ flow.at = "end"
  /\ doc' = [doc EXCEPT !.switching = FALSE]
  /\ flow' = NoFlow
  /\ UNCHANGED <<pane, typing, seen, conversations, spent>>

(***************************************************************************)
(* Discovery reads the pane and, awaits later, writes what it read.        *)
(***************************************************************************)
DiscoveryReads ==
  /\ seen = "nothing"
  /\ pane.prog # "none"
  /\ seen' = IF pane.prog = "shell" THEN "unknown" ELSE pane.who
  /\ UNCHANGED <<pane, doc, typing, flow, conversations, spent>>

DiscoveryWrites_Once ==
  /\ seen # "nothing"
  /\ seen' = "nothing"
  /\ UNCHANGED <<pane, doc, typing, flow, conversations, spent>>

\* An agent that it does not recognize leaves agent_type as it was.
DiscoveryWrites ==
  /\ seen # "nothing"
  /\ doc' = [doc EXCEPT !.agent = IF seen = "unknown" THEN @ ELSE seen]
  /\ seen' = "nothing"
  /\ UNCHANGED <<pane, typing, flow, conversations, spent>>

(***************************************************************************)
(* Agents, and the worker.                                                 *)
(***************************************************************************)
AgentUp ==
  /\ pane.prog = "boot"
  /\ pane' = [pane EXCEPT !.prog = "agent"]
  /\ UNCHANGED <<doc, typing, flow, seen, conversations, spent>>

AgentLost ==
  /\ pane.prog \in {"boot", "agent"}
  /\ spent.losses < MaxLosses
  /\ spent' = [spent EXCEPT !.losses = @ + 1]
  /\ pane' = Shell
  /\ UNCHANGED <<doc, typing, flow, seen, conversations>>

\* The tasks of the process are gone; tmux and the documents are not.
Crash ==
  /\ spent.crashes < MaxCrashes
  /\ spent' = [spent EXCEPT !.crashes = @ + 1]
  /\ typing' = [t \in Typists |-> Still]
  /\ flow' = NoFlow
  /\ seen' = "nothing"
  /\ UNCHANGED <<pane, doc, conversations>>

Command == \/ HandleText \/ HandleInputStopped \/ HandleKill
           \/ HandleSwitchAgent \/ HandleResume
Types(t) == TypeAndSubmit(t) \/ RelaunchOpens(t) \/ RelaunchTypes(t)
Consumer == Types("consumer") \/ HandlerEnds
Waker(w) == Types(w) \/ WakerTypes(w) \/ WakerEnds(w)
Flow == \/ Types("switch") \/ FlowAsked \/ FlowStops \/ FlowAborts \/ FlowLaunches
        \/ FlowRecords \/ FlowTypes \/ FlowTyped \/ FlowEnds
Discovery == DiscoveryReads \/ DiscoveryWrites
Next == \/ Command \/ Consumer \/ Flow \/ Discovery \/ AgentUp \/ AgentLost \/ Crash
        \/ \E w \in Wakers : Waker(w)

\* Users' commands, losses and crashes need not happen; tasks go on.
Spec == Init /\ [][Next]_vars
Fairness == /\ WF_vars(Consumer) /\ WF_vars(Flow) /\ WF_vars(DiscoveryReads)
            /\ WF_vars(DiscoveryWrites) /\ WF_vars(AgentUp)
            /\ \A w \in Wakers : WF_vars(Waker(w))
FairSpec == Spec /\ Fairness

(***************************************************************************)
(* Properties.                                                             *)
(***************************************************************************)
\* A session that comes back to Claude comes back to its conversation: unless
\* the worker died, it was never launched with two ids.
OneConversation == spent.crashes = 0 => Cardinality(conversations) <= 1

\* A change of provider ends, whatever becomes of the pane and whoever types
\* meanwhile: the flag that refuses another one is only left by a dead worker.
SwitchEnds == []<>(doc.switching => spent.crashes > 0)

\* The document comes to name the agent that runs, after changes of provider
\* and resumes that cross each other.
DocFollowsPane == []<>(pane.prog = "agent" => doc.agent = pane.who)

\* Both: what commands, the change of provider, tasks that wake the session and
\* discovery do to one pane and one document comes to an end and agrees.
SwitchSettles == SwitchEnds /\ DocFollowsPane
=============================================================================
