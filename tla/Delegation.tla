----------------------------- MODULE Delegation -----------------------------
(***************************************************************************)
(* Sessions that other sessions delegated work to (`sf delegate`).         *)
(*                                                                         *)
(* Two loops of the worker of a child's host look after it.  handoff_notify *)
(* tells the parent once that the child is over; idle_watchdog nudges a    *)
(* child that got stuck and, in the end, tells the parent.  Both read the  *)
(* children's documents once and act on them one await after the other,    *)
(* while agents write their handoff, users kill, purge and delegate again, *)
(* discovery rewrites the documents, and the worker may die between a      *)
(* publish and the mark that it was done.  Durations (GRACE, MIN_AGE,      *)
(* NUDGE_INTERVALS, RESET_AFTER) are flags that time sets.                 *)
(***************************************************************************)
EXTENDS Naturals, Sequences, FiniteSets

CONSTANTS
  Parent,       \* the session that delegates
  Children,     \* the sessions it delegates to
  Hosts,        \* host_id of every worker
  HostOf,       \* the host of each session
  ReuseNames,   \* whether a child may take the name of one stopped, not purged
  Watchdog_On,  \* SF_IDLE_WATCHDOG
  Stalls,       \* the ways a child gets stuck
  MaxNudges,    \* SF_IDLE_MAX_NUDGES
  MaxStalls,    \* times a child gets stuck
  MaxRequests,  \* delegations, kills and purges asked of the API
  MaxFaults     \* crashes, failed publishes and expired commands

Sessions == Children \cup {Parent}

ASSUME DelegationAssumption ==
  /\ Parent \notin Children
  /\ HostOf \in [Sessions -> Hosts]
  /\ Stalls \subseteq {"asking", "idle", "silent"}
  /\ {ReuseNames, Watchdog_On} \subseteq BOOLEAN
  /\ {MaxNudges, MaxStalls, MaxRequests, MaxFaults} \subseteq Nat

VARIABLES
  agent,        \* what a session's pane shows: no tmux, a bare shell, or an agent
  doc,          \* the child documents; of the parent's, only the status is used
  file,         \* <name>.handoff.json: the round that wrote it, older than GRACE or not
  round,        \* history: how many times each name was created
  queue,        \* sessionflow.commands.<host>
  output,       \* session_output: the last round whose HANDOFF text the parent's pane showed
  notify,       \* where handoff_notify is in its pass
  watch,        \* where idle_watchdog is in its pass
  worker,       \* whether the worker of a host runs
  sent,         \* history of the round: notices published, notice dropped, own notice sent
  pokes,        \* history: nudges published since the child last made progress
  spent         \* requests, stalls and faults so far

vars == <<agent, doc, file, round, queue, output, notify, watch, worker, sent, pokes, spent>>

Moods == Stalls \cup {"working"}
Ages == {"young", "grown", "old"}   \* under MIN_AGE, under MAX_AGE (48 h), over it
END_STATUSES == {"stopped", "detached"}
Document == [made : BOOLEAN, born : Nat, age : Ages,
             status : {"alive", "detached", "stopped"}, mood : Moods, progress : BOOLEAN,
             notified : BOOLEAN, nudges : 0..MaxNudges, cooled : BOOLEAN, escalated : BOOLEAN]
NoDoc == [made |-> FALSE, born |-> 0, age |-> "young", status |-> "stopped",
          mood |-> "working", progress |-> FALSE, notified |-> FALSE,
          nudges |-> 0, cooled |-> TRUE, escalated |-> FALSE]
Idle == [step |-> "idle", todo |-> {}]
Command == [type : {"create", "kill", "own", "notice", "nudge", "escalation"},
            to : Sessions, about : Children]
FromWorkers == {"notice", "nudge", "escalation"}

\* What a pass keeps of a document that it listed.
Listings == [child : Children, born : Nat, age : Ages,
             status : {"alive", "detached", "stopped"}, file : [round : Nat, ripe : BOOLEAN]]
Watchings == [child : Children, born : Nat, mood : Moods, nudges : 0..MaxNudges,
              cooled : BOOLEAN, escalated : BOOLEAN, progress : BOOLEAN]

\* A pass is over when nothing is left of it; it listed each of its host's children
\* once, and no round that is still to come.
PassOK(pass) ==
  \A h \in Hosts :
    /\ pass[h].step = "idle" <=> pass[h].todo = {}
    /\ \A s \in pass[h].todo : HostOf[s.child] = h /\ s.born \in 1..round[s.child]
    /\ \A s, t \in pass[h].todo : s.child = t.child => s = t

\* No document or handoff is ahead of the rounds, and a worker's passes and its
\* queue are about sessions of its own host.
TypeOK ==
  /\ agent \in [Sessions -> {"none", "shell"} \cup Moods]
  /\ doc \in [Sessions -> Document]
  /\ file \in [Children -> [round : Nat, ripe : BOOLEAN]]
  /\ round \in [Children -> Nat]
  /\ \A c \in Children : /\ doc[c].born <= round[c] /\ file[c].round <= round[c]
                         /\ doc[c].made <=> doc[c].born > 0
  /\ queue \in [Hosts -> Seq(Command)]
  /\ \A h \in Hosts : \A i \in 1..Len(queue[h]) :
       /\ HostOf[queue[h][i].to] = h
       /\ queue[h][i].type = "create" => queue[h][i].to \in Children
  /\ output \in [Children -> Nat]
  /\ notify \in [Hosts -> [step : {"idle", "look", "publish", "mark"}, todo : SUBSET Listings]]
  /\ watch \in [Hosts -> [step : {"idle", "look", "publish", "write"}, todo : SUBSET Watchings]]
  /\ PassOK(notify) /\ PassOK(watch)
  /\ worker \in [Hosts -> {"up", "down"}]
  /\ sent \in [Children -> [notices : Nat, dropped : BOOLEAN, own : BOOLEAN]]
  /\ pokes \in [Children -> Nat]
  /\ spent \in [requests : 0..MaxRequests, stalls : 0..MaxStalls, faults : 0..MaxFaults]

Init ==
  /\ agent = [s \in Sessions |-> IF s = Parent THEN "working" ELSE "none"]
  /\ doc = [s \in Sessions |->
              IF s = Parent THEN [NoDoc EXCEPT !.made = TRUE, !.status = "alive"] ELSE NoDoc]
  /\ file = [c \in Children |-> [round |-> 0, ripe |-> FALSE]]
  /\ round = [c \in Children |-> 0]
  /\ queue = [h \in Hosts |-> <<>>]
  /\ output = [c \in Children |-> 0]
  /\ notify = [h \in Hosts |-> Idle] /\ watch = [h \in Hosts |-> Idle]
  /\ worker = [h \in Hosts |-> "up"]
  /\ sent = [c \in Children |-> [notices |-> 0, dropped |-> FALSE, own |-> FALSE]]
  /\ pokes = [c \in Children |-> 0]
  /\ spent = [requests |-> 0, stalls |-> 0, faults |-> 0]

Gone(s) == agent[s] = "none"
Alive(s) == agent[s] \in Moods
Send(type, s, c) ==
  queue' = [queue EXCEPT ![HostOf[s]] = Append(@, [type |-> type, to |-> s, about |-> c])]
Fault == /\ spent.faults < MaxFaults
         /\ spent' = [spent EXCEPT !.faults = @ + 1]

----------------------------------------------------------------------------
(* What users ask of the API. *)

Request == /\ spent.requests < MaxRequests
           /\ spent' = [spent EXCEPT !.requests = @ + 1]

\* sf delegate: refused while a document of that name is not stopped.
Delegate(c) ==
  /\ Request
  /\ ~doc[c].made \/ (ReuseNames /\ doc[c].status = "stopped")
  /\ Send("create", c, c)
  /\ UNCHANGED <<agent, doc, file, round, output, notify, watch, worker, sent, pokes>>

Kill(s) ==
  /\ Request
  /\ doc[s].made
  /\ \E c \in Children : Send("kill", s, c)
  /\ UNCHANGED <<agent, doc, file, round, output, notify, watch, worker, sent, pokes>>

\* The document goes at once; the worker then kills what is left of it.
Purge(c) ==
  /\ Request
  /\ doc[c].made
  /\ doc' = [doc EXCEPT ![c] = NoDoc]
  /\ Send("kill", c, c)
  /\ UNCHANGED <<agent, file, round, output, notify, watch, worker, sent, pokes>>

----------------------------------------------------------------------------
(* What agents do, and what time and discovery make of it. *)

Stall(c) ==
  /\ agent[c] = "working"
  /\ spent.stalls < MaxStalls
  /\ spent' = [spent EXCEPT !.stalls = @ + 1]
  /\ \E m \in Stalls : agent' = [agent EXCEPT ![c] = m]
  /\ UNCHANGED <<doc, file, round, queue, output, notify, watch, worker, sent, pokes>>

Work(c) ==
  /\ agent[c] \in Stalls
  /\ agent' = [agent EXCEPT ![c] = "working"]
  /\ UNCHANGED <<doc, file, round, queue, output, notify, watch, worker, sent, pokes, spent>>

Quit(c) ==
  /\ Alive(c)
  /\ agent' = [agent EXCEPT ![c] = "shell"]
  /\ UNCHANGED <<doc, file, round, queue, output, notify, watch, worker, sent, pokes, spent>>

WriteHandoff(c) ==
  /\ agent[c] = "working" /\ file[c].round # round[c]
  /\ file' = [file EXCEPT ![c] = [round |-> round[c], ripe |-> FALSE]]
  /\ UNCHANGED <<agent, doc, round, queue, output, notify, watch, worker, sent, pokes, spent>>

\* The agent itself tells its parent, as its task asks of it.
TellParent(c) ==
  /\ Alive(c) /\ file[c].round = round[c] /\ ~sent[c].own
  /\ Send("own", Parent, c)
  /\ sent' = [sent EXCEPT ![c].own = TRUE]
  /\ UNCHANGED <<agent, doc, file, round, output, notify, watch, worker, pokes, spent>>

Ripen(c) ==
  /\ file[c].round > 0 /\ ~file[c].ripe
  /\ file' = [file EXCEPT ![c].ripe = TRUE]
  /\ UNCHANGED <<agent, doc, round, queue, output, notify, watch, worker, sent, pokes, spent>>

Older == [young |-> "grown", grown |-> "old"]
Age(c) ==
  /\ doc[c].made /\ doc[c].age # "old"
  /\ doc' = [doc EXCEPT ![c].age = Older[@]]
  /\ UNCHANGED <<agent, file, round, queue, output, notify, watch, worker, sent, pokes, spent>>

\* NUDGE_INTERVALS are no shorter than what a command lives in a queue.
Queued(type, s) == \E i \in 1..Len(queue[HostOf[s]]) :
  queue[HostOf[s]][i].type = type /\ queue[HostOf[s]][i].to = s
Cool(c) ==
  /\ ~doc[c].cooled
  /\ ~Queued("nudge", c)
  /\ doc' = [doc EXCEPT ![c].cooled = TRUE]
  /\ UNCHANGED <<agent, file, round, queue, output, notify, watch, worker, sent, pokes, spent>>

\* What a cycle writes of a session; a screen that changed is activity, and
\* progress when the last nudge or escalation was RESET_AFTER ago.
Observed(s) == IF Gone(s) THEN "stopped" ELSE IF Alive(s) THEN "alive" ELSE "detached"
Changed(s) == Alive(s) /\ (agent[s] # doc[s].mood \/ agent[s] = "working")
Marks(d) == d.nudges > 0 \/ d.escalated
Discover(s) ==
  /\ worker[HostOf[s]] = "up" /\ doc[s].made
  /\ \E progress \in IF Changed(s) /\ Marks(doc[s]) THEN {doc[s].progress, TRUE} ELSE {doc[s].progress} :
       /\ doc' = [doc EXCEPT ![s].status = Observed(s), ![s].progress = progress,
                             ![s].mood = IF Alive(s) THEN agent[s] ELSE @]
       /\ pokes' = IF progress /\ ~doc[s].progress THEN [pokes EXCEPT ![s] = 0] ELSE pokes
  /\ UNCHANGED <<agent, file, round, queue, output, notify, watch, worker, sent, spent>>

\* A cycle that listed tmux before the child was created.
DiscoverLate(c) ==
  /\ worker[HostOf[c]] = "up" /\ doc[c].made /\ doc[c].age = "young"
  /\ doc' = [doc EXCEPT ![c].status = "stopped"]
  /\ UNCHANGED <<agent, file, round, queue, output, notify, watch, worker, sent, pokes, spent>>

----------------------------------------------------------------------------
(* The command consumer of a host. *)

Cmd(h) == Head(queue[h])
Taking(h, types) ==
  /\ worker[h] = "up" /\ queue[h] # <<>> /\ Cmd(h).type \in types
  /\ queue' = [queue EXCEPT ![h] = Tail(@)]

\* The upsert of create: what it sets, on a document that may be there already.
Upserted(c) ==
  IF doc[c].made THEN [doc[c] EXCEPT !.status = "alive"]
  ELSE [NoDoc EXCEPT !.made = TRUE, !.born = round[c] + 1, !.status = "alive"]

Create(h) ==
  LET c == Cmd(h).to
  IN /\ Taking(h, {"create"})
     /\ IF Gone(c)
        THEN /\ agent' = [agent EXCEPT ![c] = "working"]
             /\ doc' = [doc EXCEPT ![c] = Upserted(c)]
             /\ round' = [round EXCEPT ![c] = @ + 1]
             /\ sent' = [sent EXCEPT ![c] = [notices |-> 0, dropped |-> FALSE, own |-> FALSE]]
             /\ pokes' = [pokes EXCEPT ![c] = 0]
        ELSE UNCHANGED <<agent, doc, round, sent, pokes>>
     /\ UNCHANGED <<file, output, notify, watch, worker, spent>>

Stop(h) ==
  LET s == Cmd(h).to
  IN /\ Taking(h, {"kill"})
     /\ agent' = [agent EXCEPT ![s] = "none"]
     /\ doc' = [doc EXCEPT ![s].status = "stopped"]
     /\ UNCHANGED <<file, round, output, notify, watch, worker, sent, pokes, spent>>

\* Text typed into a pane.  A stopped session is resumed to receive it, one
\* without a document is unknown; a bare shell gets the text as well.
Shown(h) ==
  IF Cmd(h).type \in {"own", "notice"} THEN [output EXCEPT ![Cmd(h).about] = round[Cmd(h).about]]
  ELSE output
Input(h) ==
  LET s == Cmd(h).to
  IN /\ Taking(h, {"own"} \cup FromWorkers)
     /\ IF Gone(s) /\ ~doc[s].made THEN UNCHANGED <<agent, doc, output>>
        ELSE /\ output' = Shown(h)
             /\ IF Gone(s)
                THEN /\ agent' = [agent EXCEPT ![s] = "working"]
                     /\ doc' = [doc EXCEPT ![s].status = "alive"]
                ELSE UNCHANGED <<agent, doc>>
     /\ UNCHANGED <<file, round, notify, watch, worker, sent, pokes, spent>>

Expire(h) ==
  /\ Fault
  /\ Taking(h, {"create", "own"} \cup FromWorkers)
  /\ UNCHANGED <<agent, doc, file, round, output, notify, watch, worker, sent, pokes>>

Handle(h) == Create(h) \/ Stop(h) \/ Input(h)

----------------------------------------------------------------------------
(* handoff_notify: one pass over the children of a host. *)

Mine_AnyHost(h) == {c \in Children : doc[c].made /\ doc[c].age # "old"}
Mine(h) == {c \in Children : HostOf[c] = h /\ doc[c].made /\ doc[c].age # "old"}
Unnotified(h) == {c \in Mine(h) : ~doc[c].notified}
Pass(h, step, todo) == notify' = [notify EXCEPT ![h] = [step |-> step, todo |-> todo]]
Next_Child(todo) == IF todo = {} THEN "idle" ELSE "look"
Now(pass) == CHOOSE s \in pass.todo : TRUE
At(pass, h, step) == worker[h] = "up" /\ pass[h].step = step

\* The file is read when the child's turn comes, but its age counts from the
\* start of the pass; the document is the one listed.
HasHandoff(s) == file[s.child].round >= s.born /\ file[s.child].round > 0
Finished(s) ==
  IF HasHandoff(s) THEN file[s.child].ripe /\ file[s.child] = s.file
  ELSE /\ s.status \in END_STATUSES /\ s.age # "young"
       /\ s.status = "stopped" => Gone(s.child)

\* Listed: the children a pass may find finished; it passes over the others.
Listed(c) == [child |-> c, born |-> doc[c].born, age |-> doc[c].age,
              status |-> doc[c].status, file |-> file[c]]
Ripe(h) == {c \in Unnotified(h) : file[c].ripe \/ doc[c].status \in END_STATUSES}

NotifyList(h) ==
  /\ At(notify, h, "idle")
  /\ Ripe(h) # {}
  /\ Pass(h, "look", {Listed(c) : c \in Ripe(h)})
  /\ UNCHANGED <<agent, doc, file, round, queue, output, watch, worker, sent, pokes, spent>>

AlreadyTold(s) == output[s.child] >= s.born

\* A parent that is stopped gets no notice.
Routed == doc[Parent].made /\ doc[Parent].status # "stopped"

NotifyLook(h) ==
  LET s == Now(notify[h])
      rest == notify[h].todo \ {s}
      drops == Finished(s) /\ ~AlreadyTold(s) /\ ~Routed
  IN /\ At(notify, h, "look")
     /\ \/ ~Finished(s) /\ Pass(h, Next_Child(rest), rest)
        \/ Finished(s) /\ (AlreadyTold(s) \/ ~Routed) /\ Pass(h, "mark", notify[h].todo)
        \/ Finished(s) /\ ~AlreadyTold(s) /\ Routed /\ Pass(h, "publish", notify[h].todo)
     /\ sent' = IF drops THEN [sent EXCEPT ![s.child].dropped = TRUE] ELSE sent
     /\ UNCHANGED <<agent, doc, file, round, queue, output, watch, worker, pokes, spent>>

NotifyPublish(h) ==
  LET s == Now(notify[h])
      c == s.child
  IN /\ At(notify, h, "publish")
     /\ Send("notice", Parent, c)
     /\ sent' = IF s.born = doc[c].born THEN [sent EXCEPT ![c].notices = @ + 1] ELSE sent
     /\ Pass(h, "mark", notify[h].todo)
     /\ UNCHANGED <<agent, doc, file, round, output, watch, worker, pokes, spent>>

\* The publish raised: the pass ends there, and the next one lists again.
AfterFailure_Marks == "mark"
AfterFailure == "idle"
NotifyFails(h) ==
  /\ Fault
  /\ At(notify, h, "publish")
  /\ Pass(h, AfterFailure, IF AfterFailure = "idle" THEN {} ELSE notify[h].todo)
  /\ UNCHANGED <<agent, doc, file, round, queue, output, watch, worker, sent, pokes>>

\* Written by _id: a document purged meanwhile is not there to be marked.
Marked_Never(d) == d
Marked(d) == [d EXCEPT !.notified = TRUE]
NotifyMark(h) ==
  LET s == Now(notify[h])
      rest == notify[h].todo \ {s}
  IN /\ At(notify, h, "mark")
     /\ doc' = IF doc[s.child].made /\ doc[s.child].born = s.born
               THEN [doc EXCEPT ![s.child] = Marked(@)] ELSE doc
     /\ Pass(h, Next_Child(rest), rest)
     /\ UNCHANGED <<agent, file, round, queue, output, watch, worker, sent, pokes, spent>>

Notify(h) == NotifyList(h) \/ NotifyLook(h) \/ NotifyPublish(h) \/ NotifyMark(h)

----------------------------------------------------------------------------
(* idle_watchdog: one pass over the children of a host. *)

Watch_(h, step, todo) == watch' = [watch EXCEPT ![h] = [step |-> step, todo |-> todo]]

\* The state that counts: none of it after progress, unless the child ended idle.
Effective(s) ==
  IF s.progress /\ s.mood # "idle" THEN [nudges |-> 0, escalated |-> FALSE]
  ELSE [nudges |-> s.nudges, escalated |-> s.escalated]

\* decide
Waits(s) == Effective(s).nudges > 0 /\ ~s.cooled
Nudges_Always(s) == s.mood # "asking" /\ ~Waits(s)
Nudges(s) == s.mood # "asking" /\ Effective(s).nudges < MaxNudges /\ ~Waits(s)
Escalates_Never(s) == FALSE
Escalates(s) == s.mood = "asking" \/ (Effective(s).nudges >= MaxNudges /\ ~Waits(s))
Acts(s) == /\ s.mood # "working" /\ ~Effective(s).escalated
           /\ Nudges(s) \/ Escalates(s)

\* Watched: the children a pass may act on, with their documents as listed.
Watched(c) == [child |-> c, born |-> doc[c].born, mood |-> doc[c].mood,
               nudges |-> doc[c].nudges, cooled |-> doc[c].cooled,
               escalated |-> doc[c].escalated, progress |-> doc[c].progress]
Stuck(h) == {c \in Unnotified(h) :
               doc[c].status = "alive" /\ doc[c].age = "grown" /\ Acts(Watched(c))}

WatchList(h) ==
  /\ Watchdog_On
  /\ At(watch, h, "idle")
  /\ Stuck(h) # {}
  /\ Watch_(h, "look", {Watched(c) : c \in Stuck(h)})
  /\ UNCHANGED <<agent, doc, file, round, queue, output, notify, worker, sent, pokes, spent>>

\* handoff_notify looks after a child that has its handoff.
WatchLook(h) ==
  LET s == Now(watch[h])
      rest == watch[h].todo \ {s}
  IN /\ At(watch, h, "look")
     /\ \/ HasHandoff(s) /\ Watch_(h, Next_Child(rest), rest)
        \/ ~HasHandoff(s) /\ (Nudges(s) \/ Routed) /\ Watch_(h, "publish", watch[h].todo)
        \/ ~HasHandoff(s) /\ ~Nudges(s) /\ ~Routed /\ Watch_(h, "write", watch[h].todo)
     /\ UNCHANGED <<agent, doc, file, round, queue, output, notify, worker, sent, pokes, spent>>

WatchPublish(h) ==
  LET s == Now(watch[h])
      c == s.child
  IN /\ At(watch, h, "publish")
     /\ IF Nudges(s) THEN Send("nudge", c, c) /\ pokes' = [pokes EXCEPT ![c] = @ + 1]
        ELSE Send("escalation", Parent, c) /\ UNCHANGED pokes
     /\ Watch_(h, "write", watch[h].todo)
     /\ UNCHANGED <<agent, doc, file, round, output, notify, worker, sent, spent>>

WatchFails(h) ==
  /\ Fault
  /\ At(watch, h, "publish")
  /\ Watch_(h, "idle", {})
  /\ UNCHANGED <<agent, doc, file, round, queue, output, notify, worker, sent, pokes>>

\* One nudge more, or an escalation.
Written(s, d) ==
  [d EXCEPT !.nudges = IF Nudges(s) THEN Effective(s).nudges + 1 ELSE Effective(s).nudges,
            !.cooled = IF Nudges(s) THEN FALSE ELSE @,
            !.escalated = IF Nudges(s) THEN Effective(s).escalated ELSE TRUE,
            !.progress = FALSE]
WatchWrite(h) ==
  LET s == Now(watch[h])
      rest == watch[h].todo \ {s}
  IN /\ At(watch, h, "write")
     /\ doc' = IF doc[s.child].made /\ doc[s.child].born = s.born
               THEN [doc EXCEPT ![s.child] = Written(s, @)] ELSE doc
     /\ Watch_(h, Next_Child(rest), rest)
     /\ UNCHANGED <<agent, file, round, queue, output, notify, worker, sent, pokes, spent>>

Watchdog(h) == WatchList(h) \/ WatchLook(h) \/ WatchPublish(h) \/ WatchWrite(h)

----------------------------------------------------------------------------
Crash(h) ==
  /\ worker[h] = "up"
  /\ Fault
  /\ worker' = [worker EXCEPT ![h] = "down"]
  /\ notify' = [notify EXCEPT ![h] = Idle]
  /\ watch' = [watch EXCEPT ![h] = Idle]
  /\ UNCHANGED <<agent, doc, file, round, queue, output, sent, pokes>>

Restart(h) ==
  /\ worker[h] = "down"
  /\ worker' = [worker EXCEPT ![h] = "up"]
  /\ doc' = [s \in Sessions |-> IF HostOf[s] = h /\ Gone(s) THEN [doc[s] EXCEPT !.status = "stopped"]
                                ELSE doc[s]]
  /\ UNCHANGED <<agent, file, round, queue, output, notify, watch, sent, pokes, spent>>

User == (\E c \in Children : Delegate(c) \/ Purge(c)) \/ (\E s \in Sessions : Kill(s))
Agents ==
  \E c \in Children : Stall(c) \/ Work(c) \/ Quit(c) \/ WriteHandoff(c) \/ TellParent(c)
Time == \E c \in Children : Ripen(c) \/ Age(c) \/ Cool(c)

Next ==
  \/ User \/ Agents \/ Time
  \/ \E s \in Sessions : Discover(s)
  \/ \E c \in Children : DiscoverLate(c)
  \/ \E h \in Hosts : \/ Handle(h) \/ Expire(h)
                      \/ Notify(h) \/ NotifyFails(h) \/ Watchdog(h) \/ WatchFails(h)
                      \/ Crash(h) \/ Restart(h)

Spec == Init /\ [][Next]_vars

\* Loops that run every 5, 15 or 60 s, time, and a daemon that is restarted;
\* users and agents do as they like, and nothing turns 48 h old by force.
FairSpec ==
  /\ Spec
  /\ \A h \in Hosts : /\ WF_vars(Handle(h)) /\ WF_vars(Notify(h))
                      /\ WF_vars(Watchdog(h)) /\ WF_vars(Restart(h))
  /\ \A s \in Sessions : WF_vars(Discover(s))
  /\ \A c \in Children : /\ WF_vars(Ripen(c)) /\ WF_vars(Cool(c))
                         /\ WF_vars(doc[c].age = "young" /\ Age(c))

----------------------------------------------------------------------------
(* What must hold. *)

\* A round of a child makes at most one notice, whatever the passes read and
\* whoever else tells the parent; each fault may cost one more.
ToldOnce == \A c \in Children : sent[c].notices <= 1 + spent.faults

\* A child is nudged at most MaxNudges times between two signs of progress; each
\* fault may cost one nudge more, and so may a pass that listed the session of
\* that name which was purged before.
Inherited(c) == IF round[c] > 1 THEN 1 ELSE 0
NudgesBounded == \A c \in Children : pokes[c] <= MaxNudges + spent.faults + Inherited(c)

\* Why they hold: the inductive invariant of the two.  What a pass has yet to mark
\* is unmarked, and a notice is counted as spent once its mark is on the way.
Marking(c) ==
  LET pass == notify[HostOf[c]] IN
  pass.step = "mark" /\ Now(pass).child = c /\ Now(pass).born = doc[c].born
Untold(c) == doc[c].made /\ ~doc[c].notified /\ ~Marking(c)
ListedUnmarked ==
  \A h \in Hosts : \A s \in notify[h].todo :
    doc[s.child].born = s.born => ~doc[s.child].notified
NoticesCounted ==
  \A c \in Children : sent[c].notices <= spent.faults + (IF Untold(c) THEN 0 ELSE 1)

\* No more nudges were published than the document counts, one on the way to be
\* counted aside, nor than a pass that has yet to publish its own has read.
Counted(d) == IF d.progress THEN 0 ELSE d.nudges
Published(h, s) == watch[h].step = "write" /\ s = Now(watch[h])
Nudged(h, s) == IF Published(h, s) /\ Nudges(s) THEN 1 ELSE 0
Counting(c) ==
  LET h == HostOf[c]  s == Now(watch[h]) IN
  IF watch[h].step = "write" /\ s.child = c /\ s.born = doc[c].born THEN Nudged(h, s) ELSE 0
DocCounts ==
  \A c \in Children : doc[c].made =>
    pokes[c] <= Counted(doc[c]) + Counting(c) + spent.faults + Inherited(c)
PassCounts ==
  \A h \in Hosts : \A s \in watch[h].todo :
    LET c == s.child IN
    IF doc[c].made /\ s.born # doc[c].born
    THEN round[c] > 1 /\ pokes[c] <= Nudged(h, s)
    ELSE pokes[c] <= Counted(s) + Nudged(h, s) + spent.faults + Inherited(c)

IndInv == ListedUnmarked /\ NoticesCounted /\ DocCounts /\ PassCounts /\ NudgesBounded

\* The parent of a child that finished this round, or whose session ended, is
\* told in this round: by the worker, by the agent itself, or not at all only
\* because the parent was stopped.
Over(c) ==
  /\ doc[c].made /\ doc[c].age # "old"
  /\ \/ file[c].round = round[c] /\ file[c].ripe
     \/ agent[c] \in {"none", "shell"}
Told(c) == sent[c].notices > 0 \/ sent[c].dropped \/ output[c] = round[c]
EachRoundIsTold == \A c \in Children : Over(c) ~> (Told(c) \/ ~Over(c))

\* The parent hears of a child that stays stuck for good.
StuckForGood(c) == <>[](/\ agent[c] \in Stalls /\ doc[c].made /\ doc[c].age = "grown"
                        /\ ~HasHandoff(Watched(c)))
StuckIsEscalated ==
  \A c \in Children : StuckForGood(c) => <>(doc[c].escalated \/ doc[c].notified)
=============================================================================
