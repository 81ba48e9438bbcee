------------------------------- MODULE Schedules -------------------------------
(***************************************************************************)
(* Scheduled commands: a text that the API types into a session every so   *)
(* often (`scheduled_commands`).                                           *)
(*                                                                         *)
(* One background loop of the API lists the commands that are due and, for *)
(* each, looks its session up, publishes an `input` and reschedules the    *)
(* command, one await after the other.  Routes of the same process create, *)
(* edit, pause, resume and delete the commands meanwhile; an edit itself   *)
(* reads the document and writes it an await later.  Time is counted in    *)
(* units of the shortest interval.                                         *)
(***************************************************************************)
EXTENDS Naturals, FiniteSets

CONSTANTS
  Ids,        \* _id of every scheduled command there will be
  SessionOf,  \* the session each is for
  Intervals,  \* the intervals users choose, in units of time
  Users,      \* the PATCH requests that may be in flight at once
  MaxEdits,   \* requests users make of the API
  MaxFaults   \* API restarts and failed publishes

ASSUME SchedulesAssumption ==
  /\ Intervals \subseteq Nat \ {0}
  /\ Intervals # {}
  /\ MaxEdits \in Nat /\ MaxFaults \in Nat

VARIABLES
  command,   \* the documents of scheduled_commands
  sessions,  \* the sessions that have a document
  edit,      \* where each PATCH request is
  tick,      \* where the loop is in its pass
  api,       \* whether the API runs
  fires,     \* history: publishes since the command last became due
  late,      \* history: publishes since the command was last paused or deleted
  spent      \* edits and faults so far

vars == <<command, sessions, edit, tick, api, fires, late, spent>>

Waits == {0} \cup Intervals \cup UNION {1..i : i \in Intervals}
Command == [state : {"none", "on", "paused", "deleted"}, interval : Intervals, wait : Waits]
Due_ == [id : Ids, interval : Intervals]
Patch_ == [id : Ids, interval : Intervals \cup {0}, state : {"keep", "on", "paused"},
           resuming : {"yes", "no"}]
Quiet == [step |-> "idle", todo |-> {}, now |-> {}]

\* A pass is at one command, which it took out of its list, or at the next of
\* them; nothing is listed between passes, nor before it was created.
TypeOK ==
  /\ command \in [Ids -> Command]
  /\ sessions \subseteq {SessionOf[c] : c \in Ids}
  /\ edit \in [Users -> SUBSET Patch_]
  /\ tick \in [step : {"idle", "look", "publish", "mark"}, todo : SUBSET Due_, now : SUBSET Due_]
  /\ tick.step = "idle" => tick.todo = {} /\ tick.now = {}
  /\ tick.step = "look" => tick.todo # {} /\ tick.now = {}
  /\ tick.step \in {"publish", "mark"} => \E d \in Due_ : tick.now = {d}
  /\ \A d \in tick.todo \cup tick.now : command[d.id].state # "none"
  /\ api \in {"up", "down"}
  /\ fires \in [Ids -> Nat] /\ late \in [Ids -> Nat]
  /\ spent \in [edits : 0..MaxEdits, faults : 0..MaxFaults]

Init ==
  /\ command \in [Ids -> [state : {"none"}, interval : {CHOOSE i \in Intervals : TRUE}, wait : {0}]]
  /\ sessions = {SessionOf[c] : c \in Ids}
  /\ edit = [u \in Users |-> {}]
  /\ tick = Quiet
  /\ api = "up"
  /\ fires = [c \in Ids |-> 0] /\ late = [c \in Ids |-> 0]
  /\ spent = [edits |-> 0, faults |-> 0]

Live(c) == command[c].state \in {"on", "paused"}
Edit == /\ api = "up"
        /\ spent.edits < MaxEdits
        /\ spent' = [spent EXCEPT !.edits = @ + 1]
Fault == /\ spent.faults < MaxFaults
         /\ spent' = [spent EXCEPT !.faults = @ + 1]

----------------------------------------------------------------------------
(* What users ask of the API. *)

\* Due at once: the first run comes with the next pass.
Create(c) ==
  /\ Edit
  /\ command[c].state = "none" /\ SessionOf[c] \in sessions
  /\ \E i \in Intervals :
       command' = [command EXCEPT ![c] = [state |-> "on", interval |-> i, wait |-> 0]]
  /\ UNCHANGED <<sessions, edit, tick, api, fires, late>>

Delete(c) ==
  /\ Edit
  /\ Live(c)
  /\ command' = [command EXCEPT ![c].state = "deleted"]
  /\ late' = [late EXCEPT ![c] = 0]
  /\ UNCHANGED <<sessions, edit, tick, api, fires>>

\* The session is purged; its scheduled commands stay.
Purge(s) ==
  /\ Edit
  /\ sessions' = sessions \ {s}
  /\ UNCHANGED <<command, edit, tick, api, fires, late>>

\* A PATCH: what it sets, and what it found when it read the document.
PatchRead(u, c) ==
  /\ Edit
  /\ edit[u] = {} /\ Live(c)
  /\ \E i \in Intervals \cup {0}, st \in {"keep", "on", "paused"} :
       /\ i # 0 \/ st # "keep"
       /\ edit' = [edit EXCEPT ![u] =
            {[id |-> c, interval |-> i, state |-> st,
              resuming |-> IF st = "on" /\ command[c].state = "paused" THEN "yes" ELSE "no"]}]
  /\ UNCHANGED <<command, sessions, tick, api, fires, late>>

\* Resuming makes it due now, a new interval alone counts from now.
Patched(d, p) ==
  [state |-> IF p.state = "keep" THEN d.state ELSE p.state,
   interval |-> IF p.interval = 0 THEN d.interval ELSE p.interval,
   wait |-> IF p.resuming = "yes" THEN 0 ELSE IF p.interval # 0 THEN p.interval ELSE d.wait]
PatchWrite(u) ==
  \E p \in edit[u] :
    LET c == p.id
    IN /\ command' = IF Live(c) THEN [command EXCEPT ![c] = Patched(@, p)] ELSE command
       /\ fires' = IF Live(c) /\ p.resuming = "yes" THEN [fires EXCEPT ![c] = 0] ELSE fires
       /\ late' = IF command[c].state = "on" /\ p.state = "paused" THEN [late EXCEPT ![c] = 0]
                  ELSE late
       /\ edit' = [edit EXCEPT ![u] = {}]
       /\ UNCHANGED <<sessions, tick, api, spent>>

----------------------------------------------------------------------------
(* The loop. *)

Step(step, todo, now) == tick' = [step |-> step, todo |-> todo, now |-> now]
AfterThis_Look == "look"
AfterThis == IF tick.todo = {} THEN "idle" ELSE "look"

IsDue_Paused(c) == Live(c) /\ command[c].wait = 0
IsDue(c) == command[c].state = "on" /\ command[c].wait = 0
TickList ==
  /\ api = "up" /\ tick.step = "idle"
  /\ \E c \in Ids : IsDue(c)
  /\ Step("look", {[id |-> c, interval |-> command[c].interval] : c \in {c \in Ids : IsDue(c)}}, {})
  /\ UNCHANGED <<command, sessions, edit, api, fires, late, spent>>

\* A command whose session is gone is rescheduled like the others, with an error.
WithoutSession_Raises(d) == Step("idle", {}, {})
WithoutSession(d) == Step("mark", tick.todo \ {d}, {d})
TickLook ==
  /\ api = "up" /\ tick.step = "look"
  /\ \E d \in tick.todo :
       IF SessionOf[d.id] \in sessions THEN Step("publish", tick.todo \ {d}, {d})
       ELSE WithoutSession(d)
  /\ UNCHANGED <<command, sessions, edit, api, fires, late, spent>>

TickPublish ==
  /\ api = "up" /\ tick.step = "publish"
  /\ \E d \in tick.now :
       /\ fires' = [fires EXCEPT ![d.id] = @ + 1]
       /\ late' = IF command[d.id].state = "on" THEN late ELSE [late EXCEPT ![d.id] = @ + 1]
  /\ Step("mark", tick.todo, tick.now)
  /\ UNCHANGED <<command, sessions, edit, api, spent>>

TickPublishFails ==
  /\ Fault
  /\ api = "up" /\ tick.step = "publish"
  /\ Step("mark", tick.todo, tick.now)
  /\ UNCHANGED <<command, sessions, edit, api, fires, late>>

\* mark_ran: the next run counts the interval that the pass listed.
Marked_Undated(d, listed) == d
Marked(d, listed) == [d EXCEPT !.wait = listed.interval]
TickMark ==
  /\ api = "up" /\ tick.step = "mark"
  /\ \E d \in tick.now :
       command' = IF Live(d.id) THEN [command EXCEPT ![d.id] = Marked(@, d)] ELSE command
  /\ Step(AfterThis, tick.todo, {})
  /\ UNCHANGED <<sessions, edit, api, fires, late, spent>>

Tick == TickList \/ TickLook \/ TickPublish \/ TickMark

\* A unit of time goes by for every command.
Earlier(d) == [d EXCEPT !.wait = IF @ = 0 THEN 0 ELSE @ - 1]
Time ==
  /\ \E c \in Ids : command[c].wait # 0
  /\ command' = [c \in Ids |-> Earlier(command[c])]
  /\ fires' = [c \in Ids |-> IF command[c].wait = 1 THEN 0 ELSE fires[c]]
  /\ UNCHANGED <<sessions, edit, tick, api, late, spent>>

Restart ==
  /\ api = "down"
  /\ api' = "up"
  /\ UNCHANGED <<command, sessions, edit, tick, fires, late, spent>>

Crash ==
  /\ api = "up"
  /\ Fault
  /\ api' = "down"
  /\ edit' = [u \in Users |-> {}]
  /\ tick' = Quiet
  /\ UNCHANGED <<command, sessions, fires, late>>

Next ==
  \/ \E c \in Ids : Create(c) \/ Delete(c) \/ Purge(SessionOf[c])
  \/ \E u \in Users : (\E c \in Ids : PatchRead(u, c)) \/ PatchWrite(u)
  \/ Tick \/ TickPublishFails \/ Time \/ Crash \/ Restart

Spec == Init /\ [][Next]_vars

\* The loop runs every scheduler_poll_seconds; compose restarts the API.
FairSpec ==
  /\ Spec
  /\ WF_vars(Tick) /\ WF_vars(Time) /\ WF_vars(Restart)
  /\ \A u \in Users : WF_vars(PatchWrite(u))

----------------------------------------------------------------------------
(* What must hold. *)

\* Each time it is due a command is sent once, whatever users edit while the
\* pass is on; each fault may cost one more.
OncePerDue == \A c \in Ids : fires[c] <= 1 + spent.faults

\* A command paused or deleted is sent at most once more, by the pass that had
\* listed it.
LateAtMostOnce == \A c \in Ids : late[c] <= 1

\* A command that stays on keeps being sent, whatever becomes of the others.
KeepsFiring ==
  \A c \in Ids :
    <>[](command[c].state = "on" /\ SessionOf[c] \in sessions)
      => []<>(fires[c] > 0) /\ []<>(fires[c] = 0)

\* A command that is on never waits longer than its interval.
WaitsItsInterval ==
  \A c \in Ids : command[c].state = "on" => command[c].wait <= command[c].interval
=============================================================================
