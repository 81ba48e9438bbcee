------------------------------ MODULE Api_proofs ------------------------------
(***************************************************************************)
(* Proofs about what the API serves: that a scheduled command is sent once *)
(* each time it is due, and at most once after it was paused or deleted;   *)
(* that a demand is claimed once, its claimer's text stands, and its status*)
(* moves as the API allows; the types of every part; that a command to a   *)
(* host is not forgotten, a stream keeps its newest frame, and a bridge is *)
(* known by its id as by its name.                                         *)
(***************************************************************************)
EXTENDS MCApi, Sequences, FiniteSetTheorems, WellFoundedInduction, TLAPS

-----------------------------------------------------------------------------
(* The scheduler. *)

\* What the pass has yet to send, and what it sent and has yet to reschedule.
Unsent == tick.todo \cup (IF tick.step = "publish" THEN tick.now ELSE {})
Unmarked == IF tick.step = "mark" THEN tick.now ELSE {}

\* A command is in the pass once.
OneEntry ==
  /\ \A d, e \in tick.todo : d.id = e.id => d = e
  /\ \A d \in tick.todo, e \in tick.now : d.id # e.id

\* What the pass has yet to send was not sent since it became due, but for
\* faults; nor was what is due and not about to be rescheduled.
UnsentOnce == \A d \in Unsent : fires[d.id] <= spent.faults
DueOnce ==
  \A c \in Ids : Live(c) /\ command[c].wait = 0 /\ (\A d \in Unmarked : d.id # c)
                   => fires[c] <= spent.faults
NewOnce == \A c \in Ids : command[c].state = "none" => fires[c] = 0

\* What was paused or deleted while the pass had yet to send it was not sent since.
UnsentLate == \A d \in Unsent : command[d.id].state # "on" => late[d.id] = 0

Once == TypeOK /\ OneEntry /\ UnsentOnce /\ DueOnce /\ NewOnce /\ OncePerDue
Late == TypeOK /\ OneEntry /\ UnsentLate /\ LateAtMostOnce

-----------------------------------------------------------------------------
LEMMA WaitTypes ==
  /\ Waits \subseteq Nat /\ 0 \in Waits /\ Intervals \subseteq Waits
  /\ \A w \in Waits : w # 0 => w - 1 \in Waits
<1>1. Waits \subseteq Nat /\ 0 \in Waits /\ Intervals \subseteq Waits
  <2>1. ASSUME NEW w \in Waits PROVE w \in Nat
    <3>1. CASE w \in {0} \cup Intervals
      BY <3>1, SchedulesAssumption
    <3>2. CASE \E i \in Intervals : w \in 1..i
      BY <3>2, SchedulesAssumption
    <3> QED BY <3>1, <3>2 DEF Waits
  <2> QED BY <2>1 DEF Waits
<1>2. ASSUME NEW w \in Waits, w # 0 PROVE w - 1 \in Waits
  <2>1. PICK i \in Intervals : w \in 1..i
    BY <1>2, SchedulesAssumption DEF Waits
  <2>2. w - 1 = 0 \/ w - 1 \in 1..i
    BY <2>1, SchedulesAssumption
  <2> QED BY <2>1, <2>2 DEF Waits
<1> QED BY <1>1, <1>2

LEMMA InitType == Init => TypeOK
<1> SUFFICES ASSUME Init PROVE TypeOK
  OBVIOUS
<1>1. (CHOOSE i \in Intervals : TRUE) \in Intervals
  BY SchedulesAssumption
<1>2. command \in [Ids -> Command]
  BY <1>1, WaitTypes DEF Init, Command
<1>3. tick = [step |-> "idle", todo |-> {}, now |-> {}]
  BY DEF Init, Quiet
<1>4. spent \in [edits : 0..MaxEdits, faults : 0..MaxFaults]
  BY SchedulesAssumption DEF Init
<1> QED BY <1>2, <1>3, <1>4 DEF Init, TypeOK

-----------------------------------------------------------------------------
LEMMA Spending == TypeOK =>
  /\ Edit => spent'.faults = spent.faults /\ spent' \in [edits : 0..MaxEdits, faults : 0..MaxFaults]
  /\ Fault => spent'.faults = spent.faults + 1 /\ spent' \in [edits : 0..MaxEdits, faults : 0..MaxFaults]
<1> SUFFICES ASSUME TypeOK
             PROVE  /\ Edit => spent'.faults = spent.faults /\ spent' \in [edits : 0..MaxEdits, faults : 0..MaxFaults]
                    /\ Fault => spent'.faults = spent.faults + 1 /\ spent' \in [edits : 0..MaxEdits, faults : 0..MaxFaults]
  OBVIOUS
<1>1. /\ spent \in [edits : 0..MaxEdits, faults : 0..MaxFaults]
      /\ MaxEdits \in Nat /\ MaxFaults \in Nat
  BY SchedulesAssumption DEF TypeOK
<1>2. ASSUME Edit PROVE spent'.faults = spent.faults /\ spent' \in [edits : 0..MaxEdits, faults : 0..MaxFaults]
  BY <1>1, <1>2 DEF Edit
<1>3. ASSUME Fault PROVE spent'.faults = spent.faults + 1 /\ spent' \in [edits : 0..MaxEdits, faults : 0..MaxFaults]
  BY <1>1, <1>3 DEF Fault
<1> QED BY <1>2, <1>3

LEMMA StepType == TypeOK /\ [Next]_vars => TypeOK'
<1> SUFFICES ASSUME TypeOK, [Next]_vars PROVE TypeOK'
  OBVIOUS
<1> USE DEF TypeOK
<1>1. ASSUME NEW c \in Ids, Create(c) PROVE TypeOK'
  <2>1. command' \in [Ids -> Command]
    BY <1>1, WaitTypes DEF Create, Command
  <2>2. \A d \in tick.todo \cup tick.now : command'[d.id].state # "none"
    BY <1>1 DEF Create
  <2> QED BY <1>1, <2>1, <2>2, Spending DEF Create
<1>2. ASSUME NEW c \in Ids, Delete(c) PROVE TypeOK'
  <2>1. command' \in [Ids -> Command]
    BY <1>2 DEF Delete, Command
  <2>2. \A d \in tick.todo \cup tick.now : command'[d.id].state # "none"
    BY <1>2 DEF Delete, Command
  <2> QED BY <1>2, <2>1, <2>2, Spending DEF Delete
<1>3. ASSUME NEW s, Purge(s) PROVE TypeOK'
  BY <1>3, Spending DEF Purge
<1>4. ASSUME NEW u \in Users, NEW c \in Ids, PatchRead(u, c) PROVE TypeOK'
  <2>1. edit' \in [Users -> SUBSET Patch_]
    BY <1>4 DEF PatchRead, Patch_
  <2> QED BY <1>4, <2>1, Spending DEF PatchRead
<1>5. ASSUME NEW u \in Users, PatchWrite(u) PROVE TypeOK'
  <2>1. PICK p \in edit[u] :
          /\ command' = IF Live(p.id) THEN [command EXCEPT ![p.id] = Patched(@, p)] ELSE command
          /\ fires' = IF Live(p.id) /\ p.resuming = "yes" THEN [fires EXCEPT ![p.id] = 0] ELSE fires
          /\ late' = IF command[p.id].state = "on" /\ p.state = "paused" THEN [late EXCEPT ![p.id] = 0]
                     ELSE late
    BY <1>5 DEF PatchWrite
  <2>2. p \in Patch_
    OBVIOUS
  <2>3. \A d \in Command : d.state \in {"on", "paused"} =>
           Patched(d, p) \in Command /\ Patched(d, p).state # "none"
    BY <2>2, WaitTypes DEF Patched, Command, Patch_
  <2>4. command' \in [Ids -> Command]
    BY <2>1, <2>2, <2>3 DEF Live, Patch_
  <2>5. \A d \in tick.todo \cup tick.now : command'[d.id].state # "none"
    BY <2>1, <2>2, <2>3 DEF Live, Patch_, Due_
  <2>6. fires' \in [Ids -> Nat] /\ late' \in [Ids -> Nat]
    BY <2>1, <2>2 DEF Patch_
  <2> QED BY <1>5, <2>4, <2>5, <2>6 DEF PatchWrite
<1>6. ASSUME TickList PROVE TypeOK'
  <2> DEFINE T == {[id |-> c, interval |-> command[c].interval] : c \in {c \in Ids : IsDue(c)}}
  <2>a. tick' = [step |-> "look", todo |-> T, now |-> {}]
    BY <1>6 DEF TickList, Step
  <2>b. \A d \in T : d \in Due_
    BY DEF Due_, Command
  <2>c. PICK c \in Ids : IsDue(c)
    BY <1>6 DEF TickList
  <2>d. [id |-> c, interval |-> command[c].interval] \in T
    BY <2>c
  <2>1. tick'.todo \in SUBSET Due_ /\ tick'.todo # {}
    BY <2>a, <2>b, <2>d
  <2>2. \A d \in tick'.todo \cup tick'.now : command[d.id].state # "none"
    BY <1>6 DEF TickList, Step, IsDue
  <2> QED BY <1>6, <2>1, <2>2 DEF TickList, Step
<1>7. ASSUME TickLook PROVE TypeOK'
  BY <1>7 DEF TickLook, Step, WithoutSession
<1>8. ASSUME TickPublish PROVE TypeOK'
  <2>1. fires' \in [Ids -> Nat] /\ late' \in [Ids -> Nat]
    BY <1>8 DEF TickPublish, Due_
  <2> QED BY <1>8, <2>1 DEF TickPublish, Step
<1>9. ASSUME TickPublishFails PROVE TypeOK'
  BY <1>9, Spending DEF TickPublishFails, Step
<1>10. ASSUME TickMark PROVE TypeOK'
  <2>1. command' \in [Ids -> Command]
    BY <1>10, WaitTypes DEF TickMark, Marked, Command, Due_
  <2>2. \A d \in Due_ : command[d.id].state # "none" => command'[d.id].state # "none"
    BY <1>10 DEF TickMark, Marked, Command, Due_
  <2> QED BY <1>10, <2>1, <2>2 DEF TickMark, Step, AfterThis
<1>11. ASSUME Time PROVE TypeOK'
  <2>1. \A d \in Command : Earlier(d) \in Command /\ Earlier(d).state = d.state
    BY WaitTypes DEF Earlier, Command
  <2>2. command' \in [Ids -> Command] /\ \A c \in Ids : command'[c].state = command[c].state
    BY <1>11, <2>1 DEF Time
  <2> QED BY <1>11, <2>2 DEF Time, Due_
<1>12. ASSUME Crash PROVE TypeOK'
  BY <1>12, Spending DEF Crash, Quiet
<1>13. ASSUME Restart PROVE TypeOK'
  BY <1>13 DEF Restart
<1>14. CASE UNCHANGED vars
  BY <1>14 DEF vars
<1> QED BY <1>1, <1>2, <1>3, <1>4, <1>5, <1>6, <1>7, <1>8, <1>9, <1>10, <1>11, <1>12, <1>13, <1>14
        DEF Next, Tick

\* Every reachable state of Schedules has its types: a pass is at one command,
\* which was created.
THEOREM TypeCorrect == Spec => []TypeOK
<1> QED BY InitType, StepType, PTL DEF Spec

-----------------------------------------------------------------------------
\* The pass holds each command once.
LEMMA OneEntryStep == TypeOK /\ OneEntry /\ [Next]_vars => OneEntry'
<1> SUFFICES ASSUME TypeOK, OneEntry, [Next]_vars PROVE OneEntry'
  OBVIOUS
<1>1. CASE UNCHANGED tick
  BY <1>1 DEF OneEntry
<1>2. CASE TickList
  <2> DEFINE T == {[id |-> c, interval |-> command[c].interval] : c \in {c \in Ids : IsDue(c)}}
  <2>1. tick' = [step |-> "look", todo |-> T, now |-> {}]
    BY <1>2 DEF TickList, Step
  <2>2. \A d, e \in T : d.id = e.id => d = e
    OBVIOUS
  <2> QED BY <2>1, <2>2 DEF OneEntry
<1>3. CASE TickLook
  BY <1>3 DEF TickLook, Step, WithoutSession, OneEntry
<1>4. CASE TickPublish \/ TickPublishFails
  BY <1>4 DEF TickPublish, TickPublishFails, Step, OneEntry
<1>5. CASE TickMark
  BY <1>5 DEF TickMark, Step, OneEntry
<1>6. CASE Crash
  BY <1>6 DEF Crash, Quiet, OneEntry
<1> QED BY <1>1, <1>2, <1>3, <1>4, <1>5, <1>6
        DEF Next, Tick, Create, Delete, Purge, PatchRead, PatchWrite, Time, Restart, vars

LEMMA OnceStep == Once /\ [Next]_vars => Once'
<1> SUFFICES ASSUME Once, [Next]_vars PROVE Once'
  OBVIOUS
<1>t. TypeOK /\ TypeOK' /\ OneEntry'
  BY StepType, OneEntryStep DEF Once
<1>n. /\ spent.faults \in Nat /\ spent'.faults \in Nat
      /\ fires \in [Ids -> Nat] /\ fires' \in [Ids -> Nat]
  BY <1>t, SchedulesAssumption DEF TypeOK
<1>d. \A d \in tick.todo \cup tick.now : d.id \in Ids /\ d.interval \in Nat \ {0} /\ command[d.id].state # "none"
  BY <1>t, SchedulesAssumption DEF TypeOK, Due_
<1> SUFFICES UnsentOnce' /\ DueOnce' /\ NewOnce' /\ OncePerDue'
  BY <1>t DEF Once
<1> USE <1>n DEF OncePerDue, NewOnce
<1>1. ASSUME NEW c \in Ids, Create(c) PROVE UnsentOnce' /\ DueOnce' /\ NewOnce' /\ OncePerDue'
  <2>1. spent'.faults = spent.faults /\ UNCHANGED <<fires, tick>>
    BY <1>1, <1>t, Spending DEF Create
  <2>2. \A e \in Ids : e # c => command'[e] = command[e]
    BY <1>1, <1>t DEF Create, TypeOK
  <2>3. command[c].state = "none" /\ command'[c].state = "on"
    BY <1>1, <1>t DEF Create, TypeOK
  <2> QED BY <2>1, <2>2, <2>3 DEF Once, UnsentOnce, DueOnce, Unsent, Unmarked, Live
<1>2. ASSUME NEW c \in Ids, Delete(c) PROVE UnsentOnce' /\ DueOnce' /\ NewOnce' /\ OncePerDue'
  <2>1. spent'.faults = spent.faults /\ UNCHANGED <<fires, tick>>
    BY <1>2, <1>t, Spending DEF Delete
  <2>2. \A e \in Ids : e # c => command'[e] = command[e]
    BY <1>2, <1>t DEF Delete, TypeOK
  <2>3. command'[c].state = "deleted"
    BY <1>2, <1>t DEF Delete, TypeOK, Command
  <2> QED BY <2>1, <2>2, <2>3 DEF Once, UnsentOnce, DueOnce, Unsent, Unmarked, Live
<1>3. ASSUME Edit, UNCHANGED <<fires, tick, command>>
      PROVE UnsentOnce' /\ DueOnce' /\ NewOnce' /\ OncePerDue'
  <2>1. spent'.faults = spent.faults
    BY <1>3, <1>t, Spending
  <2> QED BY <1>3, <2>1 DEF Once, UnsentOnce, DueOnce, Unsent, Unmarked, Live
<1>4. ASSUME NEW u \in Users, PatchWrite(u)
      PROVE UnsentOnce' /\ DueOnce' /\ NewOnce' /\ OncePerDue'
  <2>1. PICK p \in edit[u] :
          /\ command' = IF Live(p.id) THEN [command EXCEPT ![p.id] = Patched(@, p)] ELSE command
          /\ fires' = IF Live(p.id) /\ p.resuming = "yes" THEN [fires EXCEPT ![p.id] = 0] ELSE fires
          /\ UNCHANGED <<tick, spent>>
    BY <1>4 DEF PatchWrite
  <2>a. p \in Patch_
    BY <1>t DEF TypeOK
  <2>b. p.id \in Ids /\ p.interval \in Intervals \cup {0} /\ p.state \in {"keep", "on", "paused"}
    BY <2>a DEF Patch_
  <2>c. \A i \in Intervals \cup {0} : i \in Nat
    BY SchedulesAssumption
  <2>2. p.id \in Ids /\ p.interval \in Nat /\ p.state \in {"keep", "on", "paused"}
    BY <2>b, <2>c
  <2>3. \A e \in Ids : e # p.id => command'[e] = command[e]
    BY <1>t, <2>1, <2>2 DEF TypeOK
  <2>4. CASE ~Live(p.id)
    BY <2>1, <2>4 DEF Once, UnsentOnce, DueOnce, Unsent, Unmarked, Live
  <2>5. CASE Live(p.id)
    <3>1. command'[p.id] = Patched(command[p.id], p)
      BY <1>t, <2>1, <2>2, <2>5 DEF TypeOK
    <3>2. command'[p.id].wait = 0 /\ p.resuming # "yes" => command[p.id].wait = 0
      BY <3>1, <2>2 DEF Patched
    <3>3. command'[p.id].state # "none"
      BY <3>1, <2>2, <2>5 DEF Patched, Live
    <3>4. \A e \in Ids : fires'[e] <= fires[e] /\ (e = p.id /\ p.resuming = "yes" => fires'[e] = 0)
      BY <2>1, <2>2, <2>5
    <3>5. UnsentOnce'
      BY <1>d, <2>1, <3>4 DEF Once, UnsentOnce, Unsent
    <3>6. DueOnce'
      BY <2>1, <2>3, <2>5, <3>2, <3>4 DEF Once, DueOnce, Unmarked, Live
    <3> QED BY <2>1, <2>3, <3>3, <3>4, <3>5, <3>6 DEF Once
  <2> QED BY <2>4, <2>5
<1>5. ASSUME TickList PROVE UnsentOnce' /\ DueOnce' /\ NewOnce' /\ OncePerDue'
  <2> DEFINE T == {[id |-> c, interval |-> command[c].interval] : c \in {c \in Ids : IsDue(c)}}
  <2>1. /\ tick' = [step |-> "look", todo |-> T, now |-> {}] /\ tick.step = "idle"
        /\ UNCHANGED <<command, fires, spent>>
    BY <1>5 DEF TickList, Step
  <2>2. \A d \in T : d.id \in Ids /\ IsDue(d.id)
    OBVIOUS
  <2>3. \A c \in Ids : Live(c) /\ command[c].wait = 0 => fires[c] <= spent.faults
    BY <2>1 DEF Once, DueOnce, Unmarked
  <2>4. UnsentOnce'
    BY <2>1, <2>2, <2>3 DEF UnsentOnce, Unsent, IsDue, Live
  <2>5. DueOnce'
    BY <2>1, <2>3 DEF DueOnce, Unmarked, Live
  <2> QED BY <2>1, <2>4, <2>5 DEF Once
<1>6. ASSUME TickLook PROVE UnsentOnce' /\ DueOnce' /\ NewOnce' /\ OncePerDue'
  <2>1. PICK d \in tick.todo :
          IF SessionOf[d.id] \in sessions THEN Step("publish", tick.todo \ {d}, {d})
          ELSE Step("mark", tick.todo \ {d}, {d})
    BY <1>6 DEF TickLook, WithoutSession
  <2>2. tick.step = "look" /\ UNCHANGED <<command, fires, spent>>
    BY <1>6 DEF TickLook
  <2> QED BY <2>1, <2>2 DEF Once, UnsentOnce, DueOnce, Unsent, Unmarked, Step, Live
<1>7. ASSUME TickPublish PROVE UnsentOnce' /\ DueOnce' /\ NewOnce' /\ OncePerDue'
  <2>1. PICK d \in tick.now : fires' = [fires EXCEPT ![d.id] = @ + 1]
    BY <1>7 DEF TickPublish
  <2>2. /\ tick.step = "publish" /\ tick' = [step |-> "mark", todo |-> tick.todo, now |-> tick.now]
        /\ UNCHANGED <<command, spent>>
    BY <1>7 DEF TickPublish, Step
  <2>3. d.id \in Ids /\ fires[d.id] <= spent.faults
    BY <1>d, <2>1, <2>2 DEF Once, UnsentOnce, Unsent
  <2>4. \A e \in Ids : fires'[e] = IF e = d.id THEN fires[e] + 1 ELSE fires[e]
    BY <2>1
  <2>5. UnsentOnce'
    BY <1>d, <2>1, <2>2, <2>4 DEF Once, UnsentOnce, Unsent, OneEntry
  <2>6. DueOnce'
    BY <2>1, <2>2, <2>4 DEF Once, DueOnce, Unmarked, Live
  <2> QED BY <1>d, <2>1, <2>2, <2>3, <2>4, <2>5, <2>6 DEF Once
<1>8. ASSUME TickPublishFails PROVE UnsentOnce' /\ DueOnce' /\ NewOnce' /\ OncePerDue'
  <2>1. /\ tick.step = "publish" /\ tick' = [step |-> "mark", todo |-> tick.todo, now |-> tick.now]
        /\ UNCHANGED <<command, fires>> /\ spent'.faults = spent.faults + 1
    BY <1>8, <1>t, Spending DEF TickPublishFails, Step
  <2>2. \A c \in Ids : fires'[c] <= spent'.faults
    BY <2>1 DEF Once
  <2>3. \A d \in Unsent' : d.id \in Ids
    BY <1>d, <2>1 DEF Unsent
  <2> QED BY <2>1, <2>2, <2>3 DEF Once, UnsentOnce, DueOnce
<1>9. ASSUME TickMark PROVE UnsentOnce' /\ DueOnce' /\ NewOnce' /\ OncePerDue'
  <2>1. PICK d \in tick.now :
          command' = IF Live(d.id) THEN [command EXCEPT ![d.id] = Marked(@, d)] ELSE command
    BY <1>9 DEF TickMark
  <2>2. /\ tick.step = "mark" /\ tick'.step # "publish" /\ tick'.step # "mark" /\ tick'.todo = tick.todo
        /\ UNCHANGED <<fires, spent>>
    BY <1>9 DEF TickMark, Step, AfterThis
  <2>3. d.id \in Ids /\ d.interval # 0 /\ \A e \in tick.now : e = d
    BY <1>d, <1>t, <2>1, <2>2 DEF TypeOK
  <2>4. /\ \A e \in Ids : e # d.id => command'[e] = command[e]
        /\ Live(d.id) => command'[d.id].wait # 0
        /\ \A e \in Ids : command'[e].state = command[e].state
    BY <1>t, <2>1, <2>3 DEF TypeOK, Marked, Command
  <2>5. UnsentOnce'
    BY <2>2 DEF Once, UnsentOnce, Unsent
  <2>6. DueOnce'
    BY <2>2, <2>3, <2>4 DEF Once, DueOnce, Unmarked, Live
  <2> QED BY <2>2, <2>4, <2>5, <2>6 DEF Once
<1>10. ASSUME Time PROVE UnsentOnce' /\ DueOnce' /\ NewOnce' /\ OncePerDue'
  <2>1. /\ UNCHANGED <<tick, spent>>
        /\ \A c \in Ids : /\ command'[c] = Earlier(command[c])
                          /\ fires'[c] = IF command[c].wait = 1 THEN 0 ELSE fires[c]
    BY <1>10 DEF Time
  <2>2. \A c \in Ids : /\ command'[c].state = command[c].state
                       /\ command'[c].wait = 0 => command[c].wait \in {0, 1}
    BY <2>1, <1>t, WaitTypes DEF Earlier, TypeOK, Command
  <2>3. \A c \in Ids : fires'[c] <= fires[c] /\ (command[c].wait = 1 => fires'[c] = 0)
    BY <2>1
  <2>4. UnsentOnce'
    BY <1>d, <2>1, <2>3 DEF Once, UnsentOnce, Unsent
  <2>5. DueOnce'
    BY <2>1, <2>2, <2>3 DEF Once, DueOnce, Unmarked, Live
  <2> QED BY <2>1, <2>2, <2>3, <2>4, <2>5 DEF Once
<1>11. ASSUME Crash PROVE UnsentOnce' /\ DueOnce' /\ NewOnce' /\ OncePerDue'
  <2>1. tick' = Quiet /\ UNCHANGED <<command, fires>> /\ spent'.faults = spent.faults + 1
    BY <1>11, <1>t, Spending DEF Crash
  <2>2. \A c \in Ids : fires'[c] <= spent'.faults
    BY <2>1 DEF Once
  <2> QED BY <2>1, <2>2 DEF Once, UnsentOnce, DueOnce, Unsent, Quiet
<1>12. ASSUME UNCHANGED <<command, tick, fires, spent>>
       PROVE UnsentOnce' /\ DueOnce' /\ NewOnce' /\ OncePerDue'
  BY <1>12 DEF Once, UnsentOnce, DueOnce, Unsent, Unmarked, Live
<1> QED BY <1>1, <1>2, <1>3, <1>4, <1>5, <1>6, <1>7, <1>8, <1>9, <1>10, <1>11, <1>12
        DEF Next, Tick, Purge, PatchRead, Restart, vars

\* A command is sent once each time it is due, and once more per fault: `_tick`
\* publishes before it marks, over a list it read before.
THEOREM SentOncePerDue == Spec => []OncePerDue
<1>1. Init => Once
  <2>1. Init => TypeOK
    BY InitType
  <2>2. Init => OneEntry /\ UnsentOnce /\ DueOnce /\ NewOnce /\ OncePerDue
    BY SchedulesAssumption
    DEF Init, Quiet, OneEntry, UnsentOnce, DueOnce, NewOnce, OncePerDue, Unsent, Live
  <2> QED BY <2>1, <2>2 DEF Once
<1>2. Once => OncePerDue
  BY DEF Once
<1> QED BY <1>1, <1>2, OnceStep, PTL DEF Spec

-----------------------------------------------------------------------------
LEMMA LateStep == Late /\ [Next]_vars => Late'
<1> SUFFICES ASSUME Late, [Next]_vars PROVE Late'
  OBVIOUS
<1>t. TypeOK /\ TypeOK' /\ OneEntry'
  BY StepType, OneEntryStep DEF Late
<1>n. late \in [Ids -> Nat] /\ command \in [Ids -> Command]
  BY <1>t DEF TypeOK
<1>d. \A d \in tick.todo \cup tick.now : d.id \in Ids /\ command[d.id].state # "none"
  BY <1>t DEF TypeOK, Due_
<1> SUFFICES UnsentLate' /\ LateAtMostOnce'
  BY <1>t DEF Late
<1> USE <1>n, <1>d DEF LateAtMostOnce
<1>1. ASSUME NEW c \in Ids, Create(c) PROVE UnsentLate' /\ LateAtMostOnce'
  <2>1. /\ command[c].state = "none" /\ UNCHANGED <<late, tick>>
        /\ \A e \in Ids : e # c => command'[e] = command[e]
    BY <1>1 DEF Create
  <2> QED BY <2>1 DEF Late, UnsentLate, Unsent
<1>2. ASSUME NEW c \in Ids, Delete(c) PROVE UnsentLate' /\ LateAtMostOnce'
  <2>1. /\ UNCHANGED tick
        /\ \A e \in Ids : /\ e # c => command'[e] = command[e]
                          /\ late'[e] = IF e = c THEN 0 ELSE late[e]
    BY <1>2 DEF Delete
  <2> QED BY <2>1 DEF Late, UnsentLate, Unsent
<1>3. ASSUME NEW u \in Users, PatchWrite(u) PROVE UnsentLate' /\ LateAtMostOnce'
  <2>1. PICK p \in edit[u] :
          /\ command' = IF Live(p.id) THEN [command EXCEPT ![p.id] = Patched(@, p)] ELSE command
          /\ late' = IF command[p.id].state = "on" /\ p.state = "paused" THEN [late EXCEPT ![p.id] = 0]
                     ELSE late
          /\ UNCHANGED tick
    BY <1>3 DEF PatchWrite
  <2>2. p \in Patch_
    BY <1>t DEF TypeOK
  <2>3. p.id \in Ids /\ p.state \in {"keep", "on", "paused"}
    BY <2>2 DEF Patch_
  <2>4. \A e \in Ids : late'[e] = 0 \/ late'[e] = late[e]
    BY <2>1, <2>3
  <2>5. \A e \in Ids : command'[e].state # "on" => command[e].state # "on" \/ late'[e] = 0
    <3>1. \A e \in Ids : e # p.id => command'[e] = command[e]
      BY <2>1, <2>3
    <3>2. CASE ~Live(p.id)
      BY <2>1, <3>2
    <3>3. CASE Live(p.id)
      <4>1. command'[p.id].state = IF p.state = "keep" THEN command[p.id].state ELSE p.state
        BY <2>1, <2>3, <3>3 DEF Patched
      <4>2. command[p.id].state = "on" /\ p.state = "paused" => late'[p.id] = 0
        BY <2>1, <2>3
      <4> QED BY <2>3, <3>1, <4>1, <4>2
    <3> QED BY <3>2, <3>3
  <2>6. UnsentLate'
    BY <2>1, <2>4, <2>5 DEF Late, UnsentLate, Unsent
  <2> QED BY <2>4, <2>6 DEF Late
<1>4. ASSUME TickList PROVE UnsentLate' /\ LateAtMostOnce'
  <2> DEFINE T == {[id |-> c, interval |-> command[c].interval] : c \in {c \in Ids : IsDue(c)}}
  <2>1. tick' = [step |-> "look", todo |-> T, now |-> {}] /\ UNCHANGED <<command, late>>
    BY <1>4 DEF TickList, Step
  <2>2. \A d \in T : IsDue(d.id)
    OBVIOUS
  <2> QED BY <2>1, <2>2 DEF Late, UnsentLate, Unsent, IsDue
<1>5. ASSUME TickLook PROVE UnsentLate' /\ LateAtMostOnce'
  BY <1>5 DEF TickLook, WithoutSession, Step, Late, UnsentLate, Unsent
<1>6. ASSUME TickPublish PROVE UnsentLate' /\ LateAtMostOnce'
  <2>1. PICK d \in tick.now :
          late' = IF command[d.id].state = "on" THEN late ELSE [late EXCEPT ![d.id] = @ + 1]
    BY <1>6 DEF TickPublish
  <2>2. /\ tick.step = "publish" /\ tick' = [step |-> "mark", todo |-> tick.todo, now |-> tick.now]
        /\ UNCHANGED command
    BY <1>6 DEF TickPublish, Step
  <2>3. command[d.id].state # "on" => late[d.id] = 0
    BY <2>1, <2>2 DEF Late, UnsentLate, Unsent
  <2>4. \A e \in Ids : late'[e] = late[e] \/ (e = d.id /\ late'[e] = 1)
    BY <2>1, <2>3
  <2>5. \A e \in tick.todo : e.id # d.id
    BY <2>1 DEF Late, OneEntry
  <2>6. UnsentLate'
    BY <2>2, <2>4, <2>5 DEF Late, UnsentLate, Unsent
  <2> QED BY <2>4, <2>6 DEF Late
<1>7. ASSUME TickPublishFails PROVE UnsentLate' /\ LateAtMostOnce'
  BY <1>7 DEF TickPublishFails, Step, Late, UnsentLate, Unsent
<1>8. ASSUME TickMark PROVE UnsentLate' /\ LateAtMostOnce'
  <2>1. /\ tick.step = "mark" /\ tick'.step # "publish" /\ tick'.todo = tick.todo
        /\ UNCHANGED late
    BY <1>8 DEF TickMark, Step, AfterThis
  <2>2. \A e \in Ids : command'[e].state = command[e].state
    BY <1>8 DEF TickMark, Marked, Command
  <2> QED BY <2>1, <2>2 DEF Late, UnsentLate, Unsent
<1>9. ASSUME Time PROVE UnsentLate' /\ LateAtMostOnce'
  <2>1. UNCHANGED <<tick, late>> /\ \A e \in Ids : command'[e].state = command[e].state
    BY <1>9 DEF Time, Earlier, Command
  <2> QED BY <2>1 DEF Late, UnsentLate, Unsent
<1>10. ASSUME Crash PROVE UnsentLate' /\ LateAtMostOnce'
  BY <1>10 DEF Crash, Quiet, Late, UnsentLate, Unsent
<1>11. ASSUME UNCHANGED <<command, tick, late>> PROVE UnsentLate' /\ LateAtMostOnce'
  BY <1>11 DEF Late, UnsentLate, Unsent
<1> QED BY <1>1, <1>2, <1>3, <1>4, <1>5, <1>6, <1>7, <1>8, <1>9, <1>10, <1>11
        DEF Next, Tick, Purge, PatchRead, Restart, vars

\* A command that was paused or deleted is sent at most once more, by the pass
\* of `_tick` that had listed it, however many edits follow.
THEOREM LateOnlyOnce == Spec => []LateAtMostOnce
<1>1. Init => Late
  <2>1. Init => TypeOK
    BY InitType
  <2>2. Init => OneEntry /\ UnsentLate /\ LateAtMostOnce
    BY DEF Init, Quiet, OneEntry, UnsentLate, LateAtMostOnce, Unsent
  <2> QED BY <2>1, <2>2 DEF Late
<1>2. Late => LateAtMostOnce
  BY DEF Late
<1> QED BY <1>1, <1>2, LateStep, PTL DEF Spec

-----------------------------------------------------------------------------
(* The queue of demands, for any clients, demands and texts. *)

Claimed == {"in_progress", "completed", "error"}

(***************************************************************************)
(* What ClaimStands rests on.                                              *)
(***************************************************************************)
\* A demand was claimed once if it has left "pending", else never: the filter of
\* the write is what makes the step from "pending" happen once.
ClaimedOnce == \A d \in Demands_ : d_claims[d] = IF d_status[d] \in Claimed THEN 1 ELSE 0

\* Only what was claimed was given to somebody.
GivenClaimed ==
  \A d \in Demands_ : d_given[d] # NoText => d_given[d] = d_text[d] /\ d_status[d] \in Claimed

\* A request asks for what is allowed of the status that it has read: a new text
\* of what was pending alone.
Allowed(r) ==
  /\ r.status = r.expected \/ r.status \in D!Transitions[r.expected]
  /\ r.text # NoText => r.expected = "pending"
RequestsAllowed ==
  \A c \in Clients : d_request[c].does = "patch" => Allowed(d_request[c])

\* Between the write of a claim and its answer the demand stays claimed.
ClaimsAnswered ==
  \A c \in Clients :
    d_request[c].does = "answer" /\ d_request[c].expected = "pending"
      /\ d_request[c].status = "in_progress"
    => d_status[d_request[c].demand] \in Claimed

DemandsInv == /\ D!TypeOK /\ ClaimedOnce /\ GivenClaimed
       /\ RequestsAllowed /\ ClaimsAnswered

----------------------------------------------------------------------------
\* A request that reads "patch" or "answer" has the fields of a patch, and one
\* that reads "delete" those of a delete.
LEMMA RequestShape ==
  ASSUME D!TypeOK, NEW c \in Clients
  PROVE  /\ d_request[c].does \in {"patch", "answer"} => d_request[c] \in D!Patches
         /\ d_request[c].does = "delete" => d_request[c] \in D!Deletes
BY DEF D!TypeOK, D!NoRequest, D!Patches, D!Deletes

\* From "pending" a demand goes to "in_progress" or stays; what was claimed stays
\* claimed.
LEMMA AllowedMoves ==
  ASSUME NEW r \in D!Patches, Allowed(r)
  PROVE  /\ r.expected = "pending" => r.status \in {"pending", "in_progress"}
         /\ r.expected \in Claimed => r.status \in Claimed
         /\ r.expected \in Claimed => r.text = NoText
BY DEF D!Patches, Allowed, D!Transitions, Claimed, D!Statuses

LEMMA DemandsInit == D!Init => DemandsInv
BY DEF D!Init, DemandsInv, D!TypeOK, ClaimedOnce, GivenClaimed, RequestsAllowed, ClaimsAnswered,
   D!NoRequest, Claimed

\* A demand that was created is pending, claimed by nobody.
LEMMA CreateInv ==
  ASSUME DemandsInv, NEW d \in Demands_, NEW words \in Texts, D!Create(d, words)
  PROVE  DemandsInv'
<1>1. D!TypeOK'
  BY DEF DemandsInv, D!TypeOK, D!Create, D!Statuses
<1>2. ClaimedOnce' /\ GivenClaimed'
  BY DEF DemandsInv, D!TypeOK, ClaimedOnce, GivenClaimed, D!Create, Claimed
<1>3. RequestsAllowed'
  BY DEF DemandsInv, RequestsAllowed, Allowed, D!Create
<1>4. ClaimsAnswered'
  <2> SUFFICES ASSUME NEW c \in Clients, d_request[c].does = "answer",
                      d_request[c].expected = "pending", d_request[c].status = "in_progress"
               PROVE  d_status'[d_request[c].demand] \in Claimed
    BY DEF ClaimsAnswered, D!Create
  <2>1. d_status[d_request[c].demand] \in Claimed
    BY DEF DemandsInv, ClaimsAnswered
  <2> QED BY <2>1, RequestShape DEF DemandsInv, D!TypeOK, D!Create, Claimed, D!Patches
<1> QED BY <1>1, <1>2, <1>3, <1>4 DEF DemandsInv

\* A patch reads a status and asks what is allowed of it.
LEMMA PatchReadsInv ==
  ASSUME DemandsInv, NEW c \in Clients, NEW d \in Demands_, NEW new \in D!Statuses,
         NEW words \in Texts \cup {NoText}, D!PatchReads(c, d, new, words)
  PROVE  DemandsInv'
<1> DEFINE r == [does |-> "patch", demand |-> d, expected |-> d_status[d],
                 status |-> new, text |-> words]
<1>1. r \in D!Patches /\ Allowed(r) /\ r.does = "patch"
  BY DEF D!PatchReads, D!Patches, Allowed
<1>2. /\ d_request' = [d_request EXCEPT ![c] = r]
      /\ UNCHANGED <<d_status, d_text, d_claims, d_given>>
  BY DEF D!PatchReads
<1> HIDE DEF r
<1>3. D!TypeOK'
  BY <1>1, <1>2 DEF DemandsInv, D!TypeOK
<1>4. ClaimedOnce' /\ GivenClaimed'
  BY <1>2 DEF DemandsInv, ClaimedOnce, GivenClaimed
<1>5. \A e \in Clients : d_request'[e] = IF e = c THEN r ELSE d_request[e]
  BY <1>2 DEF DemandsInv, D!TypeOK
<1>6. RequestsAllowed'
  BY <1>1, <1>5 DEF DemandsInv, RequestsAllowed, Allowed
<1>7. ClaimsAnswered'
  BY <1>1, <1>2, <1>5 DEF DemandsInv, ClaimsAnswered
<1> QED BY <1>3, <1>4, <1>6, <1>7 DEF DemandsInv

\* A patch writes if the status is still the one it read.
LEMMA PatchWritesInv ==
  ASSUME DemandsInv, NEW c \in Clients, D!PatchWrites(c)
  PROVE  DemandsInv'
<1> DEFINE r == d_request[c]
           d == d_request[c].demand
<1>1. r \in D!Patches /\ Allowed(r) /\ r.does = "patch" /\ d \in Demands_
  BY RequestShape DEF DemandsInv, D!PatchWrites, RequestsAllowed, D!Patches
<1>2. CASE ~D!Matches(r)
  <2>1. /\ d_request' = [d_request EXCEPT ![c] = D!NoRequest]
        /\ UNCHANGED <<d_status, d_text, d_claims, d_given>>
    BY <1>2 DEF D!PatchWrites
  <2>2. \A e \in Clients : d_request'[e] = IF e = c THEN D!NoRequest ELSE d_request[e]
    BY <2>1 DEF DemandsInv, D!TypeOK
  <2>3. D!TypeOK'
    BY <2>1 DEF DemandsInv, D!TypeOK
  <2>4. ClaimedOnce' /\ GivenClaimed'
    BY <2>1 DEF DemandsInv, ClaimedOnce, GivenClaimed
  <2>5. RequestsAllowed' /\ ClaimsAnswered'
    BY <2>1, <2>2 DEF DemandsInv, RequestsAllowed, ClaimsAnswered, D!NoRequest, Allowed
  <2> QED BY <2>3, <2>4, <2>5 DEF DemandsInv
<1>3. CASE D!Matches(r)
  <2> DEFINE claim == r.expected = "pending" /\ r.status = "in_progress"
  <2>1. /\ d_status' = [d_status EXCEPT ![d] = r.status]
        /\ d_text' = [d_text EXCEPT ![d] = IF r.text = NoText THEN @ ELSE r.text]
        /\ d_claims' = [d_claims EXCEPT ![d] = IF claim THEN @ + 1 ELSE @]
        /\ d_request' = [d_request EXCEPT ![c].does = "answer"]
        /\ d_given' = d_given
    BY <1>3 DEF D!PatchWrites
  <2>2. d_status[d] = r.expected
    BY <1>3 DEF D!Matches
  <2>3. [r EXCEPT !.does = "answer"] \in D!Patches
    BY <1>1 DEF D!Patches
  <2>4. \A e \in Clients :
          d_request'[e] = IF e = c THEN [r EXCEPT !.does = "answer"] ELSE d_request[e]
    BY <2>1 DEF DemandsInv, D!TypeOK
  <2>5. D!TypeOK'
    <3>1. d_request' \in [Clients -> {D!NoRequest} \cup D!Patches \cup D!Deletes]
      BY <2>1, <2>3 DEF DemandsInv, D!TypeOK
    <3>2. d_status' \in [Demands_ -> D!Statuses \cup {"unborn", "deleted"}]
      BY <1>1, <2>1 DEF DemandsInv, D!TypeOK, D!Patches
    <3>3. d_text' \in [Demands_ -> Texts \cup {NoText}]
      BY <1>1, <2>1 DEF DemandsInv, D!TypeOK, D!Patches
    <3>4. d_claims' \in [Demands_ -> Nat] /\ d_given' \in [Demands_ -> Texts \cup {NoText}]
      BY <1>1, <2>1 DEF DemandsInv, D!TypeOK
    <3> QED BY <3>1, <3>2, <3>3, <3>4 DEF D!TypeOK
  <2>6. r.expected \in {"pending"} \cup Claimed /\ r.status \in {"pending"} \cup Claimed
    BY <1>1 DEF D!Patches, D!Statuses, Claimed
  <2>7. ClaimedOnce'
    <3> SUFFICES ASSUME NEW e \in Demands_
                 PROVE  d_claims'[e] = IF d_status'[e] \in Claimed THEN 1 ELSE 0
      BY DEF ClaimedOnce
    <3>1. CASE e # d
      BY <3>1, <1>1, <2>1 DEF DemandsInv, D!TypeOK, ClaimedOnce
    <3>2. CASE e = d
      BY <3>2, <1>1, <2>1, <2>2, <2>6, AllowedMoves DEF DemandsInv, D!TypeOK, ClaimedOnce, Claimed
    <3> QED BY <3>1, <3>2
  <2>8. GivenClaimed'
    <3> SUFFICES ASSUME NEW e \in Demands_, d_given[e] # NoText
                 PROVE  d_given[e] = d_text'[e] /\ d_status'[e] \in Claimed
      BY <2>1 DEF GivenClaimed
    <3>1. d_given[e] = d_text[e] /\ d_status[e] \in Claimed
      BY DEF DemandsInv, GivenClaimed
    <3>2. CASE e # d
      BY <3>1, <3>2, <1>1, <2>1 DEF DemandsInv, D!TypeOK
    <3>3. CASE e = d
      BY <3>1, <3>3, <1>1, <2>1, <2>2, AllowedMoves DEF DemandsInv, D!TypeOK
    <3> QED BY <3>2, <3>3
  <2>9. RequestsAllowed'
    BY <1>1, <2>3, <2>4 DEF DemandsInv, RequestsAllowed, Allowed, D!Patches
  <2>10. ClaimsAnswered'
    <3> SUFFICES ASSUME NEW e \in Clients, d_request'[e].does = "answer",
                        d_request'[e].expected = "pending",
                        d_request'[e].status = "in_progress"
                 PROVE  d_status'[d_request'[e].demand] \in Claimed
      BY DEF ClaimsAnswered
    <3>1. CASE e = c
      BY <3>1, <1>1, <2>1, <2>4 DEF DemandsInv, D!TypeOK, Claimed, D!Patches
    <3>2. CASE e # c
      <4>1. d_request'[e] = d_request[e] /\ d_status[d_request[e].demand] \in Claimed
        BY <3>2, <2>4 DEF DemandsInv, ClaimsAnswered
      <4>2. d_request[e].demand \in Demands_
        BY <4>1, RequestShape DEF DemandsInv, D!Patches
      <4>3. CASE d_request[e].demand = d
        BY <4>1, <4>3, <1>1, <2>1, <2>2, AllowedMoves DEF DemandsInv, D!TypeOK
      <4>4. CASE d_request[e].demand # d
        BY <4>1, <4>2, <4>4, <1>1, <2>1 DEF DemandsInv, D!TypeOK
      <4> QED BY <4>3, <4>4
    <3> QED BY <3>1, <3>2
  <2> QED BY <2>5, <2>7, <2>8, <2>9, <2>10 DEF DemandsInv
<1> QED BY <1>2, <1>3

\* A claimer is answered the text that is there, which no longer changes.
LEMMA PatchAnswersInv ==
  ASSUME DemandsInv, NEW c \in Clients, D!PatchAnswers(c)
  PROVE  DemandsInv'
<1> DEFINE r == d_request[c]
           claim == r.expected = "pending" /\ r.status = "in_progress"
<1>1. r \in D!Patches /\ r.demand \in Demands_ /\ r.does = "answer"
  BY RequestShape DEF DemandsInv, D!PatchAnswers, D!Patches
<1>2. /\ d_given' = [d_given EXCEPT ![r.demand] = IF claim THEN d_text[r.demand] ELSE @]
      /\ d_request' = [d_request EXCEPT ![c] = D!NoRequest]
      /\ UNCHANGED <<d_status, d_text, d_claims>>
  BY DEF D!PatchAnswers
<1>3. \A e \in Clients : d_request'[e] = IF e = c THEN D!NoRequest ELSE d_request[e]
  BY <1>2 DEF DemandsInv, D!TypeOK
<1>4. D!TypeOK'
  BY <1>1, <1>2 DEF DemandsInv, D!TypeOK
<1>5. ClaimedOnce' /\ RequestsAllowed' /\ ClaimsAnswered'
  <2>1. ClaimedOnce'
    BY <1>2 DEF DemandsInv, ClaimedOnce
  <2>2. RequestsAllowed' /\ ClaimsAnswered'
    BY <1>2, <1>3 DEF DemandsInv, RequestsAllowed, ClaimsAnswered, D!NoRequest, Allowed
  <2> QED BY <2>1, <2>2
<1>6. GivenClaimed'
  <2>1. claim => d_status[r.demand] \in Claimed
    BY <1>1 DEF DemandsInv, ClaimsAnswered
  <2> QED BY <1>1, <1>2, <2>1 DEF DemandsInv, D!TypeOK, GivenClaimed
<1> QED BY <1>4, <1>5, <1>6 DEF DemandsInv

\* A delete reads, and removes what is still pending.
LEMMA DeleteInv ==
  ASSUME DemandsInv, NEW c \in Clients,
         D!DeleteWrites(c) \/ \E d \in Demands_ : D!DeleteReads(c, d)
  PROVE  DemandsInv'
<1>1. CASE D!DeleteWrites(c)
  <2> DEFINE d == d_request[c].demand
  <2>1. d \in Demands_
    BY <1>1, RequestShape DEF DemandsInv, D!DeleteWrites, D!Deletes
  <2>2. /\ d_status' = [d_status EXCEPT ![d] = IF @ = "pending" THEN "deleted" ELSE @]
        /\ d_request' = [d_request EXCEPT ![c] = D!NoRequest]
        /\ UNCHANGED <<d_text, d_claims, d_given>>
    BY <1>1 DEF D!DeleteWrites
  <2>3. \A e \in Clients : d_request'[e] = IF e = c THEN D!NoRequest ELSE d_request[e]
    BY <2>2 DEF DemandsInv, D!TypeOK
  <2>4. \A e \in Demands_ : /\ d_status'[e] \in Claimed <=> d_status[e] \in Claimed
                            /\ d_status'[e] \in D!Statuses \cup {"unborn", "deleted"}
    BY <2>1, <2>2 DEF DemandsInv, D!TypeOK, Claimed
  <2>5. D!TypeOK'
    BY <2>1, <2>2 DEF DemandsInv, D!TypeOK
  <2>6. ClaimedOnce' /\ GivenClaimed'
    BY <2>2, <2>4 DEF DemandsInv, ClaimedOnce, GivenClaimed
  <2>7. RequestsAllowed'
    BY <2>3 DEF DemandsInv, RequestsAllowed, D!NoRequest, Allowed
  <2>8. ClaimsAnswered'
    <3> SUFFICES ASSUME NEW e \in Clients, d_request'[e].does = "answer",
                        d_request'[e].expected = "pending",
                        d_request'[e].status = "in_progress"
                 PROVE  d_status'[d_request'[e].demand] \in Claimed
      BY DEF ClaimsAnswered
    <3>1. d_request'[e] = d_request[e]
      BY <2>3 DEF D!NoRequest
    <3>2. d_request[e].demand \in Demands_ /\ d_status[d_request[e].demand] \in Claimed
      BY <3>1, RequestShape DEF DemandsInv, ClaimsAnswered, D!Patches
    <3> QED BY <3>1, <3>2, <2>4
  <2> QED BY <2>5, <2>6, <2>7, <2>8 DEF DemandsInv
<1>2. ASSUME NEW d \in Demands_, D!DeleteReads(c, d)
      PROVE  DemandsInv'
  <2> DEFINE r == [does |-> "delete", demand |-> d]
  <2>1. /\ d_request' = [d_request EXCEPT ![c] = r]
        /\ UNCHANGED <<d_status, d_text, d_claims, d_given>>
    BY <1>2 DEF D!DeleteReads
  <2>2. r \in D!Deletes /\ r.does = "delete"
    BY DEF D!Deletes
  <2> HIDE DEF r
  <2>3. \A e \in Clients : d_request'[e] = IF e = c THEN r ELSE d_request[e]
    BY <2>1 DEF DemandsInv, D!TypeOK
  <2>4. D!TypeOK'
    BY <2>1, <2>2 DEF DemandsInv, D!TypeOK
  <2>5. ClaimedOnce' /\ GivenClaimed'
    BY <2>1 DEF DemandsInv, ClaimedOnce, GivenClaimed
  <2>6. RequestsAllowed' /\ ClaimsAnswered'
    BY <2>1, <2>2, <2>3 DEF DemandsInv, RequestsAllowed, ClaimsAnswered, Allowed
  <2> QED BY <2>4, <2>5, <2>6 DEF DemandsInv
<1> QED BY <1>1, <1>2

LEMMA DemandsStep == DemandsInv /\ [D!Next]_(D!vars) => DemandsInv'
<1> SUFFICES ASSUME DemandsInv, [D!Next]_(D!vars) PROVE DemandsInv'
  OBVIOUS
<1>1. ASSUME NEW d \in Demands_, NEW words \in Texts, D!Create(d, words) PROVE DemandsInv'
  BY <1>1, CreateInv
<1>2. ASSUME NEW c \in Clients, D!Asks(c) PROVE DemandsInv'
  BY <1>2, PatchReadsInv, DeleteInv DEF D!Asks
<1>3. ASSUME NEW c \in Clients, D!Answers(c) PROVE DemandsInv'
  BY <1>3, PatchWritesInv, PatchAnswersInv, DeleteInv DEF D!Answers
<1>4. CASE UNCHANGED D!vars
  BY <1>4 DEF D!vars, DemandsInv, D!TypeOK, ClaimedOnce, GivenClaimed, RequestsAllowed,
     ClaimsAnswered, Allowed
<1> QED BY <1>1, <1>2, <1>3, <1>4 DEF D!Next

\* A step of the API is one of the part or none.
LEMMA DemandsSteps == [Nexts]_all => [D!Next]_(D!vars)
BY DEF Nexts, all, demandsVars, D!vars, Schedules, Events, Bridges, Commands, Demands, Of

\* A demand is claimed once, for any number of orchestrators and users; from then
\* on it is neither deleted nor pending, and its text is the claimer's.
THEOREM ClaimedForGood == Behaviour => []ClaimStands
<1>1. Inits => D!Init
  BY DEF Inits
<1>2. DemandsInv => ClaimStands
  BY DEF DemandsInv, ClaimedOnce, GivenClaimed, ClaimStands, D!ClaimStands, Claimed
<1> QED BY <1>1, <1>2, DemandsInit, DemandsStep, DemandsSteps, PTL DEF Behaviour

\* What a step may do to a demand: create it, edit it while it is pending, move it as
\* _ALLOWED_TRANSITIONS has it, or delete it while it is pending.
Advances(d) ==
  LET old == d_status[d]
      new == d_status'[d]
  IN  /\ \/ new = old
         \/ old = "unborn" /\ new = "pending"
         \/ old \in D!Statuses /\ new \in D!Transitions[old]
         \/ old = "pending" /\ new = "deleted"
      /\ d_text'[d] # d_text[d] => \/ old = "unborn"
                                   \/ old = "pending" /\ new \in {"pending", "in_progress"}
DemandsAdvance == \A d \in Demands_ : Advances(d)

LEMMA CreateAdvances ==
  ASSUME DemandsInv, NEW d \in Demands_, NEW words \in Texts, D!Create(d, words)
  PROVE  DemandsAdvance
<1>1. /\ d_status[d] = "unborn" /\ d_status' = [d_status EXCEPT ![d] = "pending"]
      /\ d_text' = [d_text EXCEPT ![d] = words]
      /\ DOMAIN d_status = Demands_ /\ DOMAIN d_text = Demands_
  BY DEF D!Create, DemandsInv, D!TypeOK
<1>2. \A e \in Demands_ : \/ e # d /\ d_status'[e] = d_status[e] /\ d_text'[e] = d_text[e]
                          \/ e = d /\ d_status'[e] = "pending"
  BY <1>1
<1> QED BY <1>1, <1>2 DEF DemandsAdvance, Advances

\* The write goes through when the status is still the one that was read, and what it
\* writes was allowed of that one.
LEMMA WriteAdvances ==
  ASSUME DemandsInv, NEW c \in Clients, D!PatchWrites(c)
  PROVE  DemandsAdvance
<1> DEFINE r == d_request[c]
           d == r.demand
<1>1. r \in D!Patches /\ Allowed(r)
  <2>1. r.does = "patch"
    BY DEF D!PatchWrites
  <2> QED BY <2>1, RequestShape DEF DemandsInv, RequestsAllowed
<1>2. d \in Demands_ /\ r.expected \in D!Statuses
  BY <1>1 DEF D!Patches
<1>3. CASE ~D!Matches(r)
  <2>1. UNCHANGED <<d_status, d_text>>
    BY <1>3 DEF D!PatchWrites
  <2> QED BY <2>1 DEF DemandsAdvance, Advances
<1>4. CASE D!Matches(r)
  <2>1. /\ d_status' = [d_status EXCEPT ![d] = r.status]
        /\ d_text' = [d_text EXCEPT ![d] = IF r.text = NoText THEN @ ELSE r.text]
        /\ DOMAIN d_status = Demands_ /\ DOMAIN d_text = Demands_
        /\ d_status[d] = r.expected
    BY <1>4 DEF D!PatchWrites, D!Matches, DemandsInv, D!TypeOK
  <2> HIDE DEF r, d
  <2>2. \A e \in Demands_ : \/ e # d /\ d_status'[e] = d_status[e] /\ d_text'[e] = d_text[e]
                            \/ /\ e = d /\ d_status'[e] = r.status
                               /\ r.text = NoText => d_text'[e] = d_text[e]
    BY <1>2, <2>1
  <2>3. /\ r.status = r.expected \/ r.status \in D!Transitions[r.expected]
        /\ r.text # NoText => r.expected = "pending"
        /\ r.expected = "pending" => r.status \in {"pending", "in_progress"}
    BY <1>1, AllowedMoves DEF Allowed
  <2>4. ASSUME NEW e \in Demands_ PROVE Advances(e)
    <3>1. CASE e # d /\ d_status'[e] = d_status[e] /\ d_text'[e] = d_text[e]
      BY <3>1 DEF Advances
    <3>2. CASE /\ e = d /\ d_status'[e] = r.status
               /\ r.text = NoText => d_text'[e] = d_text[e]
      BY <1>2, <2>1, <2>3, <3>2 DEF Advances
    <3> QED BY <2>2, <3>1, <3>2
  <2> QED BY <2>4 DEF DemandsAdvance
<1> QED BY <1>3, <1>4

LEMMA DeleteAdvances ==
  ASSUME DemandsInv, NEW c \in Clients, D!DeleteWrites(c)
  PROVE  DemandsAdvance
<1> DEFINE d == d_request[c].demand
<1>1. /\ d_status' = [d_status EXCEPT ![d] = IF @ = "pending" THEN "deleted" ELSE @]
      /\ UNCHANGED d_text /\ DOMAIN d_status = Demands_
  BY DEF D!DeleteWrites, DemandsInv, D!TypeOK
<1> HIDE DEF d
<1>2. \A e \in Demands_ : \/ d_status'[e] = d_status[e]
                          \/ d_status[e] = "pending" /\ d_status'[e] = "deleted"
  BY <1>1
<1> QED BY <1>1, <1>2 DEF DemandsAdvance, Advances

\* However requests overlap, a demand takes only the transitions the API allows: the
\* check is made on a status that was read, the filter of the write makes it the present
\* one.
THEOREM DemandsOnlyAdvance == Behaviour => [][DemandsAdvance]_all
<1>1. ASSUME DemandsInv, [D!Next]_(D!vars) PROVE DemandsAdvance
  <2>1. ASSUME UNCHANGED <<d_status, d_text>> PROVE DemandsAdvance
    BY <2>1 DEF DemandsAdvance, Advances
  <2>2. ASSUME NEW d \in Demands_, NEW words \in Texts, D!Create(d, words)
        PROVE  DemandsAdvance
    BY <1>1, <2>2, CreateAdvances
  <2>3. ASSUME NEW c \in Clients, D!Asks(c) PROVE DemandsAdvance
    <3>1. UNCHANGED <<d_status, d_text>>
      BY <2>3 DEF D!Asks, D!PatchReads, D!DeleteReads
    <3> QED BY <2>1, <3>1
  <2>4. ASSUME NEW c \in Clients, D!PatchAnswers(c) PROVE DemandsAdvance
    <3>1. UNCHANGED <<d_status, d_text>>
      BY <2>4 DEF D!PatchAnswers
    <3> QED BY <2>1, <3>1
  <2>5. ASSUME NEW c \in Clients, D!PatchWrites(c) \/ D!DeleteWrites(c) PROVE DemandsAdvance
    BY <1>1, <2>5, WriteAdvances, DeleteAdvances
  <2>6. ASSUME UNCHANGED D!vars PROVE DemandsAdvance
    <3>1. UNCHANGED <<d_status, d_text>>
      BY <2>6 DEF D!vars
    <3> QED BY <2>1, <3>1
  <2> QED BY <1>1, <2>2, <2>3, <2>4, <2>5, <2>6 DEF D!Next, D!Answers
<1>2. DemandsInv /\ [Nexts]_all => [DemandsAdvance]_all
  BY <1>1, DemandsSteps
<1>3. Inits => D!Init
  BY DEF Inits
<1> QED BY <1>2, <1>3, DemandsInit, DemandsStep, DemandsSteps, PTL DEF Behaviour

-----------------------------------------------------------------------------
(* The types of the events. *)

LEMMA EventsAssumption ==
  /\ MaxFrames \in Nat /\ MaxBackoff \in Nat /\ MaxBreaks \in Nat
  /\ QueueMax \in Nat /\ QueueMax > 0
BY ApiAssumption

\* A set of naturals has a least one.
LEMMA LeastOfNats ==
  ASSUME NEW S, S \subseteq Nat, S # {}
  PROVE  \E x \in S : \A y \in S : x <= y
<1> DEFINE Less == {p \in Nat \X Nat : p[1] < p[2]}
<1>1. IsWellFoundedOn(Less, Nat)
  BY NatLessThanWellFounded DEF OpToRel
<1>2. \E x \in S : \A y \in S : <<y, x>> \notin Less
  <2> HIDE DEF Less
  <2> QED BY <1>1, WFMin
<1>3. \A x, y \in Nat : y < x => <<y, x>> \in Less
  OBVIOUS
<1>4. PICK x \in S : \A y \in S : <<y, x>> \notin Less
  BY <1>2
<1> HIDE DEF Less
<1>5. \A y \in S : ~(y < x)
  BY <1>3, <1>4
<1> QED BY <1>4, <1>5

\* An event is numbered when it is read, after those that were; and a message
\* that is held is still the first of the queue.
EventsHeld ==
  /\ \A n \in E!Numbers : e_stored[n] <= e_spent.frames
  /\ \A e \in Emitters : /\ e_emits[e].n <= e_spent.frames /\ e_emits[e].seq <= e_spent.frames
                         /\ e_emits[e].at # "off" => e_emits[e].n > 0
  /\ e_api.holding => e_wire # <<>>

\* The highest seq that is stored is that of a frame.
LEMMA NextSeqType ==
  ASSUME E!TypeOK, EventsHeld
  PROVE  E!NextSeq \in 1..(e_spent.frames + 1)
<1> DEFINE Top(s) == /\ s = 0 \/ \E n \in E!Numbers : e_stored[n] = s
                     /\ \A n \in E!Numbers : e_stored[n] <= s
           Above == {s \in Nat : \A n \in E!Numbers : e_stored[n] <= s}
<1>1. /\ e_spent.frames \in 0..MaxFrames
      /\ \A n \in E!Numbers : e_stored[n] \in 0..MaxFrames /\ e_stored[n] <= e_spent.frames
  BY EventsAssumption DEF E!TypeOK, EventsHeld
<1>2. Above \subseteq Nat /\ e_spent.frames \in Above
  BY <1>1, EventsAssumption
<1>3. PICK s \in Above : \A y \in Above : s <= y
  <2> HIDE DEF Above
  <2> QED BY <1>2, LeastOfNats
<1>4. s \in 0..MaxFrames /\ Top(s)
  <2>1. s \in Nat /\ s <= e_spent.frames /\ \A n \in E!Numbers : e_stored[n] <= s
    BY <1>2, <1>3
  <2>2. ASSUME s # 0, \A n \in E!Numbers : e_stored[n] # s PROVE FALSE
    <3>1. s - 1 \in Nat /\ \A n \in E!Numbers : e_stored[n] <= s - 1
      BY <1>1, <2>1, <2>2, EventsAssumption
    <3> QED BY <1>3, <2>1, <3>1
  <2> QED BY <1>1, <2>1, <2>2, EventsAssumption
<1>5. PICK t \in 0..MaxFrames : t = (CHOOSE u \in 0..MaxFrames : Top(u)) /\ Top(t)
  BY <1>4
<1>6. t <= e_spent.frames
  BY <1>1, <1>5, EventsAssumption
<1>7. E!NextSeq = 1 + t
  BY <1>5 DEF E!NextSeq
<1> QED BY <1>1, <1>6, <1>7, EventsAssumption

LEMMA FrameType ==
  ASSUME NEW kind \in E!Kinds, NEW n \in E!Numbers, NEW seq \in BOOLEAN
  PROVE  [kind |-> kind, n |-> n, seq |-> seq] \in E!Frames
BY Zenon DEF E!Frames

LEMMA FrameFields ==
  ASSUME NEW frame \in E!Frames
  PROVE  frame.kind \in E!Kinds /\ frame.n \in E!Numbers
BY DEF E!Frames

\* A queue keeps to its size.
LEMMA PutType ==
  ASSUME NEW queue \in Seq(E!Frames), Len(queue) <= QueueMax, NEW frame \in E!Frames
  PROVE  E!Put(queue, frame) \in Seq(E!Frames) /\ Len(E!Put(queue, frame)) <= QueueMax
<1>1. CASE Len(queue) < QueueMax
  BY <1>1, EventsAssumption DEF E!Put
<1>2. CASE ~(Len(queue) < QueueMax)
  <2>1. queue # <<>> /\ Len(queue) = QueueMax
    BY <1>2, EventsAssumption
  <2>2. Tail(queue) \in Seq(E!Frames) /\ Len(Tail(queue)) = QueueMax - 1
    BY <2>1, EventsAssumption
  <2> QED BY <1>2, <2>2, EventsAssumption DEF E!Put
<1> QED BY <1>1, <1>2

EmitterType == [at : {"off", "read", "stored"}, n : 0..MaxFrames, seq : 0..MaxFrames]
BrowserType == [source : {"none", "opening", "open"}, stopped : BOOLEAN, timer : BOOLEAN,
                backoff : 0..MaxBackoff, last : E!Frames \cup {E!NoFrame}, bell : 0..MaxFrames]
StreamType == [open : BOOLEAN, queue : Seq(E!Frames), newest : 0..MaxFrames]

\* What the page does to its source keeps its type.
LEMMA BrowserUpdates ==
  ASSUME NEW page \in BrowserType
  PROVE  /\ \A x \in {"none", "opening", "open"} : [page EXCEPT !.source = x] \in BrowserType
         /\ \A x \in BOOLEAN : [page EXCEPT !.stopped = x] \in BrowserType
         /\ \A x \in BOOLEAN : [page EXCEPT !.timer = x] \in BrowserType
         /\ \A x \in 0..MaxBackoff : [page EXCEPT !.backoff = x] \in BrowserType
<1>1. \A x \in {"none", "opening", "open"} : [page EXCEPT !.source = x] \in BrowserType
  BY DEF BrowserType
<1>2. \A x \in BOOLEAN : [page EXCEPT !.stopped = x] \in BrowserType
  BY DEF BrowserType
<1>3. \A x \in BOOLEAN : [page EXCEPT !.timer = x] \in BrowserType
  BY DEF BrowserType
<1>4. \A x \in 0..MaxBackoff : [page EXCEPT !.backoff = x] \in BrowserType
  BY DEF BrowserType
<1> QED BY <1>1, <1>2, <1>3, <1>4

LEMMA BrowserShapes ==
  ASSUME NEW page \in BrowserType
  PROVE  /\ E!Open(page) \in BrowserType
         /\ E!Disconnected(page) \in BrowserType
         /\ E!ScheduleReconnect(page) \in BrowserType
         /\ [page EXCEPT !.source = "open", !.backoff = 0] \in BrowserType
<1>1. E!Open(page) \in BrowserType
  BY BrowserUpdates DEF E!Open
<1>2. E!Disconnected(page) \in BrowserType
  <2>1. [page EXCEPT !.stopped = TRUE] \in BrowserType
    BY BrowserUpdates
  <2> DEFINE b1 == [page EXCEPT !.stopped = TRUE]
      b2 == [b1 EXCEPT !.timer = FALSE]
  <2>2. b2 \in BrowserType
    <3> HIDE DEF b1
    <3> QED BY <2>1, BrowserUpdates DEF b1
  <2>3. [b2 EXCEPT !.source = "none"] \in BrowserType
    <3> HIDE DEF b2
    <3> QED BY <2>2, BrowserUpdates
  <2>4. E!Disconnected(page) = [b2 EXCEPT !.source = "none"]
    BY DEF E!Disconnected, BrowserType
  <2> QED BY <2>3, <2>4
<1>3. E!ScheduleReconnect(page) \in BrowserType
  <2> DEFINE next == IF page.backoff < MaxBackoff THEN page.backoff + 1 ELSE page.backoff
             b1 == [page EXCEPT !.timer = TRUE]
  <2>1. page.backoff \in 0..MaxBackoff
    BY DEF BrowserType
  <2>2. next \in 0..MaxBackoff
    BY <2>1, EventsAssumption
  <2>3. b1 \in BrowserType
    BY BrowserUpdates
  <2>4. [b1 EXCEPT !.backoff = next] \in BrowserType
    <3> HIDE DEF b1, next
    <3> QED BY <2>2, <2>3, BrowserUpdates
  <2>5. [page EXCEPT !.timer = TRUE, !.backoff = next] = [b1 EXCEPT !.backoff = next]
    <3> HIDE DEF next
    <3> QED BY DEF BrowserType
  <2>6. E!ScheduleReconnect(page) = IF page.stopped \/ page.timer THEN page
           ELSE [page EXCEPT !.timer = TRUE, !.backoff = next]
    BY Zenon DEF E!ScheduleReconnect
  <2> HIDE DEF next, b1
  <2> QED BY <2>4, <2>5, <2>6
<1>4. [page EXCEPT !.source = "open", !.backoff = 0] \in BrowserType
  <2> DEFINE b1 == [page EXCEPT !.source = "open"]
  <2>1. b1 \in BrowserType
    BY BrowserUpdates
  <2>2. 0 \in 0..MaxBackoff
    BY EventsAssumption
  <2>3. [b1 EXCEPT !.backoff = 0] \in BrowserType
    <3> HIDE DEF b1
    <3> QED BY <2>1, <2>2, BrowserUpdates
  <2>4. [page EXCEPT !.source = "open", !.backoff = 0] = [b1 EXCEPT !.backoff = 0]
    BY DEF BrowserType
  <2> QED BY <2>3, <2>4
<1> QED BY <1>1, <1>2, <1>3, <1>4
LEMMA NoStreamType == E!NoStream \in StreamType /\ Len(E!NoStream.queue) <= QueueMax
BY EventsAssumption DEF E!NoStream, StreamType

EmitsOK ==
  /\ e_emits \in [Emitters -> EmitterType]
  /\ \A e \in Emitters : /\ e_emits[e].n <= e_spent.frames /\ e_emits[e].seq <= e_spent.frames
                         /\ e_emits[e].at # "off" => e_emits[e].n > 0
StoredOK ==
  /\ e_stored \in [E!Numbers -> 0..MaxFrames]
  /\ \A n \in E!Numbers : e_stored[n] <= e_spent.frames
WireOK == e_wire \in Seq(E!Frames) /\ (e_api.holding => e_wire # <<>>)
ApiOK == e_api \in [up : BOOLEAN, started : BOOLEAN, holding : BOOLEAN]
StreamOK == e_stream \in StreamType /\ Len(e_stream.queue) <= QueueMax
BrowserOK == e_browser \in BrowserType
SpentOK == e_spent \in [frames : 0..MaxFrames, faults : 0..MaxBreaks]

LEMMA EventParts ==
  /\ E!TypeOK /\ EventsHeld
  <=> EmitsOK /\ StoredOK /\ WireOK /\ ApiOK /\ StreamOK /\ BrowserOK /\ SpentOK
BY Zenon DEF E!TypeOK, EventsHeld, EmitsOK, StoredOK, WireOK, ApiOK, StreamOK, BrowserOK, SpentOK,
   EmitterType, StreamType, BrowserType

\* A frame that is new has the next number, and what was numbered keeps its own.
LEMMA NewFrames ==
  ASSUME SpentOK, E!NewFrame \/ E!Fault \/ UNCHANGED e_spent
  PROVE  /\ SpentOK'
         /\ e_spent.frames \in Nat /\ e_spent'.frames \in Nat
         /\ e_spent.frames <= e_spent'.frames
         /\ E!NewFrame => e_spent'.frames = e_spent.frames + 1 /\ e_spent'.frames \in E!Numbers
BY EventsAssumption DEF SpentOK, E!NewFrame, E!Fault, E!Numbers

LEMMA OlderFrames ==
  ASSUME e_spent.frames \in Nat, e_spent'.frames \in Nat, e_spent.frames <= e_spent'.frames
  PROVE  /\ EmitsOK /\ UNCHANGED e_emits => EmitsOK'
         /\ StoredOK /\ UNCHANGED e_stored => StoredOK'
BY EventsAssumption DEF EmitsOK, StoredOK, EmitterType

LEMMA EventsInit == E!Init => E!TypeOK /\ EventsHeld
<1> SUFFICES ASSUME E!Init PROVE E!TypeOK /\ EventsHeld
  OBVIOUS
<1>1. /\ e_emits \in [Emitters -> EmitterType]
      /\ e_stored \in [E!Numbers -> 0..MaxFrames]
  BY EventsAssumption DEF E!Init, EmitterType
<1>2. e_spent \in [frames : 0..MaxFrames, faults : 0..MaxBreaks]
  BY EventsAssumption DEF E!Init
<1>3. e_wire \in Seq(E!Frames) /\ e_api \in [up : BOOLEAN, started : BOOLEAN, holding : BOOLEAN]
  BY DEF E!Init
<1>4. e_browser \in BrowserType
  <2>1. 0 \in 0..MaxBackoff /\ 0 \in 0..MaxFrames
    BY EventsAssumption
  <2> QED BY <2>1, Zenon DEF E!Init, BrowserType
<1>5. EventsHeld
  BY EventsAssumption DEF E!Init, EventsHeld
<1> QED BY <1>1, <1>2, <1>3, <1>4, <1>5, NoStreamType, Zenon
    DEF E!TypeOK, E!Init, EmitterType, BrowserType, StreamType


LEMMA PublishType ==
  ASSUME WireOK, NEW kind \in E!Kinds, NEW n \in E!Numbers, NEW seq \in BOOLEAN,
         E!Publish(kind, n, seq), UNCHANGED e_api
  PROVE  WireOK'
<1> DEFINE frame == [kind |-> kind, n |-> n, seq |-> seq]
<1>1. frame \in E!Frames /\ e_wire' = Append(e_wire, frame)
  BY FrameType DEF E!Publish
<1> HIDE DEF frame
<1> QED BY <1>1 DEF WireOK

LEMMA EmitStep ==
  ASSUME EmitsOK, StoredOK, WireOK, SpentOK, E!TypeOK, EventsHeld, NEW e \in Emitters,
         E!EmitReads(e) \/ E!Emit(e) \/ E!EmitFails(e)
  PROVE  EmitsOK' /\ StoredOK' /\ WireOK' /\ SpentOK' /\ UNCHANGED <<e_api, e_stream, e_browser>>
<1>1. CASE E!EmitReads(e)
  <2> DEFINE new == [at |-> "read", n |-> e_spent'.frames, seq |-> E!NextSeq]
  <2>1. /\ E!NewFrame /\ e_emits' = [e_emits EXCEPT ![e] = new]
        /\ UNCHANGED <<e_stored, e_wire, e_api, e_stream, e_browser>>
    BY <1>1 DEF E!EmitReads
  <2>2. /\ e_spent.frames \in Nat /\ e_spent'.frames \in E!Numbers
        /\ e_spent'.frames = e_spent.frames + 1
    BY <2>1, NewFrames
  <2>3. E!NextSeq \in 0..MaxFrames /\ E!NextSeq <= e_spent'.frames
    BY <2>2, NextSeqType, EventsAssumption DEF E!Numbers
  <2>4. new \in EmitterType /\ new.n = e_spent'.frames /\ new.seq <= e_spent'.frames
    BY <2>2, <2>3, EventsAssumption DEF EmitterType, E!Numbers
  <2> HIDE DEF new
  <2>5. EmitsOK'
    BY <2>1, <2>2, <2>4, EventsAssumption DEF EmitsOK, E!Numbers, EmitterType
  <2> QED BY <2>1, <2>2, <2>5, NewFrames, OlderFrames DEF WireOK, E!Numbers
<1>2. CASE E!EmitStores(e)
  <2>1. /\ e_stored' = [e_stored EXCEPT ![e_emits[e].n] = e_emits[e].seq]
        /\ e_emits' = [e_emits EXCEPT ![e].at = "stored"] /\ e_emits[e].at = "read"
        /\ UNCHANGED <<e_wire, e_api, e_stream, e_browser, e_spent>>
    BY <1>2 DEF E!EmitStores
  <2>2. StoredOK'
    BY <2>1 DEF EmitsOK, StoredOK, EmitterType
  <2>3. EmitsOK'
    BY <2>1 DEF EmitsOK, EmitterType
  <2> QED BY <2>1, <2>2, <2>3 DEF WireOK, SpentOK
<1>3. CASE E!EmitPublishes(e)
  <2>1. /\ E!Publish("attention", e_emits[e].n, TRUE)
        /\ e_emits' = [e_emits EXCEPT ![e] = [at |-> "off", n |-> 0, seq |-> 0]]
        /\ e_emits[e].at = "stored"
        /\ UNCHANGED <<e_stored, e_api, e_stream, e_browser, e_spent>>
    BY <1>3 DEF E!EmitPublishes
  <2>2. e_emits[e].n \in E!Numbers
    BY <2>1, EventsAssumption DEF EmitsOK, EmitterType, E!Numbers
  <2>3. WireOK'
    BY <2>1, <2>2, PublishType DEF E!Kinds
  <2>4. EmitsOK'
    BY <2>1, NewFrames, EventsAssumption DEF EmitsOK, EmitterType
  <2> QED BY <2>1, <2>3, <2>4 DEF StoredOK, SpentOK
<1>4. CASE E!EmitFails(e)
  <2>1. /\ E!Fault /\ e_emits' = [e_emits EXCEPT ![e] = [at |-> "off", n |-> 0, seq |-> 0]]
        /\ UNCHANGED <<e_stored, e_wire, e_api, e_stream, e_browser>>
    BY <1>4 DEF E!EmitFails
  <2>2. /\ SpentOK' /\ e_spent.frames \in Nat /\ e_spent'.frames \in Nat
        /\ e_spent.frames <= e_spent'.frames
    BY <2>1, NewFrames
  <2>3. EmitsOK'
    BY <2>1, <2>2, EventsAssumption DEF EmitsOK, EmitterType
  <2> QED BY <2>1, <2>2, <2>3, OlderFrames DEF WireOK
<1> QED BY <1>1, <1>2, <1>3, <1>4 DEF E!Emit

LEMMA PublishStep ==
  ASSUME EmitsOK, StoredOK, WireOK, SpentOK, E!WorkerPublishes \/ E!ApiPublishes
  PROVE  EmitsOK' /\ StoredOK' /\ WireOK' /\ SpentOK' /\ UNCHANGED <<e_api, e_stream, e_browser>>
<1>1. /\ E!NewFrame /\ UNCHANGED <<e_emits, e_stored, e_api, e_stream, e_browser>>
      /\ \E kind \in E!Kinds, seq \in BOOLEAN : E!Publish(kind, e_spent'.frames, seq)
  BY Zenon DEF E!WorkerPublishes, E!ApiPublishes, E!Kinds
<1>2. WireOK'
  BY <1>1, NewFrames, PublishType
<1> QED BY <1>1, <1>2, NewFrames, OlderFrames

\* The broker and the streams: what is put there came through the queue.
LEMMA BrokerStep ==
  ASSUME WireOK, ApiOK, StreamOK, SpentOK, E!Broker \/ E!ApiStops
  PROVE  /\ WireOK' /\ ApiOK' /\ StreamOK' /\ SpentOK'
         /\ e_spent.frames \in Nat /\ e_spent'.frames \in Nat /\ e_spent.frames <= e_spent'.frames
         /\ UNCHANGED <<e_emits, e_stored, e_browser>>
<1>1. CASE E!OnMessage
  <2>1. /\ e_wire # <<>> /\ e_api' = [e_api EXCEPT !.holding = TRUE]
        /\ \/ e_stream' = e_stream
           \/ e_stream' = [e_stream EXCEPT !.queue = E!Put(e_stream.queue, Head(e_wire)),
                                           !.newest = Head(e_wire).n]
        /\ UNCHANGED <<e_emits, e_stored, e_wire, e_browser, e_spent>>
    BY <1>1 DEF E!OnMessage
  <2>2. Head(e_wire) \in E!Frames
    BY <2>1 DEF WireOK
  <2>3. Head(e_wire).n \in 0..MaxFrames
    BY <2>2, FrameFields, EventsAssumption DEF E!Numbers
  <2>4. /\ E!Put(e_stream.queue, Head(e_wire)) \in Seq(E!Frames)
        /\ Len(E!Put(e_stream.queue, Head(e_wire))) <= QueueMax
    BY <2>2, PutType DEF StreamOK, StreamType
  <2>5. StreamOK'
    BY <2>1, <2>3, <2>4 DEF StreamOK, StreamType
  <2>6. ApiOK'
    BY <2>1 DEF ApiOK
  <2> QED BY <2>1, <2>5, <2>6, NewFrames DEF WireOK
<1>2. CASE E!OnMessageEnds
  <2>1. /\ e_api.holding /\ e_api' = [e_api EXCEPT !.holding = FALSE] /\ e_wire' = Tail(e_wire)
        /\ UNCHANGED <<e_emits, e_stored, e_stream, e_browser, e_spent>>
    BY <1>2 DEF E!OnMessageEnds
  <2>2. ApiOK' /\ ~e_api'.holding
    BY <2>1 DEF ApiOK
  <2>3. WireOK'
    BY <2>1, <2>2 DEF WireOK
  <2> QED BY <2>1, <2>2, <2>3, NewFrames DEF StreamOK
<1>3. CASE E!ApiStops
  <2>1. /\ E!Fault /\ e_api' = [up |-> FALSE, started |-> FALSE, holding |-> FALSE]
        /\ e_stream' = E!NoStream /\ UNCHANGED <<e_emits, e_stored, e_wire, e_browser>>
    BY <1>3 DEF E!ApiStops
  <2>2. StreamOK'
    BY <2>1, NoStreamType DEF StreamOK
  <2>3. ApiOK' /\ ~e_api'.holding
    BY <2>1 DEF ApiOK
  <2> QED BY <2>1, <2>2, <2>3, NewFrames DEF WireOK
<1>4. CASE E!ApiStarts
  <2>1. /\ \/ e_api' = [e_api EXCEPT !.up = TRUE, !.started = TRUE]
           \/ e_api' = [e_api EXCEPT !.up = TRUE]
        /\ UNCHANGED e_spent \/ E!Fault
        /\ UNCHANGED <<e_emits, e_stored, e_wire, e_stream, e_browser>>
    BY <1>4 DEF E!ApiStarts
  <2>2. ApiOK' /\ e_api'.holding = e_api.holding
    BY <2>1 DEF ApiOK
  <2> QED BY <2>1, <2>2, NewFrames DEF WireOK, StreamOK
<1> QED BY <1>1, <1>2, <1>3, <1>4 DEF E!Broker

\* The browser.
LEMMA BrowserStep ==
  ASSUME StreamOK, BrowserOK, SpentOK,
         E!Connect \/ E!Disconnect \/ E!StreamBreaks \/ E!Source \/ E!StreamSends
  PROVE  /\ StreamOK' /\ BrowserOK' /\ SpentOK'
         /\ e_spent.frames \in Nat /\ e_spent'.frames \in Nat /\ e_spent.frames <= e_spent'.frames
         /\ UNCHANGED <<e_emits, e_stored, e_wire, e_api>>
<1>1. CASE E!Connect \/ E!Disconnect
  <2>1. BrowserOK'
    <3> DEFINE b1 == E!Disconnected(e_browser)
    <3>1. b1 \in BrowserType /\ E!Open(b1) \in BrowserType
      <4>1. b1 \in BrowserType
        BY BrowserShapes DEF BrowserOK
      <4> HIDE DEF b1
      <4> QED BY <4>1, BrowserShapes
    <3>2. e_browser' = b1 \/ e_browser' = [E!Open(b1) EXCEPT !.stopped = FALSE]
      BY <1>1, Zenon DEF E!Connect, E!Disconnect
    <3> HIDE DEF b1
    <3> QED BY <3>1, <3>2, BrowserUpdates DEF BrowserOK
  <2>2. StreamOK'
    BY <1>1, NoStreamType DEF E!Connect, E!Disconnect, StreamOK
  <2> QED BY <1>1, <2>1, <2>2, NewFrames DEF E!Connect, E!Disconnect
<1>2. CASE E!StreamBreaks
  <2>1. StreamOK'
    BY <1>2, NoStreamType DEF E!StreamBreaks, StreamOK
  <2> QED BY <1>2, <2>1, NewFrames DEF E!StreamBreaks, BrowserOK
<1>3. CASE E!OnOpen
  <2>1. e_stream' = [E!NoStream EXCEPT !.open = TRUE] /\ UNCHANGED <<e_emits, e_stored, e_wire, e_api, e_spent>>
    BY <1>3 DEF E!OnOpen
  <2>2. StreamOK'
    BY <2>1, NoStreamType DEF StreamOK, StreamType
  <2>3. BrowserOK'
    BY <1>3, BrowserShapes DEF E!OnOpen, BrowserOK
  <2> QED BY <2>1, <2>2, <2>3, NewFrames
<1>4. CASE E!OnError \/ E!Reconnect
  <2>1. BrowserOK'
    <3> DEFINE b1 == [e_browser EXCEPT !.source = "none"]
               b2 == [e_browser EXCEPT !.timer = FALSE]
    <3>1. b1 \in BrowserType /\ b2 \in BrowserType
      BY BrowserUpdates DEF BrowserOK
    <3>2. e_browser' = E!ScheduleReconnect(b1) \/ e_browser' = E!Open(b2)
      BY <1>4, Zenon DEF E!OnError, E!Reconnect
    <3> HIDE DEF b1, b2
    <3> QED BY <3>1, <3>2, BrowserShapes DEF BrowserOK
  <2> QED BY <1>4, <2>1, NewFrames DEF E!OnError, E!Reconnect, StreamOK
<1>5. CASE E!StreamSends
  <2>1. /\ e_stream.queue # <<>> /\ E!HandleMessage(Head(e_stream.queue))
        /\ e_stream' = [e_stream EXCEPT !.queue = Tail(e_stream.queue)]
        /\ UNCHANGED <<e_emits, e_stored, e_wire, e_api, e_spent>>
    BY <1>5 DEF E!StreamSends
  <2>2. e_stream.queue \in Seq(E!Frames)
    BY DEF StreamOK, StreamType
  <2>3. Head(e_stream.queue) \in E!Frames /\ Tail(e_stream.queue) \in Seq(E!Frames)
        /\ Len(Tail(e_stream.queue)) <= QueueMax
    BY <2>1, <2>2, EventsAssumption DEF StreamOK
  <2>4. Head(e_stream.queue).n \in 0..MaxFrames
    BY <2>3, FrameFields, EventsAssumption DEF E!Numbers
  <2>5. StreamOK'
    BY <2>1, <2>3 DEF StreamOK, StreamType
  <2>6. BrowserOK'
    BY <2>1, <2>3, <2>4 DEF E!HandleMessage, BrowserOK, BrowserType
  <2> QED BY <2>1, <2>5, <2>6, NewFrames
<1> QED BY <1>1, <1>2, <1>3, <1>4, <1>5 DEF E!Source

LEMMA EventsStep == E!TypeOK /\ EventsHeld /\ [E!Next]_(E!vars) => E!TypeOK' /\ EventsHeld'
<1> SUFFICES ASSUME E!TypeOK, EventsHeld, [E!Next]_(E!vars) PROVE E!TypeOK' /\ EventsHeld'
  OBVIOUS
<1> DEFINE Parts == /\ EmitsOK /\ StoredOK /\ WireOK /\ ApiOK /\ StreamOK /\ BrowserOK
                    /\ SpentOK
<1>1. Parts
  BY EventParts
<1>2. Parts'
  <2>1. CASE UNCHANGED E!vars
    BY <1>1, <2>1 DEF E!vars, EmitsOK, StoredOK, WireOK, ApiOK, StreamOK, BrowserOK, SpentOK
  <2>2. ASSUME NEW e \in Emitters, E!EmitReads(e) \/ E!Emit(e) \/ E!EmitFails(e) PROVE Parts'
    BY <1>1, <2>2, EmitStep DEF ApiOK, StreamOK, BrowserOK
  <2>3. CASE E!WorkerPublishes \/ E!ApiPublishes
    BY <1>1, <2>3, PublishStep DEF ApiOK, StreamOK, BrowserOK
  <2>4. CASE E!Broker \/ E!ApiStops
    BY <1>1, <2>4, BrokerStep, OlderFrames DEF BrowserOK
  <2>5. CASE E!Connect \/ E!Disconnect \/ E!StreamBreaks \/ E!Source \/ E!StreamSends
    BY <1>1, <2>5, BrowserStep, OlderFrames DEF WireOK, ApiOK
  <2> QED BY <2>1, <2>2, <2>3, <2>4, <2>5 DEF E!Next
<1>3. /\ EmitsOK' /\ StoredOK' /\ WireOK' /\ ApiOK' /\ StreamOK' /\ BrowserOK' /\ SpentOK'
      => E!TypeOK' /\ EventsHeld'
  BY EventParts, PTL
<1> QED BY <1>2, <1>3

-----------------------------------------------------------------------------
(* The types of the bridges. *)

LEMMA BridgesAssumption ==
  /\ MaxCalls \in Nat /\ MaxLives \in Nat /\ MaxExits \in Nat
  /\ (CHOOSE n \in Names : TRUE) \in Names
BY ApiAssumption

\* A document that has an owner is there, and one that is there has an id.
BridgesHeld ==
  \A n \in Names : /\ b_docs[n].owner # Nobody => b_docs[n].status # "none"
                   /\ b_docs[n].status # "none" => b_docs[n].id # 0

DocType == [status : {"none", "running", "stopped"}, id : 0..MaxLives,
            owner : Callers \cup {Nobody}, idle : BOOLEAN]
CallType == [at : {"off", "create", "wait", "claim", "busy"}, name : Names, id : 0..MaxLives]

\* A document that keeps its types and what BridgesHeld says of it.
Sound(doc) == /\ doc \in DocType
              /\ doc.owner # Nobody => doc.status # "none"
              /\ doc.status # "none" => doc.id # 0

DocsOK == b_docs \in [Names -> DocType] /\ \A n \in Names : Sound(b_docs[n])
PanesOK == b_shells \subseteq Names /\ b_alive \subseteq Callers
CallsOK == b_calls \in [Callers -> CallType]
QueueOK == b_queue \in Seq([op : {"create", "delete"}, name : Names])
DueOK == b_due \subseteq (Names \X (1..MaxLives))
BridgesSpentOK ==
  b_spent \in [calls : [Callers -> 0..MaxCalls], lives : 0..MaxLives, exits : 0..MaxExits]

LEMMA BridgeParts ==
  B!TypeOK /\ BridgesHeld
  <=> DocsOK /\ PanesOK /\ CallsOK /\ QueueOK /\ DueOK /\ BridgesSpentOK
BY Zenon DEF B!TypeOK, BridgesHeld, DocsOK, PanesOK, CallsOK, QueueOK, DueOK, BridgesSpentOK,
   Sound, DocType, CallType

LEMMA NoDocSound == Sound(B!NoDoc)
BY BridgesAssumption DEF Sound, DocType, B!NoDoc

LEMMA QuietType == B!Quiet \in CallType
BY BridgesAssumption DEF CallType, B!Quiet

LEMMA BridgesInit == B!Init => B!TypeOK /\ BridgesHeld
<1> SUFFICES ASSUME B!Init
             PROVE  DocsOK /\ PanesOK /\ CallsOK /\ QueueOK /\ DueOK /\ BridgesSpentOK
  BY BridgeParts
<1>1. DocsOK
  BY NoDocSound DEF B!Init, DocsOK, Sound
<1>2. CallsOK
  BY QuietType DEF B!Init, CallsOK
<1>3. BridgesSpentOK
  BY BridgesAssumption DEF B!Init, BridgesSpentOK
<1> QED BY <1>1, <1>2, <1>3 DEF B!Init, PanesOK, QueueOK, DueOK

\* What a step writes in one document, and in a call.
LEMMA DocWrites ==
  ASSUME DocsOK, NEW n \in Names, NEW doc, Sound(doc), b_docs' = [b_docs EXCEPT ![n] = doc]
  PROVE  DocsOK'
BY DEF DocsOK, Sound

LEMMA SoundUpdates ==
  ASSUME NEW doc, Sound(doc)
  PROVE  /\ Sound([doc EXCEPT !.owner = Nobody])
         /\ Sound([doc EXCEPT !.idle = TRUE])
         /\ doc.status # "none" => Sound([doc EXCEPT !.status = "stopped"])
         /\ \A c \in Callers :
              doc.status # "none" => Sound([doc EXCEPT !.owner = c, !.idle = FALSE])
<1>1. Sound([doc EXCEPT !.owner = Nobody])
  BY DEF Sound, DocType
<1>2. Sound([doc EXCEPT !.idle = TRUE])
  BY DEF Sound, DocType
<1>3. doc.status # "none" => Sound([doc EXCEPT !.status = "stopped"])
  BY DEF Sound, DocType
<1>4. ASSUME NEW c \in Callers, doc.status # "none"
      PROVE  Sound([doc EXCEPT !.owner = c, !.idle = FALSE])
  BY <1>4 DEF Sound, DocType
<1> QED BY <1>1, <1>2, <1>3, <1>4

LEMMA MoveType ==
  ASSUME CallsOK, NEW c \in Callers, NEW at \in {"off", "create", "wait", "claim", "busy"},
         NEW n \in Names, NEW id \in 0..MaxLives, B!Move(c, at, n, id)
  PROVE  CallsOK'
<1>1. [at |-> at, name |-> n, id |-> id] \in CallType
  BY DEF CallType
<1> QED BY <1>1 DEF B!Move, CallsOK

LEMMA BridgePublishType ==
  ASSUME QueueOK, NEW op \in {"create", "delete"}, NEW n \in Names, B!Publish(op, n)
  PROVE  QueueOK'
<1> DEFINE cmd == [op |-> op, name |-> n]
<1>1. cmd \in [op : {"create", "delete"}, name : Names] /\ b_queue' = Append(b_queue, cmd)
  BY DEF B!Publish
<1> HIDE DEF cmd
<1> QED BY <1>1 DEF QueueOK

LEMMA DocIds ==
  ASSUME DocsOK, NEW n \in Names
  PROVE  /\ b_docs[n].id \in 0..MaxLives /\ Sound(b_docs[n])
         /\ b_docs[n].status # "none" => b_docs[n].id \in 1..MaxLives
BY BridgesAssumption DEF DocsOK, DocType, Sound

LEMMA ClaimedType ==
  ASSUME DocsOK, NEW c \in Callers, b_docs' = B!Claimed(c)
  PROVE  DocsOK'
<1> DEFINE new(n) == IF b_docs[n].status # "none" /\ b_docs[n].id = b_calls[c].id
                     THEN [b_docs[n] EXCEPT !.owner = c, !.idle = FALSE] ELSE b_docs[n]
<1>1. ASSUME NEW n \in Names PROVE Sound(new(n))
  BY DocIds, SoundUpdates
<1>2. b_docs' = [n \in Names |-> new(n)]
  BY DEF B!Claimed
<1> HIDE DEF new
<1>3. b_docs' \in [Names -> DocType]
  BY <1>1, <1>2 DEF Sound
<1>4. \A n \in Names : Sound(b_docs'[n])
  BY <1>1, <1>2
<1> QED BY <1>3, <1>4 DEF DocsOK, Sound

LEMMA CallerStep ==
  ASSUME DocsOK, PanesOK, CallsOK, QueueOK, BridgesSpentOK, NEW c \in Callers,
         B!Caller(c) \/ B!CallerLists(c) \/ B!CallerBeats(c) \/ B!CallerDies(c)
  PROVE  /\ DocsOK' /\ PanesOK' /\ CallsOK' /\ QueueOK' /\ BridgesSpentOK'
         /\ UNCHANGED b_due
<1>1. /\ b_calls[c] \in CallType /\ b_calls[c].name \in Names
      /\ b_calls[c].id \in 0..MaxLives /\ 0 \in 0..MaxLives
      /\ \A n \in B!Running : n \in Names /\ b_docs[n].id \in 0..MaxLives
  BY DocIds, BridgesAssumption DEF CallsOK, CallType, B!Running
<1>2. CASE B!CallerLists(c)
  <2>1. /\ \E at \in {"claim", "create"}, n \in Names, id \in 0..MaxLives : B!Move(c, at, n, id)
        /\ b_spent.calls[c] < MaxCalls /\ b_spent' = [b_spent EXCEPT !.calls[c] = b_spent.calls[c] + 1]
        /\ UNCHANGED <<b_docs, b_shells, b_alive, b_queue, b_due>>
    BY <1>1, <1>2 DEF B!CallerLists
  <2>2. CallsOK'
    BY <2>1, MoveType
  <2>3. BridgesSpentOK'
    BY <2>1, BridgesAssumption DEF BridgesSpentOK
  <2> QED BY <2>1, <2>2, <2>3 DEF DocsOK, PanesOK, QueueOK, Sound
<1>3. CASE B!CallerCreates(c)
  <2>1. /\ \E at \in {"claim", "wait"}, n \in Names, id \in 0..MaxLives : B!Move(c, at, n, id)
        /\ \/ UNCHANGED <<b_docs, b_queue>>
           \/ /\ b_docs' = [b_docs EXCEPT ![b_calls[c].name].owner = Nobody]
              /\ B!Publish("create", b_calls[c].name)
        /\ UNCHANGED <<b_shells, b_alive, b_due, b_spent>>
    BY <1>1, <1>3 DEF B!CallerCreates
  <2>2. CallsOK'
    BY <2>1, MoveType
  <2>3. QueueOK'
    BY <1>1, <2>1, BridgePublishType DEF QueueOK
  <2>4. DocsOK'
    <3>1. Sound([b_docs[b_calls[c].name] EXCEPT !.owner = Nobody])
      BY <1>1, DocIds, SoundUpdates
    <3>2. [b_docs EXCEPT ![b_calls[c].name].owner = Nobody]
          = [b_docs EXCEPT ![b_calls[c].name] = [b_docs[b_calls[c].name] EXCEPT !.owner = Nobody]]
      BY <1>1 DEF DocsOK
    <3>3. CASE UNCHANGED b_docs
      BY <3>3 DEF DocsOK, Sound
    <3> QED BY <1>1, <2>1, <3>1, <3>2, <3>3, DocWrites
  <2> QED BY <2>1, <2>2, <2>3, <2>4 DEF PanesOK, BridgesSpentOK
<1>4. CASE B!CallerWaits(c)
  <2>1. /\ \E at \in {"claim", "off"}, n \in Names, id \in 0..MaxLives : B!Move(c, at, n, id)
        /\ UNCHANGED <<b_docs, b_shells, b_alive, b_queue, b_due, b_spent>>
    BY <1>1, <1>4 DEF B!CallerWaits
  <2>2. CallsOK'
    BY <2>1, MoveType
  <2> QED BY <2>1, <2>2 DEF DocsOK, PanesOK, QueueOK, BridgesSpentOK, Sound
<1>5. CASE B!CallerClaims(c)
  <2>1. CallsOK'
    BY <1>1, <1>5, MoveType DEF B!CallerClaims
  <2> QED BY <1>5, <2>1, ClaimedType DEF B!CallerClaims, PanesOK, QueueOK, BridgesSpentOK
<1>6. CASE B!CallerBeats(c)
  BY <1>6, ClaimedType DEF B!CallerBeats, PanesOK, CallsOK, QueueOK, BridgesSpentOK
<1>7. CASE B!CallerEnds(c)
  <2>1. CallsOK'
    BY <1>1, <1>7, MoveType DEF B!CallerEnds
  <2> QED BY <1>7, <2>1 DEF B!CallerEnds, DocsOK, PanesOK, QueueOK, BridgesSpentOK, Sound
<1>8. CASE B!CallerDies(c)
  <2>1. /\ b_spent.exits < MaxExits /\ b_spent' = [b_spent EXCEPT !.exits = b_spent.exits + 1]
        /\ b_calls' = [b_calls EXCEPT ![c] = B!Quiet] /\ b_alive' = b_alive \ {c}
        /\ UNCHANGED <<b_docs, b_shells, b_queue, b_due>>
    BY <1>8 DEF B!CallerDies
  <2>2. CallsOK'
    BY <2>1, QuietType DEF CallsOK
  <2>3. BridgesSpentOK'
    BY <2>1, BridgesAssumption DEF BridgesSpentOK
  <2> QED BY <2>1, <2>2, <2>3 DEF DocsOK, PanesOK, QueueOK, Sound
<1> QED BY <1>2, <1>3, <1>4, <1>5, <1>6, <1>7, <1>8 DEF B!Caller

LEMMA BridgeTickStep ==
  ASSUME DocsOK, QueueOK, DueOK, B!Tick
  PROVE  DocsOK' /\ QueueOK' /\ DueOK' /\ UNCHANGED <<b_shells, b_alive, b_calls, b_spent>>
<1>1. CASE B!TickReads
  <2>1. /\ B!Idle \subseteq Names /\ B!Ownerless \subseteq Names /\ B!Running \subseteq Names
        /\ \A n \in B!Idle \cup B!Ownerless \cup B!Running : b_docs[n].status # "none"
    BY DocIds DEF B!Idle, B!Ownerless, B!Running, Sound
  <2>2. \A n \in B!Idle \cup B!Ownerless \cup B!Running : b_docs[n].id \in 1..MaxLives
    BY <2>1, DocIds
  <2>3. \E ns \in SUBSET (B!Idle \cup B!Ownerless \cup B!Running) : B!ListDue(ns)
    BY <1>1 DEF B!TickReads, B!DuplicatesOf
  <2>4. DueOK'
    BY <2>1, <2>2, <2>3 DEF B!ListDue, DueOK
  <2> QED BY <1>1, <2>4 DEF B!TickReads, DocsOK, QueueOK, Sound
<1>2. CASE B!TickPurges
  <2>1. PICK d \in b_due :
          /\ b_due' = b_due \ {d} /\ B!Publish("delete", d[1])
          /\ b_docs' = [n \in Names |-> IF b_docs[n].id = d[2] THEN B!NoDoc ELSE b_docs[n]]
    BY <1>2, Zenon DEF B!TickPurges
  <2>2. d[1] \in Names
    BY <2>1 DEF DueOK
  <2>3. QueueOK'
    BY <2>1, <2>2, BridgePublishType
  <2>4. DocsOK'
    <3> DEFINE new(n) == IF b_docs[n].id = d[2] THEN B!NoDoc ELSE b_docs[n]
    <3>1. ASSUME NEW n \in Names PROVE Sound(new(n))
      BY DocIds, NoDocSound
    <3>2. b_docs' = [n \in Names |-> new(n)]
      BY <2>1
    <3> HIDE DEF new
    <3>3. b_docs' \in [Names -> DocType]
      BY <3>1, <3>2 DEF Sound
    <3>4. \A n \in Names : Sound(b_docs'[n])
      BY <3>1, <3>2
    <3> QED BY <3>3, <3>4 DEF DocsOK, Sound
  <2> QED BY <1>2, <2>1, <2>3, <2>4 DEF B!TickPurges, DueOK
<1> QED BY <1>1, <1>2 DEF B!Tick

LEMMA BridgeWorkerStep ==
  ASSUME DocsOK, PanesOK, QueueOK, BridgesSpentOK, B!Worker
  PROVE  /\ DocsOK' /\ PanesOK' /\ QueueOK' /\ BridgesSpentOK'
         /\ UNCHANGED <<b_calls, b_due>>
<1> DEFINE n == Head(b_queue).name
<1>1. b_queue # <<>> /\ b_queue' = Tail(b_queue) /\ UNCHANGED <<b_alive, b_calls, b_due>>
  BY DEF B!Worker, B!WorkerCreates, B!WorkerDeletes
<1>2. n \in Names /\ QueueOK'
  <2> DEFINE Published == [op : {"create", "delete"}, name : Names]
  <2>1. \A c \in Published : c.name \in Names
    OBVIOUS
  <2>2. b_queue \in Seq(Published)
    BY DEF QueueOK
  <2> HIDE DEF Published
  <2>3. Head(b_queue) \in Published /\ b_queue' \in Seq(Published)
    BY <1>1, <2>2
  <2> QED BY <2>1, <2>3 DEF QueueOK, Published
<1>3. CASE B!WorkerCreates /\ ~UNCHANGED <<b_docs, b_shells, b_spent>>
  <2> DEFINE new == b_docs[n].status = "none"
             id == IF new THEN b_spent.lives + 1 ELSE b_docs[n].id
             lives == IF new THEN b_spent.lives + 1 ELSE b_spent.lives
             doc == [status |-> "running", owner |-> Nobody, idle |-> FALSE, id |-> id]
  <2>1. /\ new => b_spent.lives < MaxLives
        /\ b_spent' = [b_spent EXCEPT !.lives = lives]
        /\ b_shells' = b_shells \cup {n}
        /\ b_docs' = [b_docs EXCEPT ![n] = doc]
    BY <1>2, <1>3 DEF B!WorkerCreates, DocsOK
  <2>2. id \in 0..MaxLives /\ id # 0 /\ lives \in 0..MaxLives
    BY <1>2, <2>1, DocIds, BridgesAssumption DEF BridgesSpentOK
  <2> HIDE DEF new, id, lives
  <2>3. Sound(doc)
    BY <2>2 DEF Sound, DocType
  <2> HIDE DEF doc
  <2>4. DocsOK'
    BY <1>2, <2>1, <2>3, DocWrites
  <2>5. BridgesSpentOK'
    BY <2>1, <2>2 DEF BridgesSpentOK
  <2> QED BY <1>1, <1>2, <2>1, <2>4, <2>5 DEF PanesOK
<1>4. CASE UNCHANGED <<b_docs, b_shells, b_spent>>
  BY <1>1, <1>2, <1>4 DEF DocsOK, PanesOK, BridgesSpentOK, Sound
<1>5. CASE B!WorkerDeletes
  <2>1. DocsOK'
    BY <1>2, <1>5, NoDocSound, DocWrites DEF B!WorkerDeletes
  <2> QED BY <1>1, <1>2, <1>5, <2>1 DEF B!WorkerDeletes, PanesOK, BridgesSpentOK
<1> QED BY <1>3, <1>4, <1>5 DEF B!Worker

LEMMA BridgeFate ==
  ASSUME DocsOK, PanesOK, BridgesSpentOK, NEW n \in Names,
         B!TtlPasses(n) \/ B!ShellExits(n) \/ B!DiscoveryStops(n)
  PROVE  /\ DocsOK' /\ PanesOK' /\ BridgesSpentOK'
         /\ UNCHANGED <<b_calls, b_queue, b_due>>
<1>1. CASE B!TtlPasses(n)
  <2>1. b_docs' = [b_docs EXCEPT ![n] = [b_docs[n] EXCEPT !.idle = TRUE]]
    BY <1>1 DEF B!TtlPasses, DocsOK
  <2>2. DocsOK'
    BY <2>1, DocIds, SoundUpdates, DocWrites
  <2> QED BY <1>1, <2>2 DEF B!TtlPasses, PanesOK, BridgesSpentOK
<1>2. CASE B!ShellExits(n)
  <2>1. /\ b_spent.exits < MaxExits /\ b_spent' = [b_spent EXCEPT !.exits = b_spent.exits + 1]
        /\ b_shells' = b_shells \ {n} /\ UNCHANGED <<b_docs, b_alive, b_calls, b_queue, b_due>>
    BY <1>2 DEF B!ShellExits
  <2>2. BridgesSpentOK'
    BY <2>1, BridgesAssumption DEF BridgesSpentOK
  <2> QED BY <2>1, <2>2 DEF PanesOK, DocsOK, Sound
<1>3. CASE B!DiscoveryStops(n)
  <2>1. /\ b_docs[n].status # "none"
        /\ b_docs' = [b_docs EXCEPT ![n] = [b_docs[n] EXCEPT !.status = "stopped"]]
    BY <1>3 DEF B!DiscoveryStops, B!Running, DocsOK
  <2>2. DocsOK'
    BY <2>1, DocIds, SoundUpdates, DocWrites
  <2> QED BY <1>3, <2>2 DEF B!DiscoveryStops, PanesOK, BridgesSpentOK
<1> QED BY <1>1, <1>2, <1>3

LEMMA BridgesStep == B!TypeOK /\ BridgesHeld /\ [B!Next]_(B!vars) => B!TypeOK' /\ BridgesHeld'
<1> DEFINE Parts == DocsOK /\ PanesOK /\ CallsOK /\ QueueOK /\ DueOK /\ BridgesSpentOK
<1> SUFFICES ASSUME B!TypeOK, BridgesHeld, [B!Next]_(B!vars) PROVE B!TypeOK' /\ BridgesHeld'
  OBVIOUS
<1>1. Parts
  BY BridgeParts
<1>2. Parts'
  <2>1. CASE UNCHANGED B!vars
    BY <1>1, <2>1 DEF B!vars, DocsOK, PanesOK, CallsOK, QueueOK, DueOK, BridgesSpentOK, Sound
  <2>2. ASSUME NEW c \in Callers,
               B!Caller(c) \/ B!CallerLists(c) \/ B!CallerBeats(c) \/ B!CallerDies(c)
        PROVE  Parts'
    BY <1>1, <2>2, CallerStep DEF DueOK
  <2>3. CASE B!Tick
    BY <1>1, <2>3, BridgeTickStep DEF PanesOK, CallsOK, BridgesSpentOK
  <2>4. CASE B!Worker
    BY <1>1, <2>4, BridgeWorkerStep DEF CallsOK, DueOK
  <2>5. ASSUME NEW n \in Names, B!TtlPasses(n) \/ B!ShellExits(n) \/ B!DiscoveryStops(n)
        PROVE  Parts'
    BY <1>1, <2>5, BridgeFate DEF CallsOK, QueueOK, DueOK
  <2> QED BY <2>1, <2>2, <2>3, <2>4, <2>5 DEF B!Next
<1>3. DocsOK' /\ PanesOK' /\ CallsOK' /\ QueueOK' /\ DueOK' /\ BridgesSpentOK'
      => B!TypeOK' /\ BridgesHeld'
  BY BridgeParts, PTL
<1> QED BY <1>2, <1>3

-----------------------------------------------------------------------------
(* The types of the commands to a host. *)

LEMMA CommandsAssumption == MaxCommands \in Nat /\ MaxErrors \in Nat
BY ApiAssumption

\* The command that is worked on is the first of the queue.
CommandAtHand == c_work.at \in {"taken", "ran", "answered"} => c_queue # <<>>

CommandType == [id : C!Commands, op : C!Ops, path : Paths, dest : Paths]
RequestsOK == /\ c_queue \in Seq(CommandType)
              /\ c_calls \in [Tools -> [id : 0..c_spent.commands, dest : Paths \cup {"nowhere"}]]
              /\ c_spent \in [commands : 0..MaxCommands, faults : 0..MaxErrors]
WorkOK == /\ c_work \in [at : {"down", "idle", "taken", "ran", "answered"}, answer : C!Answers]
          /\ CommandAtHand
AnswersOK == /\ c_processed \subseteq C!Commands /\ c_lost \subseteq C!Commands
             /\ c_results \in [C!Commands -> C!Answers]
             /\ c_files \subseteq Paths /\ c_beat \in BOOLEAN

LEMMA CommandParts ==
  C!TypeOK /\ CommandAtHand <=> RequestsOK /\ WorkOK /\ AnswersOK
BY Zenon DEF C!TypeOK, RequestsOK, WorkOK, AnswersOK, CommandType

LEMMA CommandsInit == C!Init => C!TypeOK /\ CommandAtHand
<1> SUFFICES ASSUME C!Init PROVE RequestsOK /\ WorkOK /\ AnswersOK
  BY CommandParts
<1>1. RequestsOK
  BY CommandsAssumption DEF C!Init, RequestsOK, C!NoCall
<1>2. WorkOK
  BY DEF C!Init, WorkOK, CommandAtHand, C!Idle, C!Answers
<1>3. AnswersOK
  BY DEF C!Init, AnswersOK, C!Answers
<1> QED BY <1>1, <1>2, <1>3

LEMMA NoCallType ==
  ASSUME NEW n \in Nat
  PROVE  C!NoCall \in [id : 0..n, dest : Paths \cup {"nowhere"}]
BY DEF C!NoCall

\* A command that is queued has a number of its own.
LEMMA PostStep ==
  ASSUME RequestsOK, WorkOK, NEW c \in Tools, NEW op \in C!Ops, NEW path \in Paths,
         NEW dest \in Paths, NEW copyTo \in Paths \cup {"nowhere"},
         C!Post(c, op, path, dest, copyTo), UNCHANGED c_work
  PROVE  RequestsOK' /\ WorkOK'
<1> DEFINE id == c_spent.commands + 1
           cmd == [id |-> id, op |-> op, path |-> path, dest |-> dest]
<1>1. /\ c_spent.commands < MaxCommands
      /\ c_queue' = Append(c_queue, cmd)
      /\ c_calls' = [c_calls EXCEPT ![c] = [id |-> id, dest |-> copyTo]]
      /\ c_spent' = [c_spent EXCEPT !.commands = id]
  BY DEF C!Post
<1>2. /\ c_spent.commands \in Nat /\ id \in C!Commands
      /\ c_spent' \in [commands : 0..MaxCommands, faults : 0..MaxErrors]
      /\ c_spent'.commands = id
  <2>1. c_spent.commands \in 0..MaxCommands
    BY DEF RequestsOK
  <2>2. /\ c_spent.commands \in Nat /\ id \in C!Commands /\ id \in 0..MaxCommands
    BY <1>1, <2>1, CommandsAssumption DEF C!Commands
  <2> HIDE DEF id
  <2> QED BY <1>1, <2>2 DEF RequestsOK
<1>3. cmd \in CommandType
  <2> HIDE DEF id
  <2> QED BY <1>2 DEF CommandType
<1>4. c_queue' \in Seq(CommandType) /\ c_queue' # <<>>
  <2> HIDE DEF cmd
  <2> QED BY <1>1, <1>3 DEF RequestsOK
<1>5. c_calls' \in [Tools -> [id : 0..c_spent'.commands, dest : Paths \cup {"nowhere"}]]
  BY <1>1, <1>2 DEF RequestsOK
<1> QED BY <1>2, <1>4, <1>5 DEF RequestsOK, WorkOK, CommandAtHand

LEMMA ToolStep ==
  ASSUME RequestsOK, WorkOK, AnswersOK, NEW c \in Tools,
         C!Request(c) \/ C!PollAnswered(c) \/ C!PollTimesOut(c)
  PROVE  RequestsOK' /\ WorkOK' /\ AnswersOK'
<1> /\ UNCHANGED <<c_files, c_work, c_processed, c_results, c_beat, c_lost>>
  BY DEF C!Request, C!PollAnswered, C!PollTimesOut
<1>1. AnswersOK'
  BY DEF AnswersOK
<1>2. CASE C!Request(c)
  <2>1. \E op \in C!Ops, path \in Paths, dest \in Paths, copyTo \in Paths \cup {"nowhere"} :
          C!Post(c, op, path, dest, copyTo)
    BY <1>2, Zenon DEF C!Request, C!PostFetch, C!Ops
  <2> QED BY <1>1, <2>1, PostStep
<1>3. CASE C!PollAnswered(c) /\ ~UNCHANGED <<c_queue, c_spent>>
  <2>1. c_calls[c].dest \in Paths
    BY <1>3 DEF C!PollAnswered, RequestsOK
  <2>2. C!Post(c, "write", c_calls[c].dest, c_calls[c].dest, "nowhere")
    BY <1>3, Zenon DEF C!PollAnswered
  <2> QED BY <1>1, <2>1, <2>2, PostStep DEF C!Ops
<1>4. ASSUME UNCHANGED <<c_queue, c_spent>>, c_calls' = [c_calls EXCEPT ![c] = C!NoCall]
      PROVE  RequestsOK' /\ WorkOK' /\ AnswersOK'
  BY <1>1, <1>4, NoCallType, CommandsAssumption DEF RequestsOK, WorkOK, CommandAtHand
<1>5. CASE C!PollAnswered(c) /\ UNCHANGED <<c_queue, c_spent>>
  <2>1. c_calls' = [c_calls EXCEPT ![c] = C!NoCall]
    <3>1. ASSUME NEW op, NEW path, NEW dest, NEW to, C!Post(c, op, path, dest, to)
          PROVE  FALSE
      BY <1>5, <3>1, CommandsAssumption DEF C!Post, RequestsOK
    <3> QED BY <1>5, <3>1, Zenon DEF C!PollAnswered
  <2> QED BY <1>4, <1>5, <2>1
<1>6. CASE C!PollTimesOut(c)
  BY <1>4, <1>6 DEF C!PollTimesOut
<1> QED BY <1>2, <1>3, <1>5, <1>6

LEMMA CmdType ==
  ASSUME RequestsOK, c_queue # <<>>
  PROVE  C!Cmd \in CommandType /\ Tail(c_queue) \in Seq(CommandType)
BY DEF RequestsOK, C!Cmd

LEMMA CmdFields ==
  ASSUME NEW cmd \in CommandType
  PROVE  cmd.id \in C!Commands /\ cmd.path \in Paths /\ cmd.dest \in Paths
BY DEF CommandType

LEMMA HandlingStep ==
  ASSUME RequestsOK, WorkOK, AnswersOK, C!Worker \/ C!Raises \/ C!Crash \/ C!HeartbeatAges
  PROVE  RequestsOK' /\ WorkOK' /\ AnswersOK'
<1>1. CASE C!Take
  <2>1. /\ c_work = C!Idle /\ c_queue # <<>>
        /\ \/ c_queue' = Tail(c_queue) /\ UNCHANGED c_work
           \/ c_work' = [C!Idle EXCEPT !.at = "taken"] /\ UNCHANGED c_queue
        /\ UNCHANGED <<c_files, c_processed, c_results, c_calls, c_beat, c_lost, c_spent>>
    BY <1>1, Zenon DEF C!Take
  <2>2. WorkOK'
    BY <2>1 DEF WorkOK, CommandAtHand, C!Idle, C!Answers
  <2>3. RequestsOK'
    BY <2>1, CmdType DEF RequestsOK
  <2> QED BY <2>1, <2>2, <2>3 DEF AnswersOK
<1>2. CASE C!Run
  <2>1. c_work.at = "taken" /\ c_queue # <<>>
        /\ UNCHANGED <<c_queue, c_processed, c_results, c_calls, c_beat, c_lost, c_spent>>
    BY <1>2, Zenon DEF C!Run, WorkOK, CommandAtHand
  <2>2. C!Cmd.path \in Paths /\ C!Cmd.dest \in Paths
    BY <2>1, CmdType, CmdFields
  <2>3. \E there \in SUBSET Paths, said \in C!Answers : C!Outcome(there, said)
    <3>1. /\ c_files \in SUBSET Paths /\ c_files \cup {C!Cmd.path} \in SUBSET Paths
          /\ c_files \cup {C!Cmd.dest} \in SUBSET Paths
          /\ c_files \ {C!Cmd.path} \in SUBSET Paths
          /\ "ok" \in C!Answers /\ "error" \in C!Answers
      BY <2>2 DEF AnswersOK, C!Answers
    <3> QED BY <1>2, <3>1, Zenon DEF C!Run, C!FsRead, C!FsFetch, C!FsWrite, C!FsCopy, C!FsDelete
  <2>4. WorkOK' /\ c_files' \subseteq Paths
    BY <2>1, <2>3 DEF C!Outcome, WorkOK, CommandAtHand
  <2> QED BY <2>1, <2>4 DEF RequestsOK, AnswersOK
<1>3. CASE C!WriteCommandResult
  <2>1. /\ c_work.at = "ran" /\ c_queue # <<>>
        /\ c_results' = [c_results EXCEPT ![C!Cmd.id] = c_work.answer]
        /\ c_work' = [c_work EXCEPT !.at = "answered"]
        /\ UNCHANGED <<c_files, c_queue, c_processed, c_calls, c_beat, c_lost, c_spent>>
    BY <1>3 DEF C!WriteCommandResult, WorkOK, CommandAtHand
  <2>2. WorkOK' /\ c_work.answer \in C!Answers
    BY <2>1 DEF WorkOK, CommandAtHand
  <2>3. AnswersOK'
    BY <2>1, <2>2 DEF AnswersOK
  <2> QED BY <2>1, <2>2, <2>3 DEF RequestsOK
<1>4. CASE C!Ack
  <2>1. /\ c_work.at = "answered" /\ c_queue # <<>>
        /\ c_processed' = c_processed \cup {C!Cmd.id} /\ c_queue' = Tail(c_queue)
        /\ c_work' = C!Idle
        /\ UNCHANGED <<c_files, c_results, c_calls, c_beat, c_lost, c_spent>>
    BY <1>4 DEF C!Ack, WorkOK, CommandAtHand
  <2>2. C!Cmd.id \in C!Commands /\ Tail(c_queue) \in Seq(CommandType)
    BY <2>1, CmdType, CmdFields
  <2>3. RequestsOK' /\ AnswersOK'
    BY <2>1, <2>2 DEF RequestsOK, AnswersOK
  <2> QED BY <2>1, <2>3 DEF WorkOK, CommandAtHand, C!Idle, C!Answers
<1>5. CASE C!Restart
  BY <1>5 DEF C!Restart, C!Idle, C!Answers, RequestsOK, WorkOK, CommandAtHand, AnswersOK
<1>6. CASE C!HeartbeatAges
  BY <1>6 DEF C!HeartbeatAges, RequestsOK, WorkOK, CommandAtHand, AnswersOK
<1>7. CASE C!Raises \/ C!Crash
  <2>1. C!Fault /\ c_work' = C!Down /\ c_processed' = {}
        /\ UNCHANGED <<c_files, c_results, c_calls, c_beat>>
    BY <1>7 DEF C!Raises, C!Crash
  <2>2. /\ c_spent' \in [commands : 0..MaxCommands, faults : 0..MaxErrors]
        /\ c_spent'.commands = c_spent.commands
    <3>1. c_spent \in [commands : 0..MaxCommands, faults : 0..MaxErrors]
      BY DEF RequestsOK
    <3> QED BY <2>1, <3>1, CommandsAssumption DEF C!Fault
  <2>3. WorkOK'
    BY <2>1 DEF WorkOK, CommandAtHand, C!Down, C!Answers
  <2>4. CASE C!Raises
    <3>1. /\ c_queue # <<>> /\ c_queue' = Tail(c_queue)
          /\ c_lost' = c_lost \/ c_lost' = c_lost \cup {C!Cmd.id}
      BY <2>4 DEF C!Raises, WorkOK, CommandAtHand
    <3>2. C!Cmd.id \in C!Commands /\ Tail(c_queue) \in Seq(CommandType)
      BY <3>1, CmdType, CmdFields
    <3> QED BY <2>1, <2>2, <2>3, <3>1, <3>2 DEF RequestsOK, AnswersOK
  <2>5. CASE C!Crash
    BY <2>1, <2>2, <2>3, <2>5 DEF C!Crash, RequestsOK, AnswersOK
  <2> QED BY <1>7, <2>4, <2>5
<1> QED BY <1>1, <1>2, <1>3, <1>4, <1>5, <1>6, <1>7 DEF C!Worker

LEMMA CommandsStep == C!TypeOK /\ CommandAtHand /\ [C!Next]_(C!vars) => C!TypeOK' /\ CommandAtHand'
<1> DEFINE Parts == RequestsOK /\ WorkOK /\ AnswersOK
<1> SUFFICES ASSUME C!TypeOK, CommandAtHand, [C!Next]_(C!vars) PROVE C!TypeOK' /\ CommandAtHand'
  OBVIOUS
<1>1. Parts
  BY CommandParts
<1>2. Parts'
  <2>1. CASE UNCHANGED C!vars
    BY <1>1, <2>1 DEF C!vars, RequestsOK, WorkOK, CommandAtHand, AnswersOK
  <2>2. ASSUME NEW c \in Tools, C!Request(c) \/ C!PollAnswered(c) \/ C!PollTimesOut(c)
        PROVE  Parts'
    BY <1>1, <2>2, ToolStep
  <2>3. CASE C!Worker \/ C!Raises \/ C!Crash \/ C!HeartbeatAges
    BY <1>1, <2>3, HandlingStep
  <2> QED BY <2>1, <2>2, <2>3 DEF C!Next
<1>3. RequestsOK' /\ WorkOK' /\ AnswersOK' => C!TypeOK' /\ CommandAtHand'
  BY CommandParts, PTL
<1> QED BY <1>2, <1>3

-----------------------------------------------------------------------------
(* All the parts. *)

ApiInv == /\ TypeOK
          /\ E!TypeOK /\ EventsHeld
          /\ B!TypeOK /\ BridgesHeld
          /\ C!TypeOK /\ CommandAtHand
          /\ DemandsInv

\* A step of the API is one of each part or none of it.
LEMMA ApiSteps ==
  ASSUME [Nexts]_all
  PROVE  [Next]_vars /\ [E!Next]_(E!vars) /\ [B!Next]_(B!vars) /\ [C!Next]_(C!vars)
<1>1. UNCHANGED eventsVars => UNCHANGED E!vars
  BY DEF eventsVars, E!vars
<1>2. UNCHANGED bridgesVars => UNCHANGED B!vars
  BY DEF bridgesVars, B!vars
<1>3. UNCHANGED commandsVars => UNCHANGED C!vars
  BY DEF commandsVars, C!vars
<1> QED BY <1>1, <1>2, <1>3, Zenon
    DEF Nexts, all, Schedules, Events, Bridges, Commands, Demands, Of

\* Every part of the API keeps its types, whatever the others are: events numbered
\* as they are stored and queues of streams within their size, ids of bridges and of
\* what the tick listed, answers of commands, and the demands.
THEOREM ApiKeepsItsTypes == Behaviour => []PartsTypeOK
<1>1. Inits => Init /\ E!Init /\ B!Init /\ C!Init /\ D!Init
  BY DEF Inits
<1>2. Inits => ApiInv
  BY <1>1, InitType, EventsInit, BridgesInit, CommandsInit, DemandsInit DEF ApiInv
<1>3. ApiInv /\ [Nexts]_all => ApiInv'
  BY ApiSteps, DemandsSteps, StepType, EventsStep, BridgesStep, CommandsStep, DemandsStep
  DEF ApiInv
<1>4. ApiInv => PartsTypeOK
  BY DEF ApiInv, PartsTypeOK, DemandsInv
<1> QED BY <1>2, <1>3, <1>4, PTL DEF Behaviour

-----------------------------------------------------------------------------
(* What becomes of a command. *)

\* The ids of the commands in a queue.
Awaited(q) == {q[k].id : k \in 1..Len(q)}

\* Every command that was queued has an answer, was taken from the queue by an error
\* that nothing catches, or is still there.
CommandsAccounted ==
  \A i \in 1..c_spent.commands :
    \/ c_results[i] # "none"
    \/ i \in c_lost
    \/ i \in Awaited(c_queue)

\* Why it is kept: what the worker takes from the queue has its answer, be it handled
\* before in this life or just now.
AnsweredFirst ==
  /\ \A i \in c_processed : c_results[i] # "none"
  /\ c_work.at = "ran" => c_work.answer # "none"
  /\ c_work.at = "answered" => c_results[C!Cmd.id] # "none"

Accounted == CommandsAccounted /\ AnsweredFirst

LEMMA AwaitedTail ==
  ASSUME NEW q \in Seq(CommandType), q # <<>>
  PROVE  Awaited(q) \subseteq {Head(q).id} \cup Awaited(Tail(q))
<1>1. ASSUME NEW k \in 1..Len(q)
      PROVE  q[k].id = Head(q).id \/ q[k].id \in Awaited(Tail(q))
  <2>1. CASE k = 1
    <3>1. Head(q) = q[1]
      OBVIOUS
    <3> QED BY <2>1, <3>1
  <2>2. CASE k # 1
    <3>1. k - 1 \in 1..Len(Tail(q)) /\ Tail(q)[k - 1] = q[k]
      BY <1>1, <2>2
    <3> QED BY <3>1 DEF Awaited
  <2> QED BY <2>1, <2>2
<1> QED BY <1>1 DEF Awaited

LEMMA AwaitedAppend ==
  ASSUME NEW q \in Seq(CommandType), NEW c \in CommandType
  PROVE  Awaited(q) \cup {c.id} \subseteq Awaited(Append(q, c))
<1> DEFINE r == Append(q, c)
<1>1. Len(r) = Len(q) + 1 /\ r[Len(q) + 1] = c /\ Len(q) \in Nat
  OBVIOUS
<1>2. \A k \in 1..Len(q) : k \in 1..Len(r) /\ r[k] = q[k]
  OBVIOUS
<1>3. Len(q) + 1 \in 1..Len(r)
  BY <1>1
<1> HIDE DEF r
<1>4. ASSUME NEW k \in 1..Len(q) PROVE q[k].id \in Awaited(r)
  BY <1>2, <1>4 DEF Awaited
<1>5. c.id \in Awaited(r)
  BY <1>1, <1>3 DEF Awaited
<1> QED BY <1>4, <1>5 DEF Awaited, r

\* A caller adds a command to the end of the queue, or none.
LEMMA ToolsAccount ==
  ASSUME RequestsOK, WorkOK, Accounted, NEW c \in Tools,
         C!Request(c) \/ C!PollAnswered(c) \/ C!PollTimesOut(c)
  PROVE  Accounted'
<1>1. UNCHANGED <<c_work, c_processed, c_results, c_lost>>
  BY DEF C!Request, C!PollAnswered, C!PollTimesOut
<1>2. ASSUME NEW op \in C!Ops, NEW path \in Paths, NEW dest \in Paths, NEW copyTo,
             C!Post(c, op, path, dest, copyTo)
      PROVE  Accounted'
  <2> DEFINE n == c_spent.commands
             cmd == [id |-> n + 1, op |-> op, path |-> path, dest |-> dest]
  <2>1. n < MaxCommands /\ c_queue' = Append(c_queue, cmd) /\ c_spent'.commands = n + 1
    <3>1. c_spent \in [commands : 0..MaxCommands, faults : 0..MaxErrors]
      BY DEF RequestsOK
    <3> QED BY <1>2, <3>1 DEF C!Post
  <2>2. n \in Nat /\ n + 1 \in C!Commands
    <3>1. n \in 0..MaxCommands
      BY DEF RequestsOK
    <3> QED BY <2>1, <3>1, CommandsAssumption DEF C!Commands
  <2>3. cmd \in CommandType /\ cmd.id = n + 1
    <3> HIDE DEF n
    <3> QED BY <1>2, <2>2 DEF CommandType
  <2>4. c_queue \in Seq(CommandType)
    BY DEF RequestsOK
  <2> HIDE DEF cmd
  <2>5. Awaited(c_queue) \cup {n + 1} \subseteq Awaited(c_queue')
    BY <2>1, <2>3, <2>4, AwaitedAppend
  <2>6. \A i \in 1..n + 1 : i \in 1..n \/ i = n + 1
    BY <2>2
  <2>7. CommandsAccounted'
    BY <1>1, <2>1, <2>5, <2>6 DEF Accounted, CommandsAccounted
  <2>8. c_work.at = "answered" => C!Cmd' = C!Cmd
    <3>1. c_queue # <<>> => Head(c_queue') = Head(c_queue)
      BY <2>1, <2>3, <2>4
    <3> QED BY <3>1 DEF WorkOK, CommandAtHand, C!Cmd
  <2>9. AnsweredFirst'
    BY <1>1, <2>8 DEF Accounted, AnsweredFirst
  <2> QED BY <2>7, <2>9 DEF Accounted
<1>3. CASE UNCHANGED <<c_queue, c_spent>>
  BY <1>1, <1>3 DEF Accounted, CommandsAccounted, AnsweredFirst, C!Cmd
<1>4. CASE C!Request(c)
  <2>1. \E op \in C!Ops, path \in Paths, dest \in Paths, copyTo \in Paths \cup {"nowhere"} :
          C!Post(c, op, path, dest, copyTo)
    BY <1>4, Zenon DEF C!Request, C!PostFetch, C!Ops
  <2> QED BY <1>2, <2>1
<1>5. CASE C!PollAnswered(c) /\ ~UNCHANGED <<c_queue, c_spent>>
  <2>1. c_calls[c].dest \in Paths
    BY <1>5 DEF C!PollAnswered, RequestsOK
  <2>2. C!Post(c, "write", c_calls[c].dest, c_calls[c].dest, "nowhere")
    BY <1>5, Zenon DEF C!PollAnswered
  <2> QED BY <1>2, <2>1, <2>2 DEF C!Ops
<1>6. CASE C!PollTimesOut(c)
  BY <1>3, <1>6 DEF C!PollTimesOut
<1> QED BY <1>3, <1>4, <1>5, <1>6

\* The worker takes the first command away once it has an answer, or an error does.
LEMMA WorkerAccounts ==
  ASSUME RequestsOK, WorkOK, AnswersOK, Accounted,
         C!Worker \/ C!Raises \/ C!Crash \/ C!HeartbeatAges
  PROVE  Accounted'
<1>1. ASSUME c_queue # <<>>, c_queue' = Tail(c_queue), UNCHANGED c_spent.commands,
             \A i \in C!Commands : c_results[i] # "none" => c_results'[i] # "none",
             c_lost \subseteq c_lost', c_results'[C!Cmd.id] # "none" \/ C!Cmd.id \in c_lost'
      PROVE  CommandsAccounted'
  <2>1. Awaited(c_queue) \subseteq {C!Cmd.id} \cup Awaited(c_queue')
    BY <1>1, AwaitedTail DEF RequestsOK, C!Cmd
  <2>2. ASSUME NEW i \in 1..c_spent.commands PROVE i \in C!Commands
    <3>1. c_spent.commands \in 0..MaxCommands
      BY DEF RequestsOK
    <3> QED BY <2>2, <3>1, CommandsAssumption DEF C!Commands
  <2>3. ASSUME NEW i \in 1..c_spent.commands
        PROVE  c_results'[i] # "none" \/ i \in c_lost' \/ i \in Awaited(c_queue')
    BY <1>1, <2>1, <2>2, <2>3 DEF Accounted, CommandsAccounted
  <2> QED BY <1>1, <2>3 DEF CommandsAccounted
<1>2. CASE C!Take
  <2>1. /\ c_work = C!Idle /\ c_queue # <<>>
        /\ \/ C!Cmd.id \in c_processed /\ c_queue' = Tail(c_queue) /\ UNCHANGED c_work
           \/ c_work' = [C!Idle EXCEPT !.at = "taken"] /\ UNCHANGED c_queue
        /\ UNCHANGED <<c_processed, c_results, c_lost, c_spent>>
    BY <1>2, Zenon DEF C!Take
  <2>2. c_work'.at \in {"idle", "taken"}
    BY <2>1 DEF C!Idle
  <2>3. AnsweredFirst'
    BY <2>1, <2>2 DEF Accounted, AnsweredFirst
  <2>4. CASE UNCHANGED c_queue
    BY <2>1, <2>3, <2>4 DEF Accounted, CommandsAccounted
  <2>5. CASE C!Cmd.id \in c_processed /\ c_queue' = Tail(c_queue)
    <3>1. c_results'[C!Cmd.id] # "none"
      BY <2>1, <2>5 DEF Accounted, AnsweredFirst
    <3>2. CommandsAccounted'
      BY <1>1, <2>1, <2>5, <3>1
    <3> QED BY <2>3, <3>2 DEF Accounted
  <2> QED BY <2>1, <2>4, <2>5
<1>3. CASE C!Run
  <2>1. /\ UNCHANGED <<c_queue, c_processed, c_results, c_lost, c_spent>>
        /\ c_work'.at = "ran" /\ c_work'.answer # "none"
    BY <1>3 DEF C!Run, C!Outcome, C!FsRead, C!FsFetch, C!FsWrite, C!FsCopy, C!FsDelete
  <2> QED BY <2>1 DEF Accounted, CommandsAccounted, AnsweredFirst
<1>4. CASE C!WriteCommandResult
  <2>1. /\ c_work.at = "ran" /\ c_queue # <<>>
        /\ c_results' = [c_results EXCEPT ![C!Cmd.id] = c_work.answer]
        /\ c_work' = [c_work EXCEPT !.at = "answered"]
        /\ UNCHANGED <<c_queue, c_processed, c_lost, c_spent>>
    BY <1>4 DEF C!WriteCommandResult, WorkOK, CommandAtHand
  <2>2. c_work.answer # "none" /\ c_work'.at = "answered" /\ C!Cmd' = C!Cmd
    BY <2>1 DEF Accounted, AnsweredFirst, WorkOK, C!Cmd
  <2>3. C!Cmd.id \in C!Commands /\ c_results \in [C!Commands -> C!Answers]
    BY <2>1, CmdType, CmdFields DEF AnswersOK
  <2>4. \A i \in C!Commands : /\ c_results[i] # "none" => c_results'[i] # "none"
                              /\ i = C!Cmd.id => c_results'[i] # "none"
    BY <2>1, <2>2, <2>3
  <2>5. AnsweredFirst'
    BY <2>1, <2>2, <2>3, <2>4 DEF Accounted, AnsweredFirst, AnswersOK
  <2>6. \A i \in 1..c_spent.commands : i \in C!Commands
    <3>1. c_spent.commands \in 0..MaxCommands
      BY DEF RequestsOK
    <3> QED BY <3>1, CommandsAssumption DEF C!Commands
  <2>7. CommandsAccounted'
    BY <2>1, <2>4, <2>6 DEF Accounted, CommandsAccounted
  <2> QED BY <2>5, <2>7 DEF Accounted
<1>5. CASE C!Ack
  <2>1. /\ c_work.at = "answered" /\ c_queue # <<>>
        /\ c_processed' = c_processed \cup {C!Cmd.id} /\ c_queue' = Tail(c_queue)
        /\ c_work'.at = "idle"
        /\ UNCHANGED <<c_results, c_lost, c_spent>>
    BY <1>5 DEF C!Ack, C!Idle, WorkOK, CommandAtHand
  <2>2. c_results'[C!Cmd.id] # "none"
    BY <2>1 DEF Accounted, AnsweredFirst
  <2>3. CommandsAccounted'
    BY <1>1, <2>1, <2>2
  <2>4. AnsweredFirst'
    BY <2>1, <2>2 DEF Accounted, AnsweredFirst
  <2> QED BY <2>3, <2>4 DEF Accounted
<1>6. CASE C!Restart \/ C!HeartbeatAges
  <2>1. /\ UNCHANGED <<c_queue, c_processed, c_results, c_lost, c_spent>>
        /\ c_work'.at = "idle" \/ UNCHANGED c_work
    BY <1>6 DEF C!Restart, C!HeartbeatAges, C!Idle
  <2> QED BY <2>1 DEF Accounted, CommandsAccounted, AnsweredFirst, C!Cmd
<1>7. CASE C!Raises \/ C!Crash
  <2>1. /\ c_work'.at = "down" /\ c_processed' = {} /\ UNCHANGED c_results
        /\ C!Fault
    BY <1>7 DEF C!Raises, C!Crash, C!Down
  <2>2. UNCHANGED c_spent.commands
    <3>1. c_spent \in [commands : 0..MaxCommands, faults : 0..MaxErrors]
      BY DEF RequestsOK
    <3> QED BY <2>1, <3>1 DEF C!Fault
  <2>3. AnsweredFirst'
    BY <2>1 DEF AnsweredFirst
  <2>4. CASE C!Raises
    <3>1. /\ c_queue # <<>> /\ c_queue' = Tail(c_queue)
          /\ c_lost' = IF c_results[C!Cmd.id] = "none" THEN c_lost \cup {C!Cmd.id} ELSE c_lost
      BY <2>4 DEF C!Raises, WorkOK, CommandAtHand
    <3>2. c_lost \subseteq c_lost' /\ (c_results'[C!Cmd.id] # "none" \/ C!Cmd.id \in c_lost')
      BY <2>1, <3>1
    <3>3. CommandsAccounted'
      BY <1>1, <2>1, <2>2, <3>1, <3>2
    <3> QED BY <2>3, <3>3 DEF Accounted
  <2>5. CASE C!Crash
    <3>1. UNCHANGED <<c_queue, c_lost>>
      BY <2>5 DEF C!Crash
    <3> QED BY <2>1, <2>2, <2>3, <3>1 DEF Accounted, CommandsAccounted
  <2> QED BY <1>7, <2>4, <2>5
<1> QED BY <1>2, <1>3, <1>4, <1>5, <1>6, <1>7 DEF C!Worker

\* What was asked of a host is not forgotten: until it has an answer it is in the queue,
\* unless an error took it, whatever dies and whoever gave up waiting.
THEOREM CommandsAreAccounted == Behaviour => []CommandsAccounted
<1> DEFINE Inv == C!TypeOK /\ CommandAtHand /\ Accounted
<1>1. Inits => Inv
  <2> SUFFICES ASSUME Inits PROVE Inv
    OBVIOUS
  <2>1. C!Init
    BY DEF Inits
  <2>2. c_spent.commands = 0 /\ c_processed = {} /\ c_work.at = "idle"
    BY <2>1 DEF C!Init, C!Idle
  <2>3. Accounted
    BY <2>2 DEF Accounted, CommandsAccounted, AnsweredFirst
  <2> QED BY <2>1, <2>3, CommandsInit
<1>2. Inv /\ [Nexts]_all => Inv'
  <2> SUFFICES ASSUME Inv, [Nexts]_all PROVE Inv'
    OBVIOUS
  <2>1. [C!Next]_(C!vars) /\ RequestsOK /\ WorkOK /\ AnswersOK
    BY ApiSteps, CommandParts
  <2>2. C!TypeOK' /\ CommandAtHand'
    BY <2>1, CommandsStep
  <2>3. ASSUME UNCHANGED C!vars PROVE Accounted'
    BY <2>3 DEF C!vars, Accounted, CommandsAccounted, AnsweredFirst, C!Cmd
  <2>4. ASSUME NEW c \in Tools, C!Request(c) \/ C!PollAnswered(c) \/ C!PollTimesOut(c)
        PROVE  Accounted'
    BY <2>1, <2>4, ToolsAccount
  <2>5. ASSUME C!Worker \/ C!Raises \/ C!Crash \/ C!HeartbeatAges PROVE Accounted'
    BY <2>1, <2>5, WorkerAccounts
  <2>6. Accounted'
    BY <2>1, <2>3, <2>4, <2>5 DEF C!Next
  <2> QED BY <2>2, <2>6
<1>3. Inv => CommandsAccounted
  BY DEF Accounted
<1> QED BY <1>1, <1>2, <1>3, PTL DEF Behaviour

\* While a stream is open, the newest frame that was put there is the last of its queue,
\* or the one the page handled last.
NewestWaits ==
  e_stream.newest # 0 =>
    IF e_stream.queue # <<>> THEN e_stream.queue[Len(e_stream.queue)].n = e_stream.newest
    ELSE e_browser.last.n = e_stream.newest

\* A page that was not left has its source, is opening one, or has a timer set to open it.
PageIsConnecting ==
  e_browser.stopped \/ e_browser.source # "none" \/ e_browser.timer

LEMMA PutLast ==
  ASSUME NEW queue \in Seq(E!Frames), Len(queue) <= QueueMax, NEW frame \in E!Frames
  PROVE  LET q == E!Put(queue, frame) IN q # <<>> /\ q[Len(q)] = frame
<1> DEFINE kept == IF Len(queue) < QueueMax THEN queue ELSE Tail(queue)
<1>1. kept \in Seq(E!Frames)
  <2>1. CASE Len(queue) < QueueMax
    BY <2>1
  <2>2. CASE ~(Len(queue) < QueueMax)
    <3>1. queue # <<>>
      BY <2>2, EventsAssumption
    <3> QED BY <2>2, <3>1
  <2> QED BY <2>1, <2>2
<1>2. E!Put(queue, frame) = Append(kept, frame)
  BY DEF E!Put
<1> HIDE DEF kept
<1>3. Append(kept, frame) # <<>> /\ Append(kept, frame)[Len(Append(kept, frame))] = frame
  BY <1>1
<1> QED BY <1>2, <1>3

LEMMA EmptySeq ==
  ASSUME NEW q \in Seq(E!Frames), Len(q) = 0
  PROVE  q = <<>>
OBVIOUS

LEMMA TailLast ==
  ASSUME NEW queue \in Seq(E!Frames), queue # <<>>
  PROVE  /\ Tail(queue) # <<>> => Tail(queue)[Len(Tail(queue))] = queue[Len(queue)]
         /\ Tail(queue) = <<>> => Head(queue) = queue[Len(queue)]
<1>1. Len(Tail(queue)) = Len(queue) - 1 /\ Len(queue) \in Nat \ {0} /\ Head(queue) = queue[1]
  OBVIOUS
<1>2. CASE Len(queue) = 1
  <2>1. Len(Tail(queue)) = 0 /\ Tail(queue) \in Seq(E!Frames)
    BY <1>1, <1>2
  <2>2. Tail(queue) = <<>>
    BY <2>1, EmptySeq, Zenon
  <2> QED BY <1>1, <1>2, <2>2
<1>3. CASE Len(queue) # 1
  <2>1. Tail(queue) # <<>> /\ Len(queue) - 1 \in 1..Len(Tail(queue))
    BY <1>1, <1>3
  <2>2. \A k \in 1..Len(Tail(queue)) : Tail(queue)[k] = queue[k + 1]
    OBVIOUS
  <2>3. Tail(queue)[Len(queue) - 1] = queue[Len(queue)]
    BY <1>1, <2>1, <2>2
  <2> QED BY <1>1, <2>1, <2>3
<1> QED BY <1>2, <1>3

LEMMA NewestStep ==
  E!TypeOK /\ EventsHeld /\ NewestWaits /\ [E!Next]_(E!vars) => NewestWaits'
<1> SUFFICES ASSUME E!TypeOK, EventsHeld, NewestWaits, [E!Next]_(E!vars) PROVE NewestWaits'
  OBVIOUS
<1>1. WireOK /\ StreamOK /\ BrowserOK
  BY EventParts
<1>2. ASSUME UNCHANGED e_stream, e_browser'.last = e_browser.last PROVE NewestWaits'
  BY <1>2 DEF NewestWaits
<1>3. ASSUME e_stream'.newest = 0 PROVE NewestWaits'
  BY <1>3 DEF NewestWaits
<1>4. ASSUME E!OnMessage PROVE NewestWaits'
  <2> DEFINE frame == Head(e_wire)
             q == E!Put(e_stream.queue, frame)
  <2>1. UNCHANGED e_browser /\ e_wire # <<>>
        /\ e_stream' = IF ~e_stream.open THEN e_stream
                       ELSE [e_stream EXCEPT !.queue = q, !.newest = frame.n]
    BY <1>4 DEF E!OnMessage
  <2>2. frame \in E!Frames
    BY <1>1, <2>1 DEF WireOK
  <2>3. q # <<>> /\ q[Len(q)] = frame
    <3> HIDE DEF frame
    <3> QED BY <1>1, <2>2, PutLast DEF StreamOK, StreamType
  <2> HIDE DEF q, frame
  <2>4. CASE e_stream.open
    <3>1. e_stream'.queue = q /\ e_stream'.newest = frame.n
      BY <1>1, <2>1, <2>4 DEF StreamOK, StreamType
    <3> QED BY <2>3, <3>1 DEF NewestWaits
  <2>5. CASE ~e_stream.open
    BY <1>2, <2>1, <2>5
  <2> QED BY <2>4, <2>5
<1>5. ASSUME E!StreamSends PROVE NewestWaits'
  <2> DEFINE q == e_stream.queue
  <2>1. q # <<>> /\ q \in Seq(E!Frames)
    BY <1>1, <1>5 DEF E!StreamSends, StreamOK, StreamType
  <2>2. /\ e_stream'.queue = Tail(q) /\ e_stream'.newest = e_stream.newest
        /\ e_browser'.last = Head(q)
    BY <1>1, <1>5 DEF E!StreamSends, E!HandleMessage, StreamOK, StreamType, BrowserOK, BrowserType
  <2>3. e_stream.newest # 0 => q[Len(q)].n = e_stream.newest
    BY <2>1 DEF NewestWaits
  <2> HIDE DEF q
  <2> QED BY <2>1, <2>2, <2>3, TailLast DEF NewestWaits
<1>6. ASSUME E!ApiStops \/ E!Connect \/ E!Disconnect \/ E!OnOpen \/ E!StreamBreaks
      PROVE  NewestWaits'
  <2>1. e_stream' = E!NoStream \/ e_stream' = [E!NoStream EXCEPT !.open = TRUE]
    BY <1>6 DEF E!ApiStops, E!Connect, E!Disconnect, E!OnOpen, E!StreamBreaks
  <2>2. e_stream'.newest = 0
    BY <2>1 DEF E!NoStream
  <2> QED BY <1>3, <2>2
<1>7. ASSUME E!OnError \/ E!Reconnect PROVE NewestWaits'
  <2>1. UNCHANGED e_stream
    BY <1>7 DEF E!OnError, E!Reconnect
  <2>2. \A brw \in BrowserType : /\ E!ScheduleReconnect(brw).last = brw.last
                                 /\ E!Open(brw).last = brw.last
    BY DEF E!ScheduleReconnect, E!Open, BrowserType
  <2>3. /\ [e_browser EXCEPT !.source = "none"] \in BrowserType
        /\ [e_browser EXCEPT !.timer = FALSE] \in BrowserType
    BY <1>1, BrowserUpdates DEF BrowserOK
  <2>4. /\ [e_browser EXCEPT !.source = "none"].last = e_browser.last
        /\ [e_browser EXCEPT !.timer = FALSE].last = e_browser.last
    BY <1>1 DEF BrowserOK, BrowserType
  <2>5. e_browser'.last = e_browser.last
    BY <1>7, <2>2, <2>3, <2>4 DEF E!OnError, E!Reconnect
  <2> QED BY <1>2, <2>1, <2>5
<1>8. ASSUME NEW e \in Emitters, E!EmitReads(e) \/ E!Emit(e) \/ E!EmitFails(e)
      PROVE  UNCHANGED <<e_stream, e_browser>>
  BY <1>8 DEF E!EmitReads, E!Emit, E!EmitStores, E!EmitPublishes, E!EmitFails
<1>9. ASSUME \/ E!WorkerPublishes \/ E!ApiPublishes \/ E!OnMessageEnds \/ E!ApiStarts
             \/ UNCHANGED E!vars
      PROVE  UNCHANGED <<e_stream, e_browser>>
  BY <1>9 DEF E!WorkerPublishes, E!ApiPublishes, E!OnMessageEnds, E!ApiStarts, E!vars
<1> QED BY <1>2, <1>4, <1>5, <1>6, <1>7, <1>8, <1>9 DEF E!Next, E!Broker, E!Source

LEMMA ConnectingStep ==
  E!TypeOK /\ EventsHeld /\ PageIsConnecting /\ [E!Next]_(E!vars) => PageIsConnecting'
<1> SUFFICES ASSUME E!TypeOK, EventsHeld, PageIsConnecting, [E!Next]_(E!vars)
             PROVE  PageIsConnecting'
  OBVIOUS
<1>1. e_browser \in BrowserType
  BY EventParts DEF BrowserOK
<1>2. ASSUME E!Connect \/ E!OnOpen \/ E!Reconnect PROVE PageIsConnecting'
  <2> DEFINE d == E!Disconnected(e_browser)
             brw == [e_browser EXCEPT !.timer = FALSE]
  <2>1. d \in BrowserType
    BY <1>1, BrowserShapes, Zenon
  <2>6. brw \in BrowserType
    BY <1>1, BrowserUpdates
  <2> HIDE DEF d, brw
  <2>2. E!Open(d) \in BrowserType
    BY <2>1, BrowserShapes, Zenon
  <2>7. \A page \in BrowserType : E!Open(page).source = "opening"
    BY DEF E!Open, BrowserType
  <2>3. CASE E!Connect
    <3>1. e_browser' = [E!Open(d) EXCEPT !.stopped = FALSE]
      BY <2>3 DEF E!Connect, d
    <3>2. e_browser'.source = "opening"
      BY <2>1, <2>2, <2>7, <3>1 DEF BrowserType
    <3> QED BY <3>2 DEF PageIsConnecting
  <2>4. CASE E!OnOpen
    <3>1. e_browser'.source = "open"
      BY <1>1, <2>4 DEF E!OnOpen, BrowserType
    <3> QED BY <3>1 DEF PageIsConnecting
  <2>5. CASE E!Reconnect
    <3>1. e_browser' = E!Open(brw)
      BY <2>5 DEF E!Reconnect, brw
    <3> QED BY <2>6, <2>7, <3>1 DEF PageIsConnecting
  <2> QED BY <1>2, <2>3, <2>4, <2>5
<1>3. ASSUME E!Disconnect PROVE PageIsConnecting'
  BY <1>1, <1>3 DEF E!Disconnect, E!Disconnected, BrowserType, PageIsConnecting
<1>4. ASSUME E!OnError PROVE PageIsConnecting'
  <2> DEFINE brw == [e_browser EXCEPT !.source = "none"]
  <2>1. brw \in BrowserType /\ e_browser' = E!ScheduleReconnect(brw)
    BY <1>1, <1>4, BrowserUpdates DEF E!OnError
  <2> HIDE DEF brw
  <2>2. e_browser'.stopped \/ e_browser'.timer
    BY <2>1 DEF E!ScheduleReconnect, BrowserType
  <2> QED BY <2>2 DEF PageIsConnecting
<1>5. ASSUME E!StreamSends PROVE PageIsConnecting'
  <2>1. UNCHANGED <<e_browser.stopped, e_browser.source, e_browser.timer>>
    BY <1>1, <1>5 DEF E!StreamSends, E!HandleMessage, BrowserType
  <2> QED BY <2>1 DEF PageIsConnecting
<1>6. ASSUME UNCHANGED e_browser PROVE PageIsConnecting'
  BY <1>6 DEF PageIsConnecting
<1>7. ASSUME NEW e \in Emitters, E!EmitReads(e) \/ E!Emit(e) \/ E!EmitFails(e)
      PROVE  UNCHANGED e_browser
  BY <1>7 DEF E!EmitReads, E!Emit, E!EmitStores, E!EmitPublishes, E!EmitFails
<1>8. ASSUME \/ E!WorkerPublishes \/ E!ApiPublishes \/ E!OnMessage \/ E!OnMessageEnds
             \/ E!ApiStarts \/ E!ApiStops \/ E!StreamBreaks \/ UNCHANGED E!vars
      PROVE  UNCHANGED e_browser
  BY <1>8 DEF E!WorkerPublishes, E!ApiPublishes, E!OnMessage, E!OnMessageEnds, E!ApiStarts,
     E!ApiStops, E!StreamBreaks, E!vars
<1> QED BY <1>2, <1>3, <1>4, <1>5, <1>6, <1>7, <1>8 DEF E!Next, E!Broker, E!Source

\* A slow page loses old frames and never the newest, and a page that was not left always
\* has something under way that brings its stream back, in whatever order the API stops
\* and starts, streams break, timers fire and pages change.
THEOREM StreamsKeepTheNewest == Behaviour => [](NewestWaits /\ PageIsConnecting)
<1>1. Inits => E!Init
  BY DEF Inits
<1>2. E!Init => NewestWaits /\ PageIsConnecting
  BY DEF E!Init, E!NoStream, NewestWaits, PageIsConnecting
<1>3. [Nexts]_all => [E!Next]_(E!vars)
  BY ApiSteps
<1> QED BY <1>1, <1>2, <1>3, EventsInit, EventsStep, NewestStep, ConnectingStep, PTL
    DEF Behaviour

-----------------------------------------------------------------------------
(* Bridges and their names. *)

\* What is known by its id, a bridge that a caller claims or one that the tick is to
\* purge, is the bridge of the name it was known with, and no other has that id.
BridgesStayApart ==
  \A n \in Names : b_docs[n].id # 0 =>
    /\ \A m \in Names : b_docs[m].id = b_docs[n].id => m = n
    /\ \A c \in Callers : b_calls[c].id = b_docs[n].id => b_calls[c].name = n
    /\ \A d \in b_due : d[2] = b_docs[n].id => d[1] = n

\* Every id in use was given.
IdsGiven ==
  /\ \A n \in Names : b_docs[n].id <= b_spent.lives
  /\ \A c \in Callers : b_calls[c].id <= b_spent.lives
  /\ \A d \in b_due : d[2] <= b_spent.lives

\* Every shell has a running document, or a delete of its name is on the way.
ToDelete == {n \in Names : \E k \in 1..Len(b_queue) : b_queue[k] = [op |-> "delete", name |-> n]}
ShellsAreKnown == \A n \in b_shells : b_docs[n].status = "running" \/ n \in ToDelete

\* What a step may do to ids: forget them, copy them with their name, or give a new one
\* to one document.
IdsMove ==
  /\ b_spent'.lives \in {b_spent.lives, b_spent.lives + 1}
  /\ \A n \in Names : \/ b_docs'[n].id \in {0, b_docs[n].id}
                      \/ /\ b_spent'.lives = b_spent.lives + 1 /\ b_docs'[n].id = b_spent'.lives
                         /\ \A m \in Names : m # n => b_docs'[m].id = b_docs[m].id
  /\ \A c \in Callers : \/ b_calls'[c].id = 0
                        \/ b_calls'[c].id = b_calls[c].id /\ b_calls'[c].name = b_calls[c].name
                        \/ /\ b_calls'[c].name \in Names
                           /\ b_calls'[c].id = b_docs[b_calls'[c].name].id
  /\ \A d \in b_due' : \/ d \in b_due
                       \/ d[1] \in Names /\ d[2] = b_docs[d[1]].id

BridgesOK == DocsOK /\ PanesOK /\ CallsOK /\ QueueOK /\ DueOK /\ BridgesSpentOK

LEMMA ApartStep ==
  ASSUME BridgesOK, BridgesStayApart, IdsGiven, IdsMove
  PROVE  BridgesStayApart' /\ IdsGiven'
<1> DEFINE lives == b_spent.lives
<1>1. lives \in Nat /\ b_spent'.lives \in Nat /\ lives <= b_spent'.lives
  <2>1. lives \in Nat
    BY BridgesAssumption DEF BridgesOK, BridgesSpentOK
  <2> QED BY <2>1 DEF IdsMove
<1>2. /\ \A n \in Names : b_docs[n].id \in Nat
      /\ \A c \in Callers : b_calls[c].id \in Nat
      /\ \A d \in b_due : d[2] \in Nat
  <2>1. \A n \in Names : b_docs[n].id \in Nat
    BY DocIds, BridgesAssumption DEF BridgesOK
  <2>2. \A c \in Callers : b_calls[c].id \in Nat
    BY BridgesAssumption DEF BridgesOK, CallsOK, CallType
  <2>3. \A d \in b_due : d[2] \in Nat
    BY BridgesAssumption DEF BridgesOK, DueOK
  <2> QED BY <2>1, <2>2, <2>3
<1>3. \A c \in Callers : b_calls'[c].id = 0 \/ b_calls'[c].id <= lives
  BY <1>1, <1>2 DEF IdsMove, IdsGiven
<1>4. \A d \in b_due' : d[2] <= lives /\ d[2] \in Nat
  BY <1>1, <1>2 DEF IdsMove, IdsGiven
<1>5. IdsGiven'
  <2>1. \A n \in Names : b_docs'[n].id <= b_spent'.lives
    BY <1>1, <1>2 DEF IdsMove, IdsGiven
  <2>2. \A c \in Callers : b_calls'[c].id <= b_spent'.lives
    BY <1>1, <1>2, <1>3 DEF IdsMove
  <2>3. \A d \in b_due' : d[2] <= b_spent'.lives
    BY <1>1, <1>4
  <2> QED BY <2>1, <2>2, <2>3 DEF IdsGiven
<1>6. ASSUME NEW n \in Names, b_docs'[n].id # 0,
             b_docs'[n].id = lives + 1, b_spent'.lives = lives + 1,
             \A m \in Names : m # n => b_docs'[m].id = b_docs[m].id
      PROVE  /\ \A m \in Names : b_docs'[m].id = b_docs'[n].id => m = n
             /\ \A c \in Callers : b_calls'[c].id = b_docs'[n].id => b_calls'[c].name = n
             /\ \A d \in b_due' : d[2] = b_docs'[n].id => d[1] = n
  <2>1. \A m \in Names : b_docs'[m].id = b_docs'[n].id => m = n
    BY <1>1, <1>2, <1>6 DEF IdsGiven
  <2>2. \A c \in Callers : b_calls'[c].id # b_docs'[n].id
    BY <1>1, <1>2, <1>3, <1>6 DEF IdsMove
  <2>3. \A d \in b_due' : d[2] # b_docs'[n].id
    BY <1>1, <1>4, <1>6
  <2> QED BY <2>1, <2>2, <2>3
<1>7. ASSUME NEW n \in Names, b_docs'[n].id # 0, b_docs'[n].id = b_docs[n].id
      PROVE  /\ \A m \in Names : b_docs'[m].id = b_docs'[n].id => m = n
             /\ \A c \in Callers : b_calls'[c].id = b_docs'[n].id => b_calls'[c].name = n
             /\ \A d \in b_due' : d[2] = b_docs'[n].id => d[1] = n
  <2>1. ASSUME NEW m \in Names, b_docs'[m].id = b_docs'[n].id PROVE m = n
    <3>1. b_docs'[m].id # lives + 1
      BY <1>1, <1>2, <1>7, <2>1 DEF IdsGiven
    <3>2. b_docs[m].id = b_docs[n].id
      BY <1>7, <2>1, <3>1 DEF IdsMove
    <3> QED BY <1>7, <3>2 DEF BridgesStayApart
  <2>2. ASSUME NEW c \in Callers, b_calls'[c].id = b_docs'[n].id PROVE b_calls'[c].name = n
    BY <1>7, <2>2 DEF IdsMove, BridgesStayApart
  <2>3. ASSUME NEW d \in b_due', d[2] = b_docs'[n].id PROVE d[1] = n
    BY <1>7, <2>3 DEF IdsMove, BridgesStayApart
  <2> QED BY <2>1, <2>2, <2>3
<1>8. ASSUME NEW n \in Names, b_docs'[n].id # 0
      PROVE  /\ \A m \in Names : b_docs'[m].id = b_docs'[n].id => m = n
             /\ \A c \in Callers : b_calls'[c].id = b_docs'[n].id => b_calls'[c].name = n
             /\ \A d \in b_due' : d[2] = b_docs'[n].id => d[1] = n
  <2>1. CASE b_docs'[n].id = b_docs[n].id
    BY <1>7, <1>8, <2>1
  <2>2. CASE b_docs'[n].id # b_docs[n].id
    <3>1. /\ b_spent'.lives = lives + 1 /\ b_docs'[n].id = lives + 1
          /\ \A m \in Names : m # n => b_docs'[m].id = b_docs[m].id
      BY <1>8, <2>2 DEF IdsMove
    <3> QED BY <1>6, <1>8, <3>1
  <2> QED BY <2>1, <2>2
<1> QED BY <1>5, <1>8 DEF BridgesStayApart

LEMMA DeletesAhead ==
  ASSUME QueueOK
  PROVE  /\ \A op, n : B!Publish(op, n) => ToDelete \subseteq ToDelete'
         /\ \A n \in Names : B!Publish("delete", n) => n \in ToDelete'
         /\ b_queue # <<>> /\ b_queue' = Tail(b_queue) =>
              \A n \in ToDelete : n \in ToDelete' \/ Head(b_queue) = [op |-> "delete", name |-> n]
<1> DEFINE Deletes(n) == [op |-> "delete", name |-> n]
<1> HIDE DEF Deletes
<1>1. Len(b_queue) \in Nat /\ b_queue \in Seq([op : {"create", "delete"}, name : Names])
  BY DEF QueueOK
<1>2. ASSUME NEW cmd, b_queue' = Append(b_queue, cmd)
      PROVE  /\ Len(b_queue') = Len(b_queue) + 1 /\ b_queue'[Len(b_queue')] = cmd
             /\ \A k \in 1..Len(b_queue) : b_queue'[k] = b_queue[k]
  BY <1>1, <1>2
<1>3. ASSUME NEW op, NEW n, B!Publish(op, n) PROVE ToDelete \subseteq ToDelete'
  <2>1. /\ Len(b_queue') = Len(b_queue) + 1
        /\ \A k \in 1..Len(b_queue) : b_queue'[k] = b_queue[k]
    BY <1>2, <1>3 DEF B!Publish
  <2>2. \A k \in 1..Len(b_queue) : k \in 1..Len(b_queue')
    BY <1>1, <2>1
  <2> QED BY <2>1, <2>2 DEF ToDelete
<1>4. ASSUME NEW n \in Names, B!Publish("delete", n) PROVE n \in ToDelete'
  <2>1. Len(b_queue') = Len(b_queue) + 1 /\ b_queue'[Len(b_queue')] = Deletes(n)
    BY <1>2, <1>4 DEF B!Publish, Deletes
  <2>2. Len(b_queue') \in 1..Len(b_queue')
    BY <1>1, <2>1
  <2> QED BY <2>1, <2>2 DEF ToDelete, Deletes
<1>5. ASSUME b_queue # <<>>, b_queue' = Tail(b_queue), NEW n \in ToDelete, Head(b_queue) # Deletes(n)
      PROVE  n \in ToDelete'
  <2>1. PICK k \in 1..Len(b_queue) : b_queue[k] = Deletes(n)
    BY DEF ToDelete, Deletes
  <2>2. k # 1
    BY <1>1, <1>5, <2>1
  <2>3. k - 1 \in 1..Len(b_queue') /\ b_queue'[k - 1] = b_queue[k]
    BY <1>1, <1>5, <2>2
  <2> QED BY <2>1, <2>3 DEF ToDelete, Deletes
<1>6. \A op, n : B!Publish(op, n) => ToDelete \subseteq ToDelete'
  BY <1>3
<1>7. \A n \in Names : B!Publish("delete", n) => n \in ToDelete'
  BY <1>4
<1>8. b_queue # <<>> /\ b_queue' = Tail(b_queue) =>
        \A n \in ToDelete : n \in ToDelete' \/ Head(b_queue) = Deletes(n)
  BY <1>5
<1> QED BY <1>6, <1>7, <1>8 DEF Deletes

Kept == IdsMove /\ ShellsAreKnown'

\* A caller moves on with no bridge, with one that runs, or with its own.
LEMMA MovesOn ==
  ASSUME CallsOK, NEW c \in Callers, NEW at, NEW n \in Names, NEW id,
         id = 0 \/ id = b_docs[n].id \/ (id = b_calls[c].id /\ n = b_calls[c].name),
         B!Move(c, at, n, id)
  PROVE  \A e \in Callers : \/ b_calls'[e].id = 0
                            \/ b_calls'[e].id = b_calls[e].id /\ b_calls'[e].name = b_calls[e].name
                            \/ /\ b_calls'[e].name \in Names
                               /\ b_calls'[e].id = b_docs[b_calls'[e].name].id
<1>1. \A e \in Callers : e # c => b_calls'[e] = b_calls[e]
  BY DEF B!Move, CallsOK
<1>2. b_calls'[c] = [at |-> at, name |-> n, id |-> id]
  BY DEF B!Move, CallsOK
<1>3. b_calls'[c].name = n /\ b_calls'[c].id = id
  BY <1>2
<1> QED BY <1>1, <1>3

LEMMA CallersKeep ==
  ASSUME BridgesOK, BridgesStayApart, ShellsAreKnown, NEW c \in Callers,
         B!Caller(c) \/ B!CallerLists(c) \/ B!CallerBeats(c) \/ B!CallerDies(c)
  PROVE  Kept
<1>1. /\ CallsOK /\ DocsOK /\ QueueOK /\ BridgesSpentOK
      /\ b_calls[c] \in CallType /\ b_calls[c].name \in Names
      /\ B!Running \subseteq Names
  BY DEF BridgesOK, CallsOK, CallType, B!Running
<1>2. UNCHANGED <<b_shells, b_due>> /\ b_spent'.lives = b_spent.lives
  BY <1>1 DEF B!Caller, B!CallerLists, B!CallerCreates, B!CallerWaits, B!CallerClaims, B!CallerEnds,
     B!CallerBeats, B!CallerDies, BridgesSpentOK
<1>3. \A n \in Names : b_docs'[n].id = b_docs[n].id /\ b_docs'[n].status = b_docs[n].status
  <2>1. CASE B!CallerCreates(c)
    BY <1>1, <2>1 DEF B!CallerCreates, DocsOK, DocType
  <2>2. CASE b_docs' = B!Claimed(c)
    <3> DEFINE claimed(n) == [b_docs[n] EXCEPT !.owner = c, !.idle = FALSE]
    <3>1. b_docs' = [n \in Names |-> IF b_docs[n].status # "none" /\ b_docs[n].id = b_calls[c].id
                                    THEN claimed(n) ELSE b_docs[n]]
      BY <2>2, Zenon DEF B!Claimed
    <3>2. ASSUME NEW n \in Names
          PROVE  claimed(n).id = b_docs[n].id /\ claimed(n).status = b_docs[n].status
      <4>1. b_docs[n] \in DocType
        BY <1>1, DocIds DEF Sound
      <4> QED BY <4>1 DEF DocType
    <3> HIDE DEF claimed
    <3> QED BY <3>1, <3>2
  <2>3. CASE UNCHANGED b_docs
    BY <2>3
  <2> QED BY <2>1, <2>2, <2>3 DEF B!Caller, B!CallerLists, B!CallerWaits, B!CallerClaims,
          B!CallerEnds, B!CallerBeats, B!CallerDies
<1>4. ToDelete \subseteq ToDelete'
  <2>1. UNCHANGED b_queue => ToDelete' = ToDelete
    BY DEF ToDelete
  <2>2. UNCHANGED b_queue \/ \E n : B!Publish("create", n)
    BY DEF B!Caller, B!CallerLists, B!CallerCreates, B!CallerWaits, B!CallerClaims, B!CallerEnds,
       B!CallerBeats, B!CallerDies
  <2> QED BY <1>1, <2>1, <2>2, DeletesAhead
<1>5. \A e \in Callers : \/ b_calls'[e].id = 0
                         \/ b_calls'[e].id = b_calls[e].id /\ b_calls'[e].name = b_calls[e].name
                         \/ /\ b_calls'[e].name \in Names
                            /\ b_calls'[e].id = b_docs[b_calls'[e].name].id
  <2>1. CASE B!CallerDies(c)
    <3>1. \A e \in Callers : e # c => b_calls'[e] = b_calls[e]
      BY <1>1, <2>1 DEF B!CallerDies, CallsOK
    <3>2. b_calls'[c].id = 0
      BY <1>1, <2>1 DEF B!CallerDies, B!Quiet, CallsOK
    <3> QED BY <3>1, <3>2
  <2>2. CASE UNCHANGED b_calls
    BY <2>2
  <2>3. CASE \E at, n, id : /\ n \in Names /\ B!Move(c, at, n, id)
                            /\ \/ id = 0 \/ id = b_docs[n].id
                               \/ id = b_calls[c].id /\ n = b_calls[c].name
    BY <1>1, <2>3, MovesOn
  <2>4. CASE B!CallerLists(c) \/ B!CallerCreates(c) \/ B!CallerWaits(c) \/ B!CallerClaims(c)
             \/ B!CallerEnds(c)
    <3>1. \E at, n, id : /\ n \in Names /\ B!Move(c, at, n, id)
                         /\ \/ id = 0 \/ id = b_docs[n].id
                            \/ id = b_calls[c].id /\ n = b_calls[c].name
      BY <1>1, <2>4 DEF B!CallerLists, B!CallerCreates, B!CallerWaits, B!CallerClaims, B!CallerEnds
    <3> QED BY <2>3, <3>1
  <2> QED BY <2>1, <2>2, <2>4 DEF B!Caller, B!CallerBeats
<1>6. IdsMove
  BY <1>2, <1>3, <1>5 DEF IdsMove
<1>7. ShellsAreKnown'
  BY <1>2, <1>3, <1>4 DEF ShellsAreKnown, BridgesOK, PanesOK
<1> QED BY <1>6, <1>7 DEF Kept

\* What the tick lists is there, and what it purges by its id it deletes by its name: the
\* same bridge's.
LEMMA TickKeeps ==
  ASSUME BridgesOK, BridgesStayApart, ShellsAreKnown, B!Tick
  PROVE  Kept
<1>1. DocsOK /\ QueueOK /\ DueOK /\ PanesOK
  BY DEF BridgesOK
<1>2. UNCHANGED <<b_shells, b_calls, b_spent>>
  BY DEF B!Tick, B!TickReads, B!TickPurges
<1>3. CASE B!TickReads
  <2>1. \E ns : ns \subseteq Names /\ B!ListDue(ns)
    <3>1. B!Idle \subseteq Names /\ B!Ownerless \subseteq Names /\ B!Running \subseteq Names
      BY DEF B!Idle, B!Ownerless, B!Running
    <3> QED BY <1>3, <3>1 DEF B!TickReads, B!DuplicatesOf
  <2>2. \A d \in b_due' : d[1] \in Names /\ d[2] = b_docs[d[1]].id
    BY <2>1 DEF B!ListDue
  <2>3. UNCHANGED <<b_docs, b_queue>>
    BY <1>3 DEF B!TickReads
  <2>4. IdsMove
    BY <1>2, <2>2, <2>3 DEF IdsMove
  <2>5. ShellsAreKnown'
    BY <1>2, <2>3 DEF ShellsAreKnown, ToDelete
  <2> QED BY <2>4, <2>5 DEF Kept
<1>4. CASE B!TickPurges
  <2>1. PICK d \in b_due :
          /\ b_due' = b_due \ {d} /\ B!Publish("delete", d[1])
          /\ b_docs' = [n \in Names |-> IF b_docs[n].id = d[2] THEN B!NoDoc ELSE b_docs[n]]
    BY <1>4, Zenon DEF B!TickPurges
  <2>2. d[1] \in Names /\ d[2] # 0
    BY <1>1, <2>1, BridgesAssumption DEF DueOK
  <2>3. d[1] \in ToDelete' /\ ToDelete \subseteq ToDelete'
    BY <1>1, <2>1, <2>2, DeletesAhead
  <2>4. \A n \in Names : b_docs'[n].id \in {0, b_docs[n].id}
    BY <2>1 DEF B!NoDoc
  <2>5. IdsMove
    BY <1>2, <2>1, <2>4 DEF IdsMove
  <2>6. ASSUME NEW n \in b_shells PROVE b_docs'[n].status = "running" \/ n \in ToDelete'
    <3>1. n \in Names
      BY <1>1 DEF PanesOK
    <3>2. CASE b_docs[n].id = d[2]
      BY <2>1, <2>2, <2>3, <3>1, <3>2 DEF BridgesStayApart
    <3>3. CASE b_docs[n].id # d[2]
      BY <2>1, <2>3, <3>1, <3>3 DEF ShellsAreKnown
    <3> QED BY <3>2, <3>3
  <2>7. ShellsAreKnown'
    BY <1>2, <2>6 DEF ShellsAreKnown
  <2> QED BY <2>5, <2>7 DEF Kept
<1> QED BY <1>3, <1>4 DEF B!Tick

LEMMA WorkerKeeps ==
  ASSUME BridgesOK, BridgesStayApart, ShellsAreKnown, B!Worker
  PROVE  Kept
<1> DEFINE n == Head(b_queue).name
<1>1. DocsOK /\ QueueOK /\ PanesOK /\ BridgesSpentOK
  BY DEF BridgesOK
<1>2. b_queue # <<>> /\ b_queue' = Tail(b_queue) /\ UNCHANGED <<b_alive, b_calls, b_due>>
  BY DEF B!Worker, B!WorkerCreates, B!WorkerDeletes
<1>3. \A m \in ToDelete : m \in ToDelete' \/ Head(b_queue) = [op |-> "delete", name |-> m]
  BY <1>1, <1>2, DeletesAhead
<1>4. \A m \in b_shells : m \in Names /\ (b_docs[m].status = "running" \/ m \in ToDelete)
  BY <1>1 DEF PanesOK, ShellsAreKnown
<1>5. CASE B!WorkerCreates
  <2>1. ToDelete \subseteq ToDelete'
    BY <1>3, <1>5 DEF B!WorkerCreates
  <2>2. CASE UNCHANGED <<b_docs, b_shells, b_spent>>
    <3>1. IdsMove
      BY <1>2, <2>2 DEF IdsMove
    <3> QED BY <1>4, <2>1, <2>2, <3>1 DEF Kept, ShellsAreKnown
  <2>3. CASE ~UNCHANGED <<b_docs, b_shells, b_spent>>
    <3> DEFINE new == b_docs[n].status = "none"
               id == IF new THEN b_spent.lives + 1 ELSE b_docs[n].id
               doc == [status |-> "running", owner |-> Nobody, idle |-> FALSE, id |-> id]
    <3>1. /\ b_spent' = [b_spent EXCEPT !.lives = IF new THEN b_spent.lives + 1 ELSE b_spent.lives]
          /\ b_shells' = b_shells \cup {n} /\ b_docs' = [b_docs EXCEPT ![n] = doc]
      BY <1>1, <1>5, <2>3 DEF B!WorkerCreates, DocsOK
    <3>2. doc.id = id /\ doc.status = "running"
      OBVIOUS
    <3>3. b_spent'.lives = IF new THEN b_spent.lives + 1 ELSE b_spent.lives
      BY <1>1, <3>1 DEF BridgesSpentOK
    <3> HIDE DEF doc
    <3>4. \A m \in Names : b_docs'[m] = IF m = n THEN doc ELSE b_docs[m]
      BY <1>1, <3>1 DEF DocsOK
    <3>5. IdsMove
      BY <1>2, <3>2, <3>3, <3>4 DEF IdsMove
    <3>6. n \in Names
      <4> DEFINE Published == [op : {"create", "delete"}, name : Names]
      <4>1. \A cmd \in Published : cmd.name \in Names
        OBVIOUS
      <4>2. b_queue \in Seq(Published)
        BY <1>1 DEF QueueOK
      <4> HIDE DEF Published
      <4>3. Head(b_queue) \in Published
        BY <1>2, <4>2
      <4> QED BY <4>1, <4>3
    <3>7. ShellsAreKnown'
      BY <1>4, <2>1, <3>1, <3>2, <3>4, <3>6 DEF ShellsAreKnown
    <3> QED BY <3>5, <3>7 DEF Kept
  <2> QED BY <2>2, <2>3
<1>6. CASE B!WorkerDeletes
  <2>1. /\ b_shells' = b_shells \ {n} /\ b_docs' = [b_docs EXCEPT ![n] = B!NoDoc]
        /\ UNCHANGED b_spent
    BY <1>6 DEF B!WorkerDeletes
  <2>2. \A m \in Names : b_docs'[m] = IF m = n THEN B!NoDoc ELSE b_docs[m]
    BY <1>1, <2>1 DEF DocsOK
  <2>3. IdsMove
    BY <1>2, <2>1, <2>2 DEF IdsMove, B!NoDoc
  <2>4. \A m \in ToDelete : m # n => m \in ToDelete'
    BY <1>3
  <2>5. ShellsAreKnown'
    BY <1>4, <2>1, <2>2, <2>4 DEF ShellsAreKnown
  <2> QED BY <2>3, <2>5 DEF Kept
<1> QED BY <1>5, <1>6 DEF B!Worker

LEMMA FateKeeps ==
  ASSUME BridgesOK, BridgesStayApart, ShellsAreKnown, NEW n \in Names,
         B!TtlPasses(n) \/ B!ShellExits(n) \/ B!DiscoveryStops(n)
  PROVE  Kept
<1>1. DocsOK /\ PanesOK /\ BridgesSpentOK /\ b_docs[n] \in DocType
  BY DocIds DEF BridgesOK, Sound
<1>2. /\ UNCHANGED <<b_calls, b_queue, b_due>> /\ b_shells' \subseteq b_shells
      /\ b_spent'.lives = b_spent.lives
  BY <1>1 DEF B!TtlPasses, B!ShellExits, B!DiscoveryStops, BridgesSpentOK
<1>3. ToDelete' = ToDelete
  BY <1>2 DEF ToDelete
<1>4. /\ \A m \in Names : m # n => b_docs'[m] = b_docs[m]
      /\ b_docs'[n].id = b_docs[n].id
      /\ b_docs'[n].status = b_docs[n].status \/ n \notin b_shells
  <2>1. CASE B!TtlPasses(n)
    BY <1>1, <2>1 DEF B!TtlPasses, DocsOK, DocType
  <2>2. CASE B!ShellExits(n)
    BY <2>2 DEF B!ShellExits
  <2>3. CASE B!DiscoveryStops(n)
    BY <1>1, <2>3 DEF B!DiscoveryStops, DocsOK, DocType
  <2> QED BY <2>1, <2>2, <2>3
<1>5. IdsMove
  BY <1>2, <1>4 DEF IdsMove
<1>6. ShellsAreKnown'
  BY <1>1, <1>2, <1>3, <1>4 DEF ShellsAreKnown, PanesOK
<1> QED BY <1>5, <1>6 DEF Kept

LEMMA BridgesKept ==
  B!TypeOK /\ BridgesHeld /\ BridgesStayApart /\ IdsGiven /\ ShellsAreKnown /\ [B!Next]_(B!vars)
  => BridgesStayApart' /\ IdsGiven' /\ ShellsAreKnown'
<1> SUFFICES ASSUME B!TypeOK, BridgesHeld, BridgesStayApart, IdsGiven, ShellsAreKnown,
                    [B!Next]_(B!vars)
             PROVE  BridgesStayApart' /\ IdsGiven' /\ ShellsAreKnown'
  OBVIOUS
<1>1. BridgesOK
  BY BridgeParts DEF BridgesOK
<1>2. CASE UNCHANGED B!vars
  BY <1>2 DEF B!vars, BridgesStayApart, IdsGiven, ShellsAreKnown, ToDelete
<1>3. CASE B!Next
  <2>1. Kept
    BY <1>1, <1>3, CallersKeep, TickKeeps, WorkerKeeps, FateKeeps DEF B!Next
  <2> QED BY <1>1, <2>1, ApartStep DEF Kept
<1> QED BY <1>2, <1>3

\* However names are reused, and callers, the tick and the worker overtake each other: a
\* claim, a heartbeat and a purge by an id reach the bridge that was chosen and no
\* other, and no shell is left without a document unless its delete is on the way.
THEOREM BridgesAreKnown == Behaviour => [](BridgesStayApart /\ ShellsAreKnown)
<1>1. Inits => B!Init
  BY DEF Inits
<1>2. B!Init => BridgesStayApart /\ IdsGiven /\ ShellsAreKnown
  <2> SUFFICES ASSUME B!Init PROVE BridgesStayApart /\ IdsGiven /\ ShellsAreKnown
    OBVIOUS
  <2>1. /\ \A n \in Names : b_docs[n].id = 0
        /\ \A c \in Callers : b_calls[c].id = 0
        /\ b_spent.lives = 0 /\ b_due = {} /\ b_shells = {}
    BY DEF B!Init, B!NoDoc, B!Quiet
  <2> QED BY <2>1 DEF BridgesStayApart, IdsGiven, ShellsAreKnown
<1>3. [Nexts]_all => [B!Next]_(B!vars)
  BY ApiSteps
<1> QED BY <1>1, <1>2, <1>3, BridgesInit, BridgesStep, BridgesKept, PTL DEF Behaviour
==============================================================================
