----------------------------- MODULE GpuServices -----------------------------
(***************************************************************************)
(* A service of the host's GPU: turned on by a command or by a synthesis   *)
(* that needs it, turned off by a command or by the watchdog of idleness.  *)
(*                                                                         *)
(* A service is several systemd units, turned on in order and off in the   *)
(* reverse order, and is active when its first unit is.  Commands and      *)
(* syntheses run systemctl in a thread of the executor; the watchdog runs  *)
(* it in the event loop, so that nothing else begins meanwhile, but what   *)
(* a thread began goes on.  _LAST_USED is memory of the worker.            *)
(***************************************************************************)
EXTENDS Naturals

CONSTANTS
  MaxJobs,    \* commands and syntheses
  MaxFaults   \* systemctl that fails, health that does not come, units that die

VARIABLES
  on,     \* which of the two units are on
  used,   \* _LAST_USED: none, fresh, or idle for longer than the limit
  conns,  \* whether a connection to the port is established
  job,    \* what the thread does, the unit it is at, whether one failed
  watch,  \* the same of the watchdog
  spent

vars == <<on, used, conns, job, watch, spent>>

Units == {1, 2}
Resting == [does |-> "nothing", unit |-> 1, failed |-> FALSE]
Work == [does : {"nothing", "start", "ensure", "stop"}, unit : 0..3, failed : BOOLEAN]

TypeOK ==
  /\ on \in [Units -> BOOLEAN]
  /\ used \in {"none", "fresh", "idle"}
  /\ conns \in BOOLEAN
  /\ job \in Work /\ watch \in Work
  /\ spent \in [jobs : 0..MaxJobs, faults : 0..MaxFaults]

Init ==
  /\ on \in [Units -> BOOLEAN]
  /\ used = "none"
  /\ conns = FALSE
  /\ job = Resting /\ watch = Resting
  /\ spent = [jobs |-> 0, faults |-> 0]

IsActive == on[1]
Fails == spent.faults < MaxFaults /\ spent' = [spent EXCEPT !.faults = @ + 1]

(***************************************************************************)
(* The thread.                                                             *)
(***************************************************************************)
NextJob ==
  /\ job = Resting /\ watch = Resting
  /\ spent.jobs < MaxJobs
  /\ spent' = [spent EXCEPT !.jobs = @ + 1]

HandleStart ==
  /\ NextJob
  /\ job' = [Resting EXCEPT !.does = "start"]
  /\ UNCHANGED <<on, used, conns, watch>>

HandleStop ==
  /\ NextJob
  /\ job' = [Resting EXCEPT !.does = "stop", !.unit = 2]
  /\ UNCHANGED <<on, used, conns, watch>>

\* A service that is active, as far as its first unit tells, is only marked.
EnsureStarted ==
  /\ NextJob
  /\ IF IsActive THEN used' = "fresh" /\ UNCHANGED job
     ELSE job' = [Resting EXCEPT !.does = "ensure"] /\ UNCHANGED used
  /\ UNCHANGED <<on, conns, watch>>

\* start_service: the first unit that fails ends it, and the former stay on.
StartUnit ==
  /\ job.does \in {"start", "ensure"} /\ job.unit \in Units
  /\ \/ /\ on' = [on EXCEPT ![job.unit] = TRUE]
        /\ job' = [job EXCEPT !.unit = @ + 1]
        /\ UNCHANGED spent
     \/ Fails /\ job' = Resting /\ UNCHANGED on
  /\ UNCHANGED <<used, conns, watch>>

\* A start is marked at once; a synthesis marks when the service is healthy, a
\* minute later at most, or not at all.
Ready ==
  /\ job.does \in {"start", "ensure"} /\ job.unit = 3
  /\ job' = Resting
  /\ \/ used' = "fresh" /\ UNCHANGED spent
     \/ job.does = "ensure" /\ Fails /\ UNCHANGED used
  /\ UNCHANGED <<on, conns, watch>>

(***************************************************************************)
(* stop_service: every unit is tried; the use is forgotten if none failed. *)
(***************************************************************************)
StopUnit(work) ==
  /\ work.does = "stop" /\ work.unit \in Units
  /\ \/ /\ on' = [on EXCEPT ![work.unit] = FALSE]
        /\ conns' = (conns /\ work.unit # 1)
        /\ UNCHANGED spent
     \/ Fails /\ UNCHANGED <<on, conns>>

AfterUnit(work) ==
  [work EXCEPT !.unit = @ - 1,
               !.failed = @ \/ (on'[work.unit] /\ spent' # spent)]

Stopped(work) == work.does = "stop" /\ work.unit = 0
Forget(work) == used' = IF work.failed THEN used ELSE "none"

JobStops ==
  \/ StopUnit(job) /\ job' = AfterUnit(job) /\ UNCHANGED <<used, watch>>
  \/ Stopped(job) /\ Forget(job) /\ job' = Resting /\ UNCHANGED <<on, conns, watch, spent>>

WatchdogStops ==
  \/ StopUnit(watch) /\ watch' = AfterUnit(watch) /\ UNCHANGED <<used, job>>
  \/ Stopped(watch) /\ Forget(watch) /\ watch' = Resting /\ UNCHANGED <<on, conns, job, spent>>

(***************************************************************************)
(* gpu_idle_watchdog_once                                                  *)
(***************************************************************************)
\* decide_auto_stop; a service that was never used is given the whole limit.
WatchdogLooks_Marks ==
  /\ watch = Resting /\ IsActive
  /\ used' = "fresh"
  /\ UNCHANGED <<on, conns, job, watch, spent>>

WatchdogLooks ==
  /\ watch = Resting /\ IsActive
  /\ IF conns \/ used = "none" THEN used' = "fresh" /\ UNCHANGED watch
     ELSE /\ used = "idle"
          /\ watch' = [Resting EXCEPT !.does = "stop", !.unit = 2]
          /\ UNCHANGED used
  /\ UNCHANGED <<on, conns, job, spent>>

(***************************************************************************)
(* Time, clients and systemd.                                              *)
(***************************************************************************)
LimitPasses ==
  /\ used = "fresh" /\ ~conns
  /\ used' = "idle"
  /\ UNCHANGED <<on, conns, job, watch, spent>>

ClientConnects ==
  /\ on[1] /\ ~conns
  /\ conns' = TRUE
  /\ UNCHANGED <<on, used, job, watch, spent>>

ClientLeaves ==
  /\ conns
  /\ conns' = FALSE
  /\ UNCHANGED <<on, used, job, watch, spent>>

UnitDies ==
  /\ Fails
  /\ \E u \in Units : on[u] /\ on' = [on EXCEPT ![u] = FALSE] /\ conns' = (conns /\ u # 1)
  /\ UNCHANGED <<used, job, watch>>

Thread == StartUnit \/ Ready \/ JobStops
Watchdog == WatchdogLooks \/ WatchdogStops
Next == \/ HandleStart \/ HandleStop \/ EnsureStarted \/ Thread \/ Watchdog
        \/ LimitPasses \/ ClientConnects \/ ClientLeaves \/ UnitDies
Spec == Init /\ [][Next]_vars
Fairness == WF_vars(Thread) /\ WF_vars(Watchdog) /\ WF_vars(LimitPasses)
FairSpec == Spec /\ Fairness

\* A service that nobody is connected to is turned off in the end, however it
\* came to be on and whatever failed on the way.
IdleIsStopped == []<>(~on[1] \/ conns)
=============================================================================
