----------------------------- MODULE Supervision -----------------------------
(***************************************************************************)
(* The life of a worker process: run, _build_and_run and its watchdog.     *)
(*                                                                         *)
(* The worker connects, runs its loops as tasks and, when any of them      *)
(* ends, takes all down and builds all again, after a pause that doubles.  *)
(* A consumer can stop receiving without raising: the watchdog asks the    *)
(* broker how many consumers the host's queue has.  A signal, or the       *)
(* command shutdown, sets an event that each of these waits looks at.      *)
(***************************************************************************)
EXTENDS Naturals

CONSTANTS
  Grace,       \* _WATCHDOG_GRACE
  MaxBackoff,  \* doublings of the pause
  MaxOutages,  \* times that Mongo or Rabbit go down
  MaxStalls,   \* times that the consumer hangs
  MaxErrors    \* errors of tmux, and questions that the broker does not answer

VARIABLES
  phase,     \* build, up, backoff or ended
  consumer,  \* whether the queue has its consumer
  misses,    \* zero counts in a row
  backoff,
  infra,     \* whether Mongo and Rabbit answer
  stop,      \* the event
  spent

vars == <<phase, consumer, misses, backoff, infra, stop, spent>>

TypeOK ==
  /\ phase \in {"build", "up", "backoff", "ended"}
  /\ consumer \in {"none", "ok", "stalled"}
  /\ misses \in 0..(Grace - 1) /\ backoff \in 0..MaxBackoff
  /\ infra \in BOOLEAN /\ stop \in BOOLEAN
  /\ spent \in [outages : 0..MaxOutages, stalls : 0..MaxStalls, errors : 0..MaxErrors]

Init ==
  /\ phase = "build" /\ consumer = "none"
  /\ misses = 0 /\ backoff = 0
  /\ infra = TRUE /\ stop = FALSE
  /\ spent = [outages |-> 0, stalls |-> 0, errors |-> 0]

\* The tasks are cancelled and the connections closed.
TakenDown(next) == /\ phase' = next
                   /\ consumer' = "none"
                   /\ misses' = 0

\* Connections, indexes, components and tasks, or the first of them that raises.
Build ==
  /\ phase = "build"
  /\ IF infra THEN /\ phase' = "up" /\ consumer' = "ok" /\ misses' = 0
              ELSE TakenDown("backoff")
  /\ UNCHANGED <<backoff, infra, stop, spent>>

\* A task raises because Mongo or Rabbit is gone.
InfraFails ==
  /\ phase = "up" /\ ~infra
  /\ TakenDown("backoff")
  /\ UNCHANGED <<backoff, infra, stop, spent>>

\* A task ends with an error of tmux: all is built again, with no pause.
TmuxFails ==
  /\ phase = "up"
  /\ spent.errors < MaxErrors
  /\ spent' = [spent EXCEPT !.errors = @ + 1]
  /\ TakenDown("build")
  /\ backoff' = 0
  /\ UNCHANGED <<infra, stop>>

\* run: the pause before building again ends early when the event is set.
Pause ==
  /\ phase = "backoff"
  /\ IF stop THEN phase' = "ended" /\ UNCHANGED backoff
     ELSE /\ phase' = "build"
          /\ backoff' = IF backoff < MaxBackoff THEN backoff + 1 ELSE backoff
  /\ UNCHANGED <<consumer, misses, infra, stop, spent>>

Stopper ==
  /\ phase = "up" /\ stop
  /\ TakenDown("ended")
  /\ UNCHANGED <<backoff, infra, stop, spent>>

SetStop ==
  /\ ~stop
  /\ stop' = TRUE
  /\ UNCHANGED <<phase, consumer, misses, backoff, infra, spent>>

(***************************************************************************)
(* consumer_watchdog: what the management interface says.                  *)
(***************************************************************************)
WatchdogCounts_Once ==
  /\ phase = "up" /\ infra
  /\ misses' = IF consumer = "stalled" THEN 1 ELSE 0
  /\ UNCHANGED <<phase, consumer, backoff, infra, stop, spent>>

WatchdogCounts ==
  /\ phase = "up" /\ infra
  /\ IF consumer = "ok" THEN misses' = 0 /\ UNCHANGED <<phase, consumer>>
     ELSE IF misses + 1 < Grace THEN misses' = misses + 1 /\ UNCHANGED <<phase, consumer>>
     ELSE TakenDown("backoff")                    \* ConsumerStalled
  /\ UNCHANGED <<backoff, infra, stop, spent>>

\* None: nothing can be said, and what was counted stays.
WatchdogUnanswered ==
  /\ phase = "up"
  /\ spent.errors < MaxErrors
  /\ spent' = [spent EXCEPT !.errors = @ + 1]
  /\ UNCHANGED <<phase, consumer, misses, backoff, infra, stop>>

(***************************************************************************)
(* The broker and the database.                                            *)
(***************************************************************************)
ConsumerHangs ==
  /\ consumer = "ok"
  /\ spent.stalls < MaxStalls
  /\ spent' = [spent EXCEPT !.stalls = @ + 1]
  /\ consumer' = "stalled"
  /\ UNCHANGED <<phase, misses, backoff, infra, stop>>

ConsumerReturns ==
  /\ consumer = "stalled"
  /\ consumer' = "ok"
  /\ UNCHANGED <<phase, misses, backoff, infra, stop, spent>>

Outage ==
  /\ infra
  /\ spent.outages < MaxOutages
  /\ spent' = [spent EXCEPT !.outages = @ + 1]
  /\ infra' = FALSE
  /\ UNCHANGED <<phase, consumer, misses, backoff, stop>>

Restored ==
  /\ ~infra
  /\ infra' = TRUE
  /\ UNCHANGED <<phase, consumer, misses, backoff, stop, spent>>

Worker == Build \/ InfraFails \/ Pause \/ Stopper
Next == \/ Worker \/ TmuxFails \/ SetStop \/ WatchdogCounts \/ WatchdogUnanswered
        \/ ConsumerHangs \/ ConsumerReturns \/ Outage \/ Restored
Spec == Init /\ [][Next]_vars
\* The process goes on, and outages end; a consumer need not come back.
Fairness == WF_vars(Worker) /\ WF_vars(WatchdogCounts) /\ WF_vars(Restored)
FairSpec == Spec /\ Fairness

\* After any outage, hang or error the worker receives again, unless it was told
\* to stop, and then it ends.
Receives == stop \/ consumer = "ok"
WorkerComesBack == []<>Receives /\ []<>(stop => phase = "ended")
=============================================================================
