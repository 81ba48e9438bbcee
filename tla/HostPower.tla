------------------------------ MODULE HostPower ------------------------------
(***************************************************************************)
(* Turning a host on and off from the application.                         *)
(*                                                                         *)
(* The card of a host is read from its document, which the heartbeat of    *)
(* its worker writes.  On a notebook (Colab, Kaggle) the worker runs in a  *)
(* loop that relaunches it; "Desligar" marks the document and publishes a  *)
(* shutdown in the durable queue of the host, and the worker that consumes *)
(* it leaves a sentinel that ends the loop.  Any other host is a service,  *)
(* which the button does not stop.                                         *)
(*                                                                         *)
(* One host, and of its queue the shutdowns alone.  The sentinel is always *)
(* written; the notebook is run again only by a user who wants it on.      *)
(***************************************************************************)
EXTENDS Naturals

CONSTANTS
  MaxPresses, \* presses of Ligar, Desligar and of the editor of the name
  MaxFaults   \* workers and machines that die, commands that are not published

VARIABLES
  kind,     \* what the host is: "kaggle", "colab" or "plain"
  loop,     \* the loop of selfboot runs
  worker,   \* "off", "up" or "ending"
  sentinel, \* /tmp/sessionflow-shutdown
  queue,    \* shutdowns not acknowledged
  doc,      \* worker_status of the host
  stop,     \* the request of the last Desligar: "none", "marked" or "published"
  spent

vars == <<kind, loop, worker, sentinel, queue, doc, stop, spent>>

Kinds == {"kaggle", "colab", "plain"}
NoDoc == [kind |-> "none", named |-> FALSE, beat |-> "none", starting |-> FALSE]

TypeOK ==
  /\ kind \in Kinds /\ {loop, sentinel} \subseteq BOOLEAN
  /\ worker \in {"off", "up", "ending"} /\ queue \in 0..MaxPresses
  /\ doc \in [kind : Kinds \cup {"none"}, named : BOOLEAN, beat : {"none", "fresh", "old"},
              starting : BOOLEAN]
  /\ stop \in {"none", "marked", "published"}
  /\ spent \in [presses : 0..MaxPresses, faults : 0..MaxFaults]

Init ==
  /\ kind \in Kinds
  /\ loop = FALSE /\ worker = "off" /\ sentinel = FALSE /\ queue = 0
  /\ doc = NoDoc /\ stop = "none"
  /\ spent = [presses |-> 0, faults |-> 0]

Press == spent.presses < MaxPresses /\ spent' = [spent EXCEPT !.presses = @ + 1]
Fault == spent.faults < MaxFaults /\ spent' = [spent EXCEPT !.faults = @ + 1]

(***************************************************************************)
(* The card, and its buttons.                                              *)
(***************************************************************************)
Known == doc.beat # "none"
\* Only a recent heartbeat is online; a Start without one is "ligando".
Online == doc.beat = "fresh"
Starting == ~Online /\ doc.starting

\* The name says that the host is a Kaggle, or the worker declares it.
IsKaggleHost(d) == d.kind = "kaggle" \/ (d.named /\ kind = "kaggle")
\* The name says that the host is a Colab.
IsColabHost(d) == d.named /\ kind = "colab"
HasSandboxUrl(d) == IsKaggleHost(d) \/ IsColabHost(d)

\* set_worker_display_name.
Rename ==
  /\ Known
  /\ Press
  /\ \E named \in BOOLEAN : doc' = [doc EXCEPT !.named = named]
  /\ UNCHANGED <<kind, loop, worker, sentinel, queue, stop>>

\* start_worker; the notebook is opened for the user to run.
StartWorker ==
  /\ Known
  /\ Press
  /\ doc' = [doc EXCEPT !.starting = TRUE]
  /\ stop' = "none"
  /\ UNCHANGED <<kind, loop, worker, sentinel, queue>>

StartGracePasses ==
  /\ doc.starting
  /\ doc' = [doc EXCEPT !.starting = FALSE]
  /\ UNCHANGED <<kind, loop, worker, sentinel, queue, stop, spent>>

\* stop_worker: the document is marked, and a sandbox is sent a shutdown.
StopMarks ==
  /\ Known
  /\ Press
  /\ doc' = [doc EXCEPT !.beat = "old", !.starting = FALSE]
  /\ stop' = IF HasSandboxUrl(doc) THEN "marked" ELSE stop
  /\ UNCHANGED <<kind, loop, worker, sentinel, queue>>

StopPublishes ==
  /\ stop = "marked"
  /\ \/ stop' = "published" /\ queue' = queue + 1 /\ UNCHANGED spent
     \/ stop' = "none" /\ Fault /\ UNCHANGED queue
  /\ UNCHANGED <<kind, loop, worker, sentinel, doc>>

\* sf stop kills what runs on a Colab, the loop included.
SfKills ==
  /\ kind = "colab" /\ stop = "published" /\ loop
  /\ loop' = FALSE /\ worker' = "off"
  /\ UNCHANGED <<kind, sentinel, queue, doc, stop, spent>>

(***************************************************************************)
(* The host.                                                               *)
(***************************************************************************)
\* The notebook is run: selfboot clears the sentinel and starts the loop.
Selfboot ==
  /\ stop = "none" /\ ~loop
  /\ loop' = TRUE /\ sentinel' = FALSE
  /\ UNCHANGED <<kind, worker, queue, doc, stop, spent>>

LoopRelaunches ==
  /\ loop /\ worker = "off" /\ ~sentinel
  /\ worker' = "up"
  /\ UNCHANGED <<kind, loop, sentinel, queue, doc, stop, spent>>

LoopEnds ==
  /\ loop /\ worker = "off" /\ sentinel
  /\ loop' = FALSE
  /\ UNCHANGED <<kind, worker, sentinel, queue, doc, stop, spent>>

\* sandbox_identity: what the notebook says of itself in its environment.
SandboxIdentity == IF kind = "plain" THEN doc.kind ELSE kind

\* heartbeat_loop; what it does not write of the document stays.
Heartbeat ==
  /\ worker = "up"
  /\ doc' = [doc EXCEPT !.beat = "fresh", !.kind = SandboxIdentity]
  /\ UNCHANGED <<kind, loop, worker, sentinel, queue, stop, spent>>

HeartbeatAges ==
  /\ worker # "up" /\ Online
  /\ doc' = [doc EXCEPT !.beat = "old"]
  /\ UNCHANGED <<kind, loop, worker, sentinel, queue, stop, spent>>

HandleShutdown_NoSentinel ==
  /\ worker = "up" /\ queue > 0
  /\ worker' = "ending"
  /\ UNCHANGED <<kind, loop, sentinel, queue, doc, stop, spent>>
\* _handle_shutdown: the sentinel, and then the event that ends the runner.
HandleShutdown ==
  /\ worker = "up" /\ queue > 0
  /\ sentinel' = TRUE /\ worker' = "ending"
  /\ UNCHANGED <<kind, loop, queue, doc, stop, spent>>

\* The runner stops, and the command was acknowledged or rejected.
WorkerEnds ==
  /\ worker = "ending"
  /\ worker' = "off" /\ queue' = queue - 1
  /\ UNCHANGED <<kind, loop, sentinel, doc, stop, spent>>

WorkerDies ==
  /\ worker # "off"
  /\ Fault
  /\ worker' = "off"
  /\ UNCHANGED <<kind, loop, sentinel, queue, doc, stop>>

\* The machine of a notebook is taken away, with its /tmp.
VmDies ==
  /\ loop /\ kind # "plain"
  /\ Fault
  /\ loop' = FALSE /\ worker' = "off" /\ sentinel' = FALSE
  /\ UNCHANGED <<kind, queue, doc, stop>>

Host == LoopRelaunches \/ LoopEnds \/ HandleShutdown \/ WorkerEnds
Next == \/ Rename \/ StartWorker \/ StartGracePasses \/ StopMarks \/ StopPublishes \/ SfKills
        \/ Selfboot \/ Host \/ Heartbeat \/ HeartbeatAges \/ WorkerDies \/ VmDies

Spec == Init /\ [][Next]_vars
\* What runs on the host goes on, and time passes.
Fairness == WF_vars(Host) /\ WF_vars(HeartbeatAges) /\ WF_vars(StopPublishes)
FairSpec == Spec /\ Fairness

(***************************************************************************)
(* Properties.                                                             *)
(***************************************************************************)
\* "precisa parar quando o desligamento foi PEDIDO": once a shutdown has been
\* published, the loop ends and the card says offline, whatever dies on the way,
\* unless the host is started again.
StopStops ==
  []<>(stop = "published" => ~loop /\ ~Online /\ ~Starting)
=============================================================================
