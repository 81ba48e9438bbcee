-------------------------------- MODULE Events --------------------------------
(***************************************************************************)
(* What happens to a session, from the host to the bell of the browser.    *)
(*                                                                         *)
(* A worker stores an event under the next number of the collection and    *)
(* then publishes it; output lines, results of commands and what the API   *)
(* tells are published alone.  The API consumes one durable queue and puts *)
(* every frame into the bounded queue of each open stream.  The browser    *)
(* reads its stream, and opens it again when it breaks, with a timer.      *)
(*                                                                         *)
(* One browser and one stream of its own; streams of one session only, the *)
(* list that is fetched over HTTP and "clear all" are left out.  A frame   *)
(* is its kind, its number and whether it carries a numeric seq.           *)
(***************************************************************************)
EXTENDS Naturals, Sequences, FiniteSets

CONSTANTS
  Emitters,   \* tasks and hosts that emit
  MaxFrames,  \* frames published
  QueueMax,   \* queue_max_size
  MaxBackoff, \* doublings of the delay of a reconnection
  MaxFaults   \* API crashes, boots without Rabbit, streams that break

VARIABLES
  emits,    \* the event each emitter is at, and the seq it has read
  stored,   \* the seq of each event of the collection, 0 if there is none
  wire,     \* the durable queue of the API
  api,      \* whether it is up, consumes, and has a message not acknowledged
  stream,   \* the queue of the browser's stream, and the newest frame put there
  browser,  \* its EventSource, its timer, what it has shown
  spent

vars == <<emits, stored, wire, api, stream, browser, spent>>

Kinds == {"attention", "line", "result", "shared"}
Numbers == 1..MaxFrames
Frames == [kind : Kinds, n : Numbers, seq : BOOLEAN]
NoFrame == [kind |-> "none", n |-> 0, seq |-> FALSE]
NoStream == [open |-> FALSE, queue |-> <<>>, newest |-> 0]

TypeOK ==
  /\ emits \in [Emitters -> [at : {"off", "read", "stored"}, n : 0..MaxFrames,
                             seq : 0..MaxFrames]]
  /\ stored \in [Numbers -> 0..MaxFrames]
  /\ wire \in Seq(Frames)
  /\ api \in [up : BOOLEAN, started : BOOLEAN, holding : BOOLEAN]
  /\ stream \in [open : BOOLEAN, queue : Seq(Frames), newest : 0..MaxFrames]
  /\ Len(stream.queue) <= QueueMax
  /\ browser \in [source : {"none", "opening", "open"}, stopped : BOOLEAN, timer : BOOLEAN,
                  backoff : 0..MaxBackoff, last : Frames \cup {NoFrame}, bell : 0..MaxFrames]
  /\ spent \in [frames : 0..MaxFrames, faults : 0..MaxFaults]

Init ==
  /\ emits = [e \in Emitters |-> [at |-> "off", n |-> 0, seq |-> 0]]
  /\ stored = [n \in Numbers |-> 0]
  /\ wire = <<>>
  /\ api = [up |-> TRUE, started |-> TRUE, holding |-> FALSE]
  /\ stream = NoStream
  /\ browser = [source |-> "none", stopped |-> TRUE, timer |-> FALSE, backoff |-> 0,
                last |-> NoFrame, bell |-> 0]
  /\ spent = [frames |-> 0, faults |-> 0]

NewFrame == spent.frames < MaxFrames /\ spent' = [spent EXCEPT !.frames = @ + 1]
Fault == spent.faults < MaxFaults /\ spent' = [spent EXCEPT !.faults = @ + 1]

(***************************************************************************)
(* emit_event, and the other publishers.                                   *)
(***************************************************************************)
\* _next_seq: the highest that is stored, and one more.
NextSeq == 1 + CHOOSE s \in 0..MaxFrames :
                 /\ s = 0 \/ \E n \in Numbers : stored[n] = s
                 /\ \A n \in Numbers : stored[n] <= s

EmitReads(e) ==
  /\ emits[e].at = "off"
  /\ NewFrame
  /\ emits' = [emits EXCEPT ![e] = [at |-> "read", n |-> spent'.frames, seq |-> NextSeq]]
  /\ UNCHANGED <<stored, wire, api, stream, browser>>

EmitStores(e) ==
  /\ emits[e].at = "read"
  /\ stored' = [stored EXCEPT ![emits[e].n] = emits[e].seq]
  /\ emits' = [emits EXCEPT ![e].at = "stored"]
  /\ UNCHANGED <<wire, api, stream, browser, spent>>

Publish(kind, n, seq) == wire' = Append(wire, [kind |-> kind, n |-> n, seq |-> seq])

\* What was stored is published with its seq.
EmitPublishes(e) ==
  /\ emits[e].at = "stored"
  /\ Publish("attention", emits[e].n, TRUE)
  /\ emits' = [emits EXCEPT ![e] = [at |-> "off", n |-> 0, seq |-> 0]]
  /\ UNCHANGED <<stored, api, stream, browser, spent>>

\* The worker dies, or has no channel: the event lives in the collection alone.
EmitFails(e) ==
  /\ emits[e].at # "off"
  /\ Fault
  /\ emits' = [emits EXCEPT ![e] = [at |-> "off", n |-> 0, seq |-> 0]]
  /\ UNCHANGED <<stored, wire, api, stream, browser>>

\* output_capture's _publish; publish_result.
WorkerPublishes ==
  /\ NewFrame
  /\ \/ Publish("line", spent'.frames, TRUE)
     \/ Publish("result", spent'.frames, FALSE)
  /\ UNCHANGED <<emits, stored, api, stream, browser>>

\* publish_event, of the API itself.
ApiPublishes ==
  /\ api.up
  /\ NewFrame
  /\ Publish("shared", spent'.frames, FALSE)
  /\ UNCHANGED <<emits, stored, api, stream, browser>>

(***************************************************************************)
(* EventsBroker.                                                           *)
(***************************************************************************)
Put_DropsNewest(queue, frame) ==
  IF Len(queue) < QueueMax THEN Append(queue, frame) ELSE queue
\* A full queue loses its oldest frame.
Put(queue, frame) ==
  Append(IF Len(queue) < QueueMax THEN queue ELSE Tail(queue), frame)

\* _on_message, up to the end of _fan_out.
OnMessage ==
  /\ api.started /\ ~api.holding /\ wire # <<>>
  /\ api' = [api EXCEPT !.holding = TRUE]
  /\ stream' = IF ~stream.open THEN stream
               ELSE [stream EXCEPT !.queue = Put(@, Head(wire)), !.newest = Head(wire).n]
  /\ UNCHANGED <<emits, stored, wire, browser, spent>>

OnMessageEnds ==
  /\ api.holding
  /\ api' = [api EXCEPT !.holding = FALSE]
  /\ wire' = Tail(wire)
  /\ UNCHANGED <<emits, stored, stream, browser, spent>>

\* stop, or a crash: streams end, and what was not acknowledged is for the next.
ApiStops ==
  /\ api.up
  /\ Fault
  /\ api' = [up |-> FALSE, started |-> FALSE, holding |-> FALSE]
  /\ stream' = NoStream
  /\ UNCHANGED <<emits, stored, wire, browser>>

\* start never raises: without Rabbit the API runs, and its streams are silent.
ApiStarts ==
  /\ ~api.up
  /\ \/ api' = [api EXCEPT !.up = TRUE, !.started = TRUE] /\ UNCHANGED spent
     \/ api' = [api EXCEPT !.up = TRUE] /\ Fault
  /\ UNCHANGED <<emits, stored, wire, stream, browser>>

(***************************************************************************)
(* GET /events, and SseService.                                            *)
(***************************************************************************)
Open(b) == [b EXCEPT !.source = "opening"]
Disconnected(b) == [b EXCEPT !.stopped = TRUE, !.timer = FALSE, !.source = "none"]

\* A page connects, unless the stream is there already.
Connect ==
  /\ browser.stopped \/ browser.source = "none"
  /\ browser' = [Open(Disconnected(browser)) EXCEPT !.stopped = FALSE]
  /\ stream' = NoStream
  /\ UNCHANGED <<emits, stored, wire, api, spent>>

\* A page that disconnects as it is left.
Disconnect ==
  /\ ~browser.stopped
  /\ browser' = Disconnected(browser)
  /\ stream' = NoStream
  /\ UNCHANGED <<emits, stored, wire, api, spent>>

\* The request subscribes, and its first comment opens the source.
OnOpen ==
  /\ browser.source = "opening" /\ api.up
  /\ stream' = [NoStream EXCEPT !.open = TRUE]
  /\ browser' = [browser EXCEPT !.source = "open", !.backoff = 0]
  /\ UNCHANGED <<emits, stored, wire, api, spent>>

ScheduleReconnect_GivesUp(b) ==
  IF b.stopped \/ b.timer \/ b.backoff = MaxBackoff THEN b
  ELSE [b EXCEPT !.timer = TRUE, !.backoff = @ + 1]
\* A timer that is set already is left; the delay grows up to its cap.
ScheduleReconnect(b) ==
  IF b.stopped \/ b.timer THEN b
  ELSE [b EXCEPT !.timer = TRUE, !.backoff = IF @ < MaxBackoff THEN @ + 1 ELSE @]

OnError ==
  /\ \/ browser.source = "opening" /\ ~api.up
     \/ browser.source = "open" /\ ~stream.open
  /\ browser' = ScheduleReconnect([browser EXCEPT !.source = "none"])
  /\ UNCHANGED <<emits, stored, wire, api, stream, spent>>

StreamBreaks ==
  /\ stream.open
  /\ Fault
  /\ stream' = NoStream
  /\ UNCHANGED <<emits, stored, wire, api, browser>>

Reconnect ==
  /\ browser.timer /\ browser.source = "none"
  /\ browser' = Open([browser EXCEPT !.timer = FALSE])
  /\ UNCHANGED <<emits, stored, wire, api, stream, spent>>

\* A frame with a numeric seq is an output line.
IsOutputLine(frame) == frame.seq
AsksTheUser(frame) == frame.kind \in {"attention", "shared"}

\* handleMessage: the frame is the last event, and a structured one that asks
\* the user's attention rings.
HandleMessage(frame) ==
  browser' = [browser EXCEPT
    !.last = frame,
    !.bell = IF ~IsOutputLine(frame) /\ AsksTheUser(frame) THEN frame.n ELSE @]

\* _event_stream sends the oldest frame of its queue.
StreamSends ==
  /\ browser.source = "open" /\ stream.open /\ stream.queue # <<>>
  /\ HandleMessage(Head(stream.queue))
  /\ stream' = [stream EXCEPT !.queue = Tail(@)]
  /\ UNCHANGED <<emits, stored, wire, api, spent>>

Emit(e) == EmitStores(e) \/ EmitPublishes(e)
Broker == OnMessage \/ OnMessageEnds \/ ApiStarts
Source == OnOpen \/ OnError \/ Reconnect
Next == \/ \E e \in Emitters : EmitReads(e) \/ Emit(e) \/ EmitFails(e)
        \/ WorkerPublishes \/ ApiPublishes
        \/ Broker \/ ApiStops
        \/ Connect \/ Disconnect \/ StreamBreaks \/ Source \/ StreamSends

Spec == Init /\ [][Next]_vars
\* Processes that run go on; pages come and go as they please.
Fairness == /\ \A e \in Emitters : WF_vars(Emit(e))
            /\ WF_vars(Broker) /\ WF_vars(Source) /\ WF_vars(StreamSends)
FairSpec == Spec /\ Fairness

(***************************************************************************)
(* Properties.                                                             *)
(***************************************************************************)
\* However slow the reader of a stream is, the newest frame put in its queue is
\* shown, unless the stream ends or a newer one comes: "the subscriber sees SOME
\* recent events".
LatestGetsThrough ==
  \A n \in Numbers : []<>(stream.newest = n => browser.last.n = n)

\* "Automatically reconnects with exponential backoff on error until disconnect
\* is called": a page that wants its stream gets it back, whatever the order in
\* which the API restarts, the stream breaks, timers fire and pages change.
StreamComesBack ==
  []<>(browser.stopped \/ browser.source = "open")

\* Both: a page that stays sees the newest event and never goes deaf.
StreamServes == LatestGetsThrough /\ StreamComesBack

\* "Eventos que pedem atenção do usuário também alimentam as notificações": a
\* frame that asks the user's attention rings when it is handled.
BellRings == AsksTheUser(browser.last) => browser.bell = browser.last.n
=============================================================================
