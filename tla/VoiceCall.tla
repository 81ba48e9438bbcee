------------------------------- MODULE VoiceCall -------------------------------
(***************************************************************************)
(* A voice call: the browser streams the microphone over a WebSocket, the  *)
(* API finds where an utterance ends, transcribes it, hands it to a session *)
(* (or answers itself) and speaks the reply back.                          *)
(*                                                                         *)
(* The API reads the socket in one coroutine, which waits for the          *)
(* transcription, and runs every turn as a task of its own; cancelling a   *)
(* turn only marks it.  A session's reply comes through the events broker, *)
(* whose queue to a turn drops its oldest event when it is full.  The      *)
(* browser mutes its microphone from `assistant.speech.start` until a      *)
(* cooldown after `assistant.speech.end`.  A frame stands for a run of     *)
(* frames: speech, or the silence that ends an utterance.                  *)
(***************************************************************************)
EXTENDS Naturals, Sequences, FiniteSets

CONSTANTS
  MaxCalls,   \* calls, one after the other
  MaxTurns,   \* utterances of the user, in all calls
  MaxLines,   \* lines of a reply
  QueueMax,   \* queue_max_size of a broker subscription
  MaxCancels, \* voice.cancel messages
  MaxFaults   \* failed transcriptions, publishes and syntheses

ASSUME VoiceAssumption ==
  /\ {MaxCalls, MaxTurns, QueueMax} \subseteq Nat \ {0}
  /\ MaxLines \in Nat /\ MaxCancels \in Nat /\ MaxFaults \in Nat

Turns == 1..MaxTurns

VARIABLES
  call,       \* whether the browser is in a call
  muted,      \* MicrophoneService.muted, which outlives the call
  timers,     \* cooldown timers of the browser that have not gone off
  said,       \* the last frame it sent
  up, down,   \* what is on its way to the API and to the browser
  bound,      \* whether the call is bound to a session
  loop,       \* what the coroutine that reads the socket is at
  inSpeech,   \* the endpointer
  turn,       \* the turn of the last utterance; 0 before the first
  cancelled,  \* _cancelled_turns
  task,       \* where the task of a turn is
  inbox,      \* the broker's queue to a turn
  buffer,     \* the reply whose text a turn's chunker holds; 0 for none
  asked,      \* texts the session was given and has not answered in full
  lines,      \* lines it wrote of the first of them
  stopped,    \* history: turns that were ever cancelled
  failed,     \* history: turns whose task raised
  opened,     \* history: the last turn whose speech opened in this call, or 0
  spent       \* calls, utterances, cancels and faults so far

client == <<call, muted, timers, said>>
server == <<bound, loop, inSpeech, turn, cancelled>>
turns == <<task, inbox, buffer>>
session == <<asked, lines>>
history == <<stopped, failed, opened>>
vars == <<client, up, down, server, turns, session, history, spent>>

Bridged == {"listen", "speak", "last"}     \* subscribed to the broker
Steps == {"none", "new", "route", "bridge", "say"} \cup Bridged
Frame == [kind : {"speech", "silence", "bye"}, turn : {0}] \cup [kind : {"cancel"}, turn : Turns]
Message == [kind : {"transcript", "delta", "start", "audio", "end"},
            turn : Turns, of : Turns]
Event == [kind : {"line", "done"}, of : Turns]

Switches == {call, muted, bound, inSpeech} \subseteq BOOLEAN
BrowserType == timers \in Nat /\ said \in {"speech", "silence"}
WireType == up \in Seq(Frame) /\ down \in Seq(Message)
\* A turn has no task while it is spoken or transcribed.
LoopType ==
  /\ loop \in {"receive", "stt", "closing", "closed"}
  /\ turn \in 0..MaxTurns /\ cancelled \subseteq Turns
  /\ inSpeech => turn # 0 /\ task[turn] = "none" /\ loop # "stt"
  /\ loop = "stt" => turn # 0 /\ task[turn] = "none"
\* Only turns that were begun have a task, and the broker's queues keep to their size.
TurnsType ==
  /\ task \in [Turns -> Steps]
  /\ \A t \in Turns : task[t] # "none" => t <= turn
  /\ inbox \in [Turns -> Seq(Event)]
  /\ \A t \in Turns : /\ Len(inbox[t]) <= QueueMax
                      /\ inbox[t] # <<>> => task[t] \in Bridged
  /\ buffer \in [Turns -> 0..MaxTurns]
  /\ \A t \in Turns : task[t] \in {"speak", "last"} => buffer[t] # 0
SessionType == asked \in Seq(Turns) /\ lines \in 0..MaxLines
HistoryType ==
  /\ stopped \subseteq Turns /\ failed \subseteq Turns /\ opened \in 0..MaxTurns
  /\ spent \in [calls : 1..MaxCalls, speech : 0..MaxTurns, cancels : 0..MaxCancels,
                faults : 0..MaxFaults]
TypeOK ==
  /\ Switches /\ BrowserType /\ WireType /\ LoopType
  /\ TurnsType /\ SessionType /\ HistoryType

Init ==
  /\ call = TRUE /\ muted = FALSE /\ timers = 0 /\ said = "silence"
  /\ up = <<>> /\ down = <<>>
  /\ bound \in BOOLEAN
  /\ loop = "receive" /\ inSpeech = FALSE /\ turn = 0 /\ cancelled = {}
  /\ task = [t \in Turns |-> "none"]
  /\ inbox = [t \in Turns |-> <<>>] /\ buffer = [t \in Turns |-> 0]
  /\ asked = <<>> /\ lines = 0
  /\ stopped = {} /\ failed = {} /\ opened = 0
  /\ spent = [calls |-> 1, speech |-> 0, cancels |-> 0, faults |-> 0]

Fault == /\ spent.faults < MaxFaults
         /\ spent' = [spent EXCEPT !.faults = @ + 1]

----------------------------------------------------------------------------
(* The browser. *)

Upload(kind, t) == up' = Append(up, [kind |-> kind, turn |-> t])

Streams == call /\ ~muted
Speak ==
  /\ Streams /\ said = "silence"
  /\ spent.speech < MaxTurns
  /\ Upload("speech", 0)
  /\ said' = "speech"
  /\ spent' = [spent EXCEPT !.speech = @ + 1]
  /\ UNCHANGED <<call, muted, timers, down, server, turns, session, history>>

\* A microphone that is open streams; the room is silent after the user spoke.
Hush ==
  /\ Streams /\ said = "speech"
  /\ Upload("silence", 0)
  /\ said' = "silence"
  /\ UNCHANGED <<call, muted, timers, down, server, turns, session, history, spent>>

Cancel(t) ==
  /\ call /\ t <= turn
  /\ spent.cancels < MaxCancels
  /\ Upload("cancel", t)
  /\ spent' = [spent EXCEPT !.cancels = @ + 1]
  /\ UNCHANGED <<client, down, server, turns, session, history>>

\* Nothing that arrives after the browser closed the socket is heard.
HangUp ==
  /\ call
  /\ call' = FALSE
  /\ Upload("bye", 0)
  /\ UNCHANGED <<muted, timers, said, down, server, turns, session, history, spent>>

\* A new call, and a new TurnManager for it, when the last one is over.
Dial ==
  /\ ~call /\ loop = "closed"
  /\ spent.calls < MaxCalls
  /\ call' = TRUE /\ said' = "silence"
  /\ bound' \in BOOLEAN
  /\ loop' = "receive" /\ inSpeech' = FALSE /\ cancelled' = {}
  /\ opened' = 0
  /\ spent' = [spent EXCEPT !.calls = @ + 1]
  /\ UNCHANGED <<muted, timers, up, down, turn, turns, session, stopped, failed>>

Play ==
  /\ call /\ down # <<>>
  /\ LET m == Head(down)
     IN /\ IF m.kind = "start" THEN muted' = TRUE /\ opened' = m.turn
           ELSE UNCHANGED <<muted, opened>>
        /\ timers' = IF m.kind = "end" THEN timers + 1 ELSE timers
  /\ down' = Tail(down)
  /\ UNCHANGED <<call, said, up, server, turns, session, stopped, failed, spent>>

\* COOLDOWN_MS after the end of a speech; nothing takes a timer back.
Cooldown ==
  /\ timers > 0
  /\ timers' = timers - 1
  /\ muted' = FALSE
  /\ UNCHANGED <<call, said, up, down, server, turns, session, history, spent>>

----------------------------------------------------------------------------
(* The coroutine that reads the socket. *)

Running == {t \in Turns : task[t] # "none"}
MarkCancelled(ts) == /\ cancelled' = cancelled \cup ts
                     /\ stopped' = stopped \cup ts
Takes(kind) == /\ loop = "receive" /\ up # <<>> /\ Head(up).kind = kind
               /\ up' = Tail(up)

\* A new utterance cancels the turn before it, when that one still runs.
Overtaken_None == {}
Overtaken == {turn} \cap Running
ReceiveSpeech ==
  /\ Takes("speech")
  /\ IF inSpeech THEN UNCHANGED <<inSpeech, turn, cancelled, stopped>>
     ELSE /\ turn < MaxTurns
          /\ inSpeech' = TRUE
          /\ turn' = turn + 1
          /\ MarkCancelled(Overtaken)
  /\ UNCHANGED <<client, down, bound, loop, turns, session, failed, opened, spent>>

\* The end of an utterance: nothing to transcribe of a turn cancelled before it.
ReceiveSilence ==
  /\ Takes("silence")
  /\ inSpeech' = FALSE
  /\ loop' = IF inSpeech /\ turn \notin cancelled THEN "stt" ELSE loop
  /\ cancelled' = IF inSpeech THEN cancelled \ {turn} ELSE cancelled
  /\ UNCHANGED <<client, down, bound, turn, turns, session, history, spent>>

ReceiveCancel ==
  /\ Takes("cancel")
  /\ MarkCancelled({Head(up).turn})
  /\ UNCHANGED <<client, down, bound, loop, inSpeech, turn, turns, session, failed, opened, spent>>

ReceiveBye ==
  /\ Takes("bye")
  /\ loop' = "closing"
  /\ MarkCancelled(Running)
  /\ UNCHANGED <<client, down, bound, inSpeech, turn, turns, session, failed, opened, spent>>

Say(kind, t, r) == down' = Append(down, [kind |-> kind, turn |-> t, of |-> r])

Transcribed ==
  /\ loop = "stt"
  /\ loop' = "receive"
  /\ Say("transcript", turn, turn)
  /\ task' = [task EXCEPT ![turn] = "new"]
  /\ UNCHANGED <<client, up, bound, inSpeech, turn, cancelled, inbox, buffer, session, history, spent>>

\* The exception ends the coroutine, which cancels every turn and hangs up.
TranscriptionFails ==
  /\ Fault
  /\ loop = "stt"
  /\ loop' = "closing"
  /\ MarkCancelled(Running)
  /\ call' = FALSE
  /\ UNCHANGED <<muted, timers, said, up, down, bound, inSpeech, turn, turns, session, failed, opened>>

Close ==
  /\ loop = "closing" /\ Running = {}
  /\ loop' = "closed"
  /\ up' = <<>> /\ down' = <<>>
  /\ UNCHANGED <<client, bound, inSpeech, turn, cancelled, turns, session, history, spent>>

Receive == ReceiveSpeech \/ ReceiveSilence \/ ReceiveCancel \/ ReceiveBye \/ Transcribed \/ Close

----------------------------------------------------------------------------
(* The task of a turn. *)

At(t, step) == task[t] = step
Goto(t, step) == task' = [task EXCEPT ![t] = step]
Halted(t) == t \in cancelled

\* What the task's finally does; the bridge gives its queue back.
Leave(t) ==
  /\ Goto(t, "none")
  /\ inbox' = [inbox EXCEPT ![t] = <<>>]
  /\ buffer' = [buffer EXCEPT ![t] = 0]
  /\ cancelled' = cancelled \ {t}
  /\ UNCHANGED <<client, up, bound, loop, inSpeech, turn, session, stopped, opened>>

\* A turn of a session opens its speech before anything is asked of the session.
Start(t) ==
  /\ At(t, "new")
  /\ Goto(t, "route")
  /\ IF bound THEN Say("start", t, t) ELSE UNCHANGED down
  /\ UNCHANGED <<client, up, server, inbox, buffer, session, history, spent>>

Routed(t) ==
  /\ At(t, "route") /\ bound
  /\ asked' = Append(asked, t)
  /\ IF Halted(t)
     THEN /\ Goto(t, "none") /\ cancelled' = cancelled \ {t}
     ELSE /\ Goto(t, "bridge") /\ UNCHANGED cancelled
  /\ UNCHANGED <<client, up, down, bound, loop, inSpeech, turn, inbox, buffer, lines, history, spent>>

Subscribe(t) ==
  /\ At(t, "bridge")
  /\ Goto(t, "listen")
  /\ UNCHANGED <<client, up, down, server, inbox, buffer, session, history, spent>>

\* A line completes a sentence, or waits in the chunker.
HearLine(t) ==
  /\ At(t, "listen")
  /\ inbox[t] # <<>> /\ Head(inbox[t]).kind = "line"
  /\ inbox' = [inbox EXCEPT ![t] = Tail(@)]
  /\ IF Halted(t) THEN UNCHANGED <<task, buffer>>
     ELSE /\ buffer' = [buffer EXCEPT ![t] = Head(inbox[t]).of]
          /\ task' \in {task, [task EXCEPT ![t] = "speak"]}
  /\ UNCHANGED <<client, up, down, server, session, history, spent>>

Audible_Always(t) == TRUE
Audible(t) == ~Halted(t)
Spoken(t) ==
  /\ At(t, "speak")
  /\ Goto(t, "listen")
  /\ buffer' = [buffer EXCEPT ![t] = 0]
  /\ IF Audible(t) THEN Say("audio", t, buffer[t]) ELSE UNCHANGED down
  /\ UNCHANGED <<client, up, server, inbox, session, history, spent>>

\* The reply is over: what the chunker still holds is spoken, then the speech ends.
HearDone(t) ==
  /\ At(t, "listen")
  /\ inbox[t] # <<>> /\ Head(inbox[t]).kind = "done"
  /\ IF ~Halted(t) /\ buffer[t] # 0
     THEN /\ Goto(t, "last")
          /\ inbox' = [inbox EXCEPT ![t] = Tail(@)]
          /\ UNCHANGED <<client, up, down, server, buffer, session, stopped, opened>>
     ELSE /\ Leave(t)
          /\ IF Halted(t) THEN UNCHANGED down ELSE Say("end", t, t)
  /\ UNCHANGED <<failed, spent>>

LastSpoken(t) ==
  /\ At(t, "last")
  /\ Leave(t)
  /\ down' = IF Halted(t) THEN down
             ELSE down \o <<[kind |-> "audio", turn |-> t, of |-> buffer[t]],
                            [kind |-> "end", turn |-> t, of |-> t]>>
  /\ UNCHANGED <<failed, spent>>

\* The wait for the bridge ends with the turn cancelled, or after 60 s.
Waiting_Bridge(t) == task[t] = "bridge"
Waiting(t) == task[t] \in {"bridge"} \cup Bridged
Interrupted(t) ==
  /\ Waiting(t) /\ Halted(t)
  /\ Leave(t)
  /\ UNCHANGED <<down, failed, spent>>

Ending_Silent(t) == UNCHANGED down
Ending(t) == Say("end", t, t)
TimedOut(t) ==
  /\ Waiting(t) /\ ~Halted(t)
  /\ Leave(t)
  /\ Ending(t)
  /\ UNCHANGED <<failed, spent>>

\* An unbound call is answered by the API itself, one chunk after the other.
Answered(t) ==
  /\ At(t, "route") /\ ~bound
  /\ IF Halted(t) THEN Leave(t) /\ UNCHANGED down
     ELSE /\ Goto(t, "say")
          /\ down' = down \o <<[kind |-> "delta", turn |-> t, of |-> t],
                               [kind |-> "start", turn |-> t, of |-> t]>>
          /\ UNCHANGED <<client, up, server, inbox, buffer, session, stopped, opened>>
  /\ UNCHANGED <<failed, spent>>

SaidChunk(t) ==
  /\ At(t, "say")
  /\ IF Halted(t) THEN Leave(t) /\ UNCHANGED down
     ELSE /\ Leave(t)
          /\ down' = down \o <<[kind |-> "audio", turn |-> t, of |-> t],
                               [kind |-> "end", turn |-> t, of |-> t]>>
  /\ UNCHANGED <<failed, spent>>

\* A publish or a synthesis raised: the task is over, nothing is sent.
Raises(t) ==
  /\ Fault
  /\ At(t, "route") \/ At(t, "speak") \/ At(t, "last") \/ At(t, "say")
  /\ Leave(t)
  /\ failed' = failed \cup {t}
  /\ UNCHANGED down

Turn(t) ==
  \/ Start(t) \/ Routed(t) \/ Subscribe(t) \/ HearLine(t) \/ Spoken(t) \/ HearDone(t)
  \/ LastSpoken(t) \/ Interrupted(t) \/ Answered(t) \/ SaidChunk(t)

----------------------------------------------------------------------------
(* The session's output, through the events broker. *)

\* A full queue loses its oldest event.
Queued_Unbounded(q, e) == Append(q, e)
Queued(q, e) == Append(IF Len(q) < QueueMax THEN q ELSE Tail(q), e)
FanOut(e) ==
  inbox' = [t \in Turns |-> IF task[t] \in Bridged THEN Queued(inbox[t], e) ELSE inbox[t]]

Write ==
  /\ asked # <<>> /\ lines < MaxLines
  /\ lines' = lines + 1
  /\ FanOut([kind |-> "line", of |-> Head(asked)])
  /\ UNCHANGED <<client, up, down, server, task, buffer, asked, history, spent>>

Finish ==
  /\ asked # <<>>
  /\ asked' = Tail(asked) /\ lines' = 0
  /\ FanOut([kind |-> "done", of |-> Head(asked)])
  /\ UNCHANGED <<client, up, down, server, task, buffer, history, spent>>

Next ==
  \/ Speak \/ Hush \/ HangUp \/ Dial \/ Play \/ Cooldown
  \/ Receive \/ TranscriptionFails
  \/ \E t \in Turns : Cancel(t) \/ Turn(t) \/ TimedOut(t) \/ Raises(t)
  \/ Write \/ Finish

Spec == Init /\ [][Next]_vars

\* The browser and the API run; services answer or raise; 60 s pass.  Nothing is
\* assumed of the user, but that the room falls silent, nor of the session.
FairSpec ==
  /\ Spec
  /\ WF_vars(Hush) /\ WF_vars(Play) /\ WF_vars(Cooldown)
  /\ WF_vars(Receive)
  /\ \A t \in Turns : WF_vars(Turn(t)) /\ WF_vars(TimedOut(t))

----------------------------------------------------------------------------
(* What must hold. *)

\* At most one turn that was not cancelled runs.
OneAtATime == Cardinality(Running \ cancelled) <= 1

\* A turn that was cancelled says nothing more, whatever it was waiting for.
NewMessages == IF Len(down') <= Len(down) THEN {} ELSE {down'[i] : i \in Len(down) + 1..Len(down')}
SilentOnceCancelled ==
  [][\A m \in NewMessages : m.kind \in {"delta", "audio", "end"} => m.turn \notin stopped]_vars

\* The task of every turn comes to its end, though its reply be lost or endless.
TasksEnd == \A t \in Turns : []<>(task[t] = "none")

\* Whenever a speech of the call muted the microphone it comes to be open, unless the turn
\* that spoke was cancelled or failed, or the call ended.
SpeechesClose == []<>(call /\ muted => opened \notin Turns \ (stopped \cup failed))

\* Both: a turn ends, and with it the speech that muted the microphone.
TurnsEnd == TasksEnd /\ SpeechesClose

\* In a call the microphone never stays muted for good.
MicReopens == []<>(~(call /\ muted))
=============================================================================
