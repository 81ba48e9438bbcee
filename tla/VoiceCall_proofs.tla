--------------------------- MODULE VoiceCall_proofs ---------------------------
(***************************************************************************)
(* Proofs about VoiceCall: its types, that at most one live turn runs, and  *)
(* that a cancelled turn says nothing more.                                 *)
(***************************************************************************)
EXTENDS VoiceCall, FiniteSetTheorems, TLAPS

-----------------------------------------------------------------------------
(* Lemmas on queues. *)

LEMMA Appended ==
  ASSUME NEW S, NEW q \in Seq(S), NEW e \in S
  PROVE  /\ Append(q, e) \in Seq(S)
         /\ Len(Append(q, e)) = Len(q) + 1
         /\ \A i \in 1..Len(q) : Append(q, e)[i] = q[i]
         /\ Append(q, e)[Len(q) + 1] = e
  OBVIOUS

LEMMA Shortened ==
  ASSUME NEW S, NEW q \in Seq(S), q # <<>>
  PROVE  /\ Head(q) \in S /\ Tail(q) \in Seq(S) /\ Len(q) \in Nat \ {0}
         /\ Len(Tail(q)) = Len(q) - 1
         /\ \A i \in 1..Len(q) - 1 : Tail(q)[i] = q[i + 1]
  OBVIOUS

LEMMA Pair ==
  ASSUME NEW S, NEW q \in Seq(S), NEW a \in S, NEW b \in S
  PROVE  /\ q \o <<a, b>> \in Seq(S)
         /\ Len(q \o <<a, b>>) = Len(q) + 2
         /\ (q \o <<a, b>>)[Len(q) + 1] = a
         /\ (q \o <<a, b>>)[Len(q) + 2] = b
  OBVIOUS

\* A full queue loses its oldest event and keeps its size.
LEMMA QueuedKeeps ==
  ASSUME NEW q \in Seq(Event), Len(q) <= QueueMax, NEW e \in Event
  PROVE  Queued(q, e) \in Seq(Event) /\ Len(Queued(q, e)) <= QueueMax
<1>1. QueueMax \in Nat \ {0}
  BY VoiceAssumption
<1>2. CASE Len(q) < QueueMax
  BY <1>2, <1>1, Appended DEF Queued
<1>3. CASE ~(Len(q) < QueueMax)
  <2>1. q # <<>> /\ Len(q) \in Nat
    BY <1>3, <1>1
  <2>2. Tail(q) \in Seq(Event) /\ Len(Tail(q)) = Len(q) - 1
    BY <2>1, Shortened
  <2> QED BY <1>1, <1>3, <2>1, <2>2, Appended DEF Queued
<1> QED BY <1>2, <1>3

LEMMA Turns1 == MaxTurns \in Nat \ {0} /\ Turns \subseteq Nat /\ 0 \notin Turns
                /\ \A t : t \in Turns <=> t \in 0..MaxTurns /\ t # 0
BY VoiceAssumption DEF Turns

-----------------------------------------------------------------------------
LEMMA InitType == Init => TypeOK
<1> SUFFICES ASSUME Init PROVE TypeOK
  OBVIOUS
<1>1. Switches
  BY Zenon DEF Init, Switches
<1>2. spent \in [calls : 1..MaxCalls, speech : 0..MaxTurns, cancels : 0..MaxCancels,
                 faults : 0..MaxFaults]
  BY VoiceAssumption DEF Init
<1>3. \A t \in Turns : inbox[t] = <<>> /\ Len(inbox[t]) = 0 /\ task[t] = "none" /\ buffer[t] = 0
  BY DEF Init
<1>4. /\ task \in [Turns -> Steps] /\ buffer \in [Turns -> 0..MaxTurns]
      /\ inbox \in [Turns -> Seq(Event)]
  BY Turns1 DEF Init, Steps
<1>5. WireType /\ SessionType
  BY VoiceAssumption DEF Init, WireType, SessionType
<1>6. ~inSpeech
  BY Zenon DEF Init
<1>7. BrowserType /\ LoopType
  BY <1>6, Turns1 DEF Init, BrowserType, LoopType
<1>8. TurnsType
  BY <1>3, <1>4, VoiceAssumption, Turns1 DEF TurnsType
<1>9. HistoryType
  BY <1>2, Turns1 DEF Init, HistoryType
<1> QED BY <1>1, <1>5, <1>7, <1>8, <1>9 DEF TypeOK

\* A step of the browser leaves the API's side alone.
LEMMA ServerKept ==
  ASSUME TypeOK, UNCHANGED <<server, turns, session>>
  PROVE  LoopType' /\ TurnsType' /\ SessionType'
BY DEF TypeOK, LoopType, TurnsType, SessionType, server, turns, session

LEMMA Spending ==
  ASSUME HistoryType, Fault
  PROVE  spent' \in [calls : 1..MaxCalls, speech : 0..MaxTurns, cancels : 0..MaxCancels,
                     faults : 0..MaxFaults]
BY VoiceAssumption DEF HistoryType, Fault

\* What the user and the browser do.
LEMMA BrowserSteps ==
  ASSUME TypeOK, Speak \/ Hush \/ HangUp \/ Play \/ Cooldown \/ \E t \in Turns : Cancel(t)
  PROVE  TypeOK'
<1> USE Turns1, VoiceAssumption
<1>t. Switches /\ BrowserType /\ WireType /\ LoopType /\ TurnsType /\ SessionType /\ HistoryType
  BY DEF TypeOK
<1>f. /\ \A k \in {"speech", "silence", "bye"} : [kind |-> k, turn |-> 0] \in Frame
      /\ \A t \in Turns : [kind |-> "cancel", turn |-> t] \in Frame
  BY DEF Frame
<1>1. ASSUME Speak PROVE TypeOK'
  <2>1. WireType'
    BY <1>1, <1>t, <1>f, Appended DEF Speak, Upload, WireType
  <2>2. BrowserType' /\ HistoryType'
    BY <1>1, <1>t DEF Speak, BrowserType, HistoryType, history
  <2>3. Switches'
    BY <1>1, <1>t, Zenon DEF Speak, Switches, server
  <2>4. UNCHANGED <<server, turns, session>>
    BY <1>1 DEF Speak
  <2> QED BY <2>1, <2>2, <2>3, <2>4, ServerKept DEF TypeOK
<1>2. ASSUME Hush PROVE TypeOK'
  <2>1. WireType'
    BY <1>2, <1>t, <1>f, Appended DEF Hush, Upload, WireType
  <2>2. BrowserType' /\ HistoryType'
    BY <1>2, <1>t DEF Hush, BrowserType, HistoryType, history
  <2>3. Switches'
    BY <1>2, <1>t, Zenon DEF Hush, Switches, server
  <2>4. UNCHANGED <<server, turns, session>>
    BY <1>2 DEF Hush
  <2> QED BY <2>1, <2>2, <2>3, <2>4, ServerKept DEF TypeOK
<1>3. ASSUME HangUp PROVE TypeOK'
  <2>1. WireType'
    BY <1>3, <1>t, <1>f, Appended DEF HangUp, Upload, WireType
  <2>2. BrowserType' /\ HistoryType'
    BY <1>3, <1>t DEF HangUp, BrowserType, HistoryType, history
  <2>3. Switches'
    BY <1>3, <1>t, Zenon DEF HangUp, Switches, server
  <2>4. UNCHANGED <<server, turns, session>>
    BY <1>3 DEF HangUp
  <2> QED BY <2>1, <2>2, <2>3, <2>4, ServerKept DEF TypeOK
<1>4. ASSUME Play PROVE TypeOK'
  <2>1. WireType' /\ Head(down) \in Message
    BY <1>4, <1>t, Shortened DEF Play, WireType
  <2>2. Head(down).turn \in Turns
    BY <2>1 DEF Message
  <2>3. muted' \in {TRUE, muted} /\ opened' \in {Head(down).turn, opened}
    BY <1>4, Zenon DEF Play
  <2>4. timers' \in {timers + 1, timers}
    BY <1>4, Zenon DEF Play
  <2>5. BrowserType'
    BY <1>4, <1>t, <2>4 DEF Play, BrowserType
  <2>6. HistoryType'
    BY <1>4, <1>t, <2>2, <2>3 DEF Play, HistoryType
  <2>7. UNCHANGED <<server, turns, session>> /\ UNCHANGED call
    BY <1>4 DEF Play
  <2>8. Switches'
    BY <2>3, <2>7, <1>t, Zenon DEF Switches, server
  <2> QED BY <2>1, <2>5, <2>6, <2>7, <2>8, ServerKept DEF TypeOK
<1>5. ASSUME Cooldown PROVE TypeOK'
  <2>1. BrowserType' /\ WireType' /\ HistoryType'
    BY <1>5, <1>t DEF Cooldown, BrowserType, WireType, HistoryType, history
  <2>2. Switches'
    BY <1>5, <1>t, Zenon DEF Cooldown, Switches, server
  <2>3. UNCHANGED <<server, turns, session>>
    BY <1>5 DEF Cooldown
  <2> QED BY <2>1, <2>2, <2>3, ServerKept DEF TypeOK
<1>6. ASSUME NEW t \in Turns, Cancel(t) PROVE TypeOK'
  <2>1. WireType'
    BY <1>6, <1>t, <1>f, Appended DEF Cancel, Upload, WireType
  <2>2. BrowserType' /\ HistoryType'
    BY <1>6, <1>t DEF Cancel, BrowserType, HistoryType, history, client
  <2>3. Switches'
    BY <1>6, <1>t, Zenon DEF Cancel, Switches, client, server
  <2>4. UNCHANGED <<server, turns, session>>
    BY <1>6 DEF Cancel
  <2> QED BY <2>1, <2>2, <2>3, <2>4, ServerKept DEF TypeOK
<1> QED BY <1>1, <1>2, <1>3, <1>4, <1>5, <1>6

\* A new call starts on a loop of its own.
LEMMA DialStep ==
  ASSUME TypeOK, Dial
  PROVE  TypeOK'
<1>t. Switches /\ BrowserType /\ WireType /\ LoopType /\ TurnsType /\ SessionType /\ HistoryType
  BY DEF TypeOK
<1>1. BrowserType' /\ WireType' /\ SessionType' /\ TurnsType'
  BY <1>t DEF Dial, BrowserType, WireType, SessionType, TurnsType, session, turns
<1>2. ~inSpeech'
  BY Zenon DEF Dial
<1>3. LoopType'
  BY <1>t, <1>2 DEF Dial, LoopType
<1>4. HistoryType'
  <2>1. spent' \in [calls : 1..MaxCalls, speech : 0..MaxTurns, cancels : 0..MaxCancels,
                    faults : 0..MaxFaults]
    BY <1>t, VoiceAssumption DEF Dial, HistoryType
  <2> QED BY <1>t, <2>1, Turns1 DEF Dial, HistoryType
<1>5. Switches'
  BY <1>t, Zenon DEF Dial, Switches
<1> QED BY <1>1, <1>3, <1>4, <1>5 DEF TypeOK

\* What the coroutine that reads the socket takes of its input.
LEMMA Taken ==
  ASSUME WireType, NEW kind, Takes(kind)
  PROVE  /\ up' \in Seq(Frame) /\ loop = "receive"
         /\ kind = "cancel" => Head(up).turn \in Turns
<1>1. Head(up) \in Frame /\ Tail(up) \in Seq(Frame)
  BY Shortened DEF Takes, WireType
<1> QED BY <1>1 DEF Takes, Frame

LEMMA LoopSteps ==
  ASSUME TypeOK, Receive \/ TranscriptionFails
  PROVE  TypeOK'
<1> USE Turns1
<1>t. Switches /\ BrowserType /\ WireType /\ LoopType /\ TurnsType /\ SessionType /\ HistoryType
  BY DEF TypeOK
<1>r. Running \subseteq Turns
  BY DEF Running
<1>1. ASSUME ReceiveSpeech PROVE TypeOK'
  <2>1. WireType' /\ loop = "receive"
    BY <1>1, <1>t, Taken DEF ReceiveSpeech, WireType
  <2>2. BrowserType' /\ SessionType'
    BY <1>1, <1>t DEF ReceiveSpeech, BrowserType, SessionType, client, session
  <2>3. CASE inSpeech
    <3>1. UNCHANGED <<inSpeech, turn, cancelled, stopped>>
      BY <1>1, <2>3, Zenon DEF ReceiveSpeech
    <3>2. Switches'
      BY <3>1, <1>1, <1>t, Zenon DEF ReceiveSpeech, Switches, client
    <3>3. LoopType' /\ TurnsType' /\ HistoryType'
      BY <3>1, <1>1, <1>t DEF ReceiveSpeech, LoopType, TurnsType, HistoryType, turns
    <3> QED BY <2>1, <2>2, <3>2, <3>3 DEF TypeOK
  <2>4. CASE ~inSpeech
    <3>1. /\ turn < MaxTurns /\ inSpeech' /\ turn' = turn + 1
          /\ cancelled' = cancelled \cup Overtaken /\ stopped' = stopped \cup Overtaken
      BY <1>1, <2>4, Zenon DEF ReceiveSpeech, MarkCancelled
    <3>2. Switches'
      BY <2>4, <1>1, <1>t, Zenon DEF ReceiveSpeech, Switches, client
    <3>3. turn \in Nat /\ turn' \in Turns /\ turn <= turn' /\ turn' # turn
      BY <3>1, <1>t DEF LoopType, Turns
    <3>4. TurnsType'
      BY <1>1, <1>t, <3>3 DEF ReceiveSpeech, TurnsType, turns
    <3>5. task'[turn'] = "none"
      BY <1>1, <1>t, <3>1, <3>3 DEF TurnsType, ReceiveSpeech, turns
    <3>6. LoopType' /\ HistoryType'
      BY <1>1, <1>t, <1>r, <2>1, <3>1, <3>3, <3>5 DEF ReceiveSpeech, LoopType, HistoryType, Overtaken
    <3> QED BY <2>1, <2>2, <3>2, <3>4, <3>6 DEF TypeOK
  <2> QED BY <2>3, <2>4
<1>2. ASSUME ReceiveSilence PROVE TypeOK'
  <2>1. WireType' /\ loop = "receive"
    BY <1>2, <1>t, Taken DEF ReceiveSilence, WireType
  <2>2. BrowserType' /\ SessionType' /\ TurnsType' /\ HistoryType'
    BY <1>2, <1>t DEF ReceiveSilence, BrowserType, SessionType, TurnsType, HistoryType,
                      client, session, turns, history
  <2>3. Switches' /\ ~inSpeech'
    BY <1>2, <1>t, Zenon DEF ReceiveSilence, Switches, client
  <2>4. cancelled' \subseteq cancelled /\ loop' \in {"stt", loop} /\ (loop' = "stt" => inSpeech)
    BY <1>2, <2>1, Zenon DEF ReceiveSilence
  <2>5. LoopType'
    BY <1>2, <1>t, <2>1, <2>3, <2>4 DEF ReceiveSilence, LoopType, turns
  <2> QED BY <2>1, <2>2, <2>3, <2>5 DEF TypeOK
<1>3. ASSUME ReceiveCancel PROVE TypeOK'
  <2>1. WireType' /\ Head(up).turn \in Turns
    BY <1>3, <1>t, Taken DEF ReceiveCancel, WireType
  <2>2. BrowserType' /\ SessionType' /\ TurnsType' /\ HistoryType' /\ LoopType'
    BY <1>3, <1>t, <2>1 DEF ReceiveCancel, MarkCancelled, BrowserType, SessionType, TurnsType,
                            HistoryType, LoopType, client, session, turns
  <2>3. Switches'
    BY <1>3, <1>t, Zenon DEF ReceiveCancel, Switches, client
  <2> QED BY <2>1, <2>2, <2>3 DEF TypeOK
<1>4. ASSUME ReceiveBye PROVE TypeOK'
  <2>1. WireType'
    BY <1>4, <1>t, Taken DEF ReceiveBye, WireType
  <2>2. BrowserType' /\ SessionType' /\ TurnsType' /\ HistoryType' /\ LoopType'
    BY <1>4, <1>t, <1>r DEF ReceiveBye, MarkCancelled, BrowserType, SessionType, TurnsType,
                            HistoryType, LoopType, client, session, turns
  <2>3. Switches'
    BY <1>4, <1>t, Zenon DEF ReceiveBye, Switches, client
  <2> QED BY <2>1, <2>2, <2>3 DEF TypeOK
<1>5. ASSUME Transcribed PROVE TypeOK'
  <2>1. turn \in Turns /\ ~inSpeech /\ task[turn] = "none"
    BY <1>5, <1>t, Zenon, Turns1 DEF Transcribed, LoopType
  <2>2. [kind |-> "transcript", turn |-> turn, of |-> turn] \in Message
    BY <2>1 DEF Message
  <2>3. WireType'
    BY <1>5, <1>t, <2>2, Appended DEF Transcribed, Say, WireType
  <2>4. BrowserType' /\ SessionType' /\ HistoryType'
    BY <1>5, <1>t DEF Transcribed, BrowserType, SessionType, HistoryType, client, session, history
  <2>5. /\ task' \in [Turns -> Steps] /\ task'[turn] = "new"
        /\ \A t \in Turns : t # turn => task'[t] = task[t]
    BY <1>5, <1>t, <2>1 DEF Transcribed, TurnsType, Steps
  <2>6. "new" \notin Bridged /\ turn \in Nat
    BY <2>1 DEF Bridged
  <2>7. inbox[turn] = <<>>
    BY <2>1, <1>t DEF TurnsType, Bridged
  <2>8. TurnsType'
    BY <1>5, <1>t, <2>1, <2>5, <2>6, <2>7 DEF Transcribed, TurnsType
  <2>9. Switches' /\ ~inSpeech'
    BY <1>5, <1>t, <2>1, Zenon DEF Transcribed, Switches, client
  <2>10. LoopType'
    BY <1>5, <1>t, <2>9 DEF Transcribed, LoopType
  <2> QED BY <2>3, <2>4, <2>8, <2>9, <2>10 DEF TypeOK
<1>6. ASSUME Close PROVE TypeOK'
  <2>1. WireType' /\ BrowserType' /\ SessionType' /\ HistoryType'
    BY <1>6, <1>t DEF Close, WireType, BrowserType, SessionType, HistoryType, client, session,
                      history
  <2>3. TurnsType'
    BY <1>6, <1>t DEF Close, TurnsType, turns
  <2>4. LoopType'
    <3>1. loop = "closing" /\ loop' = "closed" /\ UNCHANGED <<inSpeech, turn, task, cancelled>>
      BY <1>6 DEF Close, turns
    <3> QED BY <1>t, <3>1, Zenon DEF LoopType
  <2>2. Switches'
    BY <1>6, <1>t, Zenon DEF Close, Switches, client
  <2> QED BY <2>1, <2>2, <2>3, <2>4 DEF TypeOK
<1>7. ASSUME TranscriptionFails PROVE TypeOK'
  <2>1. spent' \in [calls : 1..MaxCalls, speech : 0..MaxTurns, cancels : 0..MaxCancels,
                    faults : 0..MaxFaults]
    BY <1>7, <1>t, Spending DEF TranscriptionFails
  <2>2. WireType' /\ BrowserType' /\ SessionType' /\ TurnsType' /\ HistoryType' /\ LoopType'
    BY <1>7, <1>t, <1>r, <2>1 DEF TranscriptionFails, MarkCancelled, WireType, BrowserType,
                      SessionType, TurnsType, HistoryType, LoopType, session, turns
  <2>3. Switches'
    BY <1>7, <1>t, Zenon DEF TranscriptionFails, Switches
  <2> QED BY <2>2, <2>3 DEF TypeOK
<1> QED BY <1>1, <1>2, <1>3, <1>4, <1>5, <1>6, <1>7 DEF Receive

-----------------------------------------------------------------------------
(* The task of a turn. *)

LEMMA Said ==
  ASSUME WireType, NEW t \in Turns, NEW r \in Turns,
         NEW k \in {"transcript", "delta", "start", "audio", "end"}
  PROVE  /\ [kind |-> k, turn |-> t, of |-> r] \in Message
         /\ Say(k, t, r) => down' \in Seq(Message)
<1>1. [kind |-> k, turn |-> t, of |-> r] \in Message
  BY DEF Message
<1> QED BY <1>1, Appended DEF Say, WireType

\* A turn that runs is not the one that is spoken or transcribed.
LEMMA RunningTurn ==
  ASSUME LoopType, TurnsType, NEW t \in Turns, task[t] # "none"
  PROVE  /\ t <= turn
         /\ inSpeech => t # turn
         /\ loop = "stt" => t # turn
BY DEF LoopType, TurnsType

\* The task of a running turn ends.
LEMMA Left ==
  ASSUME TypeOK, NEW t \in Turns, task[t] # "none", Leave(t)
  PROVE  /\ Switches' /\ BrowserType' /\ LoopType' /\ TurnsType' /\ SessionType'
         /\ UNCHANGED <<up, stopped, opened>>
<1>t. Switches /\ BrowserType /\ WireType /\ LoopType /\ TurnsType /\ SessionType /\ HistoryType
  BY DEF TypeOK
<1>1. BrowserType' /\ SessionType' /\ UNCHANGED <<up, stopped, opened>>
  BY <1>t DEF Leave, BrowserType, SessionType, client, session
<1>2. Switches'
  BY <1>t, Zenon DEF Leave, Switches, client
<1>3. /\ task' \in [Turns -> Steps] /\ task'[t] = "none"
      /\ inbox' \in [Turns -> Seq(Event)] /\ inbox'[t] = <<>>
      /\ buffer' \in [Turns -> 0..MaxTurns]
      /\ \A u \in Turns : u # t => task'[u] = task[u] /\ inbox'[u] = inbox[u] /\ buffer'[u] = buffer[u]
  BY <1>t, Turns1 DEF Leave, Goto, TurnsType, Steps
<1>4. Len(inbox'[t]) = 0 /\ QueueMax >= 0
  BY <1>3, VoiceAssumption
<1>5. TurnsType'
  <2>1. ASSUME NEW u \in Turns
        PROVE  /\ task'[u] # "none" => u <= turn'
               /\ Len(inbox'[u]) <= QueueMax
               /\ inbox'[u] # <<>> => task'[u] \in Bridged
               /\ task'[u] \in {"speak", "last"} => buffer'[u] # 0
    <3>1. CASE u = t
      BY <3>1, <1>3, <1>4, "none" \notin {"speak", "last"}
    <3>2. CASE u # t
      BY <3>2, <1>3, <1>t DEF TurnsType, Leave
    <3> QED BY <3>1, <3>2
  <2> QED BY <2>1, <1>3 DEF TurnsType
<1>6. LoopType'
  BY <1>t, <1>3, Turns1 DEF Leave, LoopType
<1> QED BY <1>1, <1>2, <1>5, <1>6

\* The task of a running turn goes on to another step.
LEMMA Gone ==
  ASSUME TypeOK, NEW t \in Turns, task[t] # "none",
         NEW step \in Steps \ {"none"}, Goto(t, step),
         inbox[t] # <<>> => step \in Bridged,
         step \in {"speak", "last"} => buffer[t] # 0
  PROVE  /\ UNCHANGED <<turn, inbox, buffer>> => TurnsType'
         /\ UNCHANGED <<loop, inSpeech, turn>> /\ cancelled' \subseteq cancelled => LoopType'
<1>t. LoopType /\ TurnsType
  BY DEF TypeOK
<1>1. /\ task' \in [Turns -> Steps] /\ task'[t] = step
      /\ \A u \in Turns : u # t => task'[u] = task[u]
  BY <1>t DEF Goto, TurnsType
<1>2. /\ t <= turn /\ (inSpeech => t # turn) /\ (loop = "stt" => t # turn)
  BY <1>t, RunningTurn
<1>3. ASSUME UNCHANGED <<turn, inbox, buffer>> PROVE TurnsType'
  BY <1>1, <1>2, <1>3, <1>t DEF TurnsType
<1>4. ASSUME UNCHANGED <<loop, inSpeech, turn>>, cancelled' \subseteq cancelled PROVE LoopType'
  BY <1>1, <1>2, <1>4, <1>t, Turns1 DEF LoopType
<1> QED BY <1>3, <1>4

\* A step of a turn leaves the browser alone.
LEMMA ClientKept ==
  ASSUME TypeOK, UNCHANGED <<client, up, bound, inSpeech>>
  PROVE  BrowserType' /\ Switches' /\ up' \in Seq(Frame)
<1>1. BrowserType' /\ up' \in Seq(Frame)
  BY DEF TypeOK, BrowserType, WireType, client
<1>2. Switches'
  BY Zenon DEF TypeOK, Switches, client
<1> QED BY <1>1, <1>2

LEMMA TurnSteps ==
  ASSUME TypeOK, NEW t \in Turns, Turn(t) \/ TimedOut(t) \/ Raises(t)
  PROVE  TypeOK'
<1> USE Turns1
<1>t. Switches /\ BrowserType /\ WireType /\ LoopType /\ TurnsType /\ SessionType /\ HistoryType
  BY DEF TypeOK
<1>b. {"new", "route", "bridge", "say", "listen", "speak", "last"} \subseteq Steps \ {"none"}
      /\ Bridged = {"listen", "speak", "last"}
  BY DEF Steps, Bridged
<1>i. task[t] \notin Bridged => inbox[t] = <<>>
  BY <1>t DEF TurnsType
<1>d. down' = down => down' \in Seq(Message)
  BY <1>t DEF WireType
<1>p. \A k, l \in {"delta", "start", "audio", "end"}, r \in Turns :
        down \o <<[kind |-> k, turn |-> t, of |-> r], [kind |-> l, turn |-> t, of |-> t]>>
          \in Seq(Message)
  <2> SUFFICES ASSUME NEW k \in {"delta", "start", "audio", "end"},
                      NEW l \in {"delta", "start", "audio", "end"}, NEW r \in Turns
               PROVE  down \o <<[kind |-> k, turn |-> t, of |-> r], [kind |-> l, turn |-> t, of |-> t]>>
                        \in Seq(Message)
    OBVIOUS
  <2>1. PICK a : a = [kind |-> k, turn |-> t, of |-> r]
    OBVIOUS
  <2>2. PICK b : b = [kind |-> l, turn |-> t, of |-> t]
    OBVIOUS
  <2>3. a \in Message
    BY <2>1 DEF Message
  <2>4. b \in Message
    BY <2>2 DEF Message
  <2>5. down \o <<a, b>> \in Seq(Message)
    BY <1>t, <2>3, <2>4, Pair DEF WireType
  <2> QED BY <2>1, <2>2, <2>5
<1>1. ASSUME Start(t) PROVE TypeOK'
  <2>1. task[t] = "new" /\ Goto(t, "route") /\ inbox[t] = <<>>
    BY <1>1, <1>b, <1>i DEF Start, At
  <2>2. UNCHANGED <<client, up, server, inbox, buffer, session, history, spent>>
    BY <1>1 DEF Start
  <2>3. LoopType' /\ TurnsType'
    BY <2>1, <2>2, <1>b, Gone DEF server
  <2>4. Say("start", t, t) \/ down' = down
    BY <1>1, Zenon DEF Start
  <2>5. down' \in Seq(Message)
    BY <2>4, <1>d, <1>t, Said
  <2>6. SessionType' /\ HistoryType'
    BY <2>2, <1>t DEF SessionType, HistoryType, session, history
  <2> QED BY <2>2, <2>3, <2>5, <2>6, ClientKept DEF TypeOK, WireType, server
<1>2. ASSUME Routed(t) PROVE TypeOK'
  <2>1. task[t] = "route" /\ inbox[t] = <<>>
    BY <1>2, <1>b, <1>i DEF Routed, At
  <2>2. UNCHANGED <<client, up, down, bound, loop, inSpeech, turn, inbox, buffer, lines, history, spent>>
    BY <1>2 DEF Routed
  <2>3. \/ Goto(t, "none") /\ cancelled' = cancelled \ {t}
        \/ Goto(t, "bridge") /\ cancelled' = cancelled
    BY <1>2, Zenon DEF Routed
  <2>4. ASSUME Goto(t, "bridge"), cancelled' = cancelled PROVE LoopType' /\ TurnsType'
    BY <2>4, <2>1, <2>2, <1>b, Gone
  <2>5. ASSUME Goto(t, "none"), cancelled' = cancelled \ {t} PROVE LoopType' /\ TurnsType'
    <3>1. task' \in [Turns -> Steps] /\ task'[t] = "none" /\ \A u \in Turns : u # t => task'[u] = task[u]
      BY <2>5, <1>t DEF Goto, TurnsType, Steps
    <3>2. TurnsType'
      BY <3>1, <2>1, <2>2, <1>t DEF TurnsType
    <3>3. LoopType'
      BY <3>1, <2>5, <2>2, <1>t DEF LoopType
    <3> QED BY <3>2, <3>3
  <2>6. LoopType' /\ TurnsType'
    BY <2>3, <2>4, <2>5
  <2>7. SessionType'
    BY <1>2, <1>t, Appended DEF Routed, SessionType
  <2>8. HistoryType' /\ down' \in Seq(Message)
    BY <2>2, <1>t, <1>d DEF HistoryType, history
  <2> QED BY <2>2, <2>6, <2>7, <2>8, ClientKept DEF TypeOK, WireType
<1>3. ASSUME Subscribe(t) PROVE TypeOK'
  <2>1. task[t] = "bridge" /\ Goto(t, "listen") /\ inbox[t] = <<>>
    BY <1>3, <1>b, <1>i DEF Subscribe, At
  <2>2. UNCHANGED <<client, up, down, server, inbox, buffer, session, history, spent>>
    BY <1>3 DEF Subscribe
  <2>3. LoopType' /\ TurnsType'
    BY <2>1, <2>2, <1>b, Gone DEF server
  <2>4. SessionType' /\ HistoryType' /\ down' \in Seq(Message)
    BY <2>2, <1>t, <1>d DEF SessionType, HistoryType, session, history
  <2> QED BY <2>2, <2>3, <2>4, ClientKept DEF TypeOK, WireType, server
<1>4. ASSUME HearLine(t) PROVE TypeOK'
  <2>1. task[t] = "listen" /\ inbox[t] # <<>> /\ inbox[t] \in Seq(Event) /\ Len(inbox[t]) <= QueueMax
    BY <1>4, <1>t DEF HearLine, At, TurnsType
  <2>2. UNCHANGED <<client, up, down, server, session, history, spent>>
        /\ inbox' = [inbox EXCEPT ![t] = Tail(inbox[t])]
    BY <1>4 DEF HearLine
  <2>3. /\ Head(inbox[t]) \in Event /\ Tail(inbox[t]) \in Seq(Event)
        /\ Len(Tail(inbox[t])) <= QueueMax
    BY <2>1, Shortened, VoiceAssumption
  <2>4. /\ inbox' \in [Turns -> Seq(Event)] /\ Len(inbox'[t]) <= QueueMax
        /\ \A u \in Turns : u # t => inbox'[u] = inbox[u]
    BY <2>2, <2>3, <1>t DEF TurnsType
  <2>5. Head(inbox[t]).of \in Turns
    BY <2>3 DEF Event
  <2>6. \/ UNCHANGED <<task, buffer>>
        \/ /\ buffer' = [buffer EXCEPT ![t] = Head(inbox[t]).of]
           /\ task' \in {task, [task EXCEPT ![t] = "speak"]}
    BY <1>4, Zenon DEF HearLine
  <2> DEFINE Moved ==
        /\ task' \in [Turns -> Steps] /\ buffer' \in [Turns -> 0..MaxTurns]
        /\ \A u \in Turns : u # t => task'[u] = task[u] /\ buffer'[u] = buffer[u]
        /\ task'[t] \in {"listen", "speak"}
        /\ task'[t] = "speak" => buffer'[t] # 0
  <2>7. Moved
    <3>1. CASE UNCHANGED <<task, buffer>>
      BY <3>1, <2>1, <1>t DEF TurnsType
    <3>2. ASSUME buffer' = [buffer EXCEPT ![t] = Head(inbox[t]).of], task' = task
          PROVE  Moved
      BY <3>2, <2>1, <2>5, <1>t DEF TurnsType
    <3>3. ASSUME buffer' = [buffer EXCEPT ![t] = Head(inbox[t]).of],
                 task' = [task EXCEPT ![t] = "speak"]
          PROVE  Moved
      BY <3>3, <2>1, <2>5, <1>t, <1>b DEF TurnsType
    <3> QED BY <2>6, <3>1, <3>2, <3>3
  <2>8. t <= turn /\ (inSpeech => t # turn) /\ (loop = "stt" => t # turn)
    BY <2>1, <1>t, RunningTurn
  <2>9. TurnsType'
    <3>1. ASSUME NEW u \in Turns
          PROVE  /\ task'[u] # "none" => u <= turn
                 /\ Len(inbox'[u]) <= QueueMax
                 /\ inbox'[u] # <<>> => task'[u] \in Bridged
                 /\ task'[u] \in {"speak", "last"} => buffer'[u] # 0
      <4>1. CASE u = t
        BY <4>1, <2>4, <2>7, <2>8, <1>b
      <4>2. CASE u # t
        BY <4>2, <2>4, <2>7, <1>t DEF TurnsType
      <4> QED BY <4>1, <4>2
    <3> QED BY <3>1, <2>2, <2>4, <2>7 DEF TurnsType, server
  <2>10. LoopType'
    BY <2>2, <2>7, <2>8, <1>t DEF LoopType, server
  <2>11. SessionType' /\ HistoryType' /\ down' \in Seq(Message)
    BY <2>2, <1>t, <1>d DEF SessionType, HistoryType, session, history
  <2> QED BY <2>2, <2>9, <2>10, <2>11, ClientKept DEF TypeOK, WireType, server
<1>5. ASSUME Spoken(t) PROVE TypeOK'
  <2>1. task[t] = "speak" /\ buffer[t] \in Turns
    BY <1>5, <1>t DEF Spoken, At, TurnsType
  <2>2. UNCHANGED <<client, up, server, inbox, session, history, spent>>
        /\ Goto(t, "listen") /\ buffer' = [buffer EXCEPT ![t] = 0]
    BY <1>5 DEF Spoken
  <2>3. /\ task' \in [Turns -> Steps] /\ task'[t] = "listen"
        /\ buffer' \in [Turns -> 0..MaxTurns]
        /\ \A u \in Turns : u # t => task'[u] = task[u] /\ buffer'[u] = buffer[u]
    BY <2>2, <1>t, <1>b DEF Goto, TurnsType
  <2>4. t <= turn /\ (inSpeech => t # turn) /\ (loop = "stt" => t # turn)
    BY <2>1, <1>t, RunningTurn
  <2>5. TurnsType'
    BY <2>2, <2>3, <2>4, <1>t, <1>b DEF TurnsType, server
  <2>6. LoopType'
    BY <2>2, <2>3, <2>4, <1>t DEF LoopType, server
  <2>7. Say("audio", t, buffer[t]) \/ down' = down
    BY <1>5, Zenon DEF Spoken
  <2>8. down' \in Seq(Message)
    BY <2>1, <2>7, <1>d, <1>t, Said
  <2>9. SessionType' /\ HistoryType'
    BY <2>2, <1>t DEF SessionType, HistoryType, session, history
  <2> QED BY <2>2, <2>5, <2>6, <2>8, <2>9, ClientKept DEF TypeOK, WireType, server
<1>l. ASSUME Leave(t), task[t] # "none", down' \in Seq(Message),
             failed' \subseteq failed \cup {t}, spent' \in [calls : 1..MaxCalls, speech : 0..MaxTurns,
                                             cancels : 0..MaxCancels, faults : 0..MaxFaults]
      PROVE  TypeOK'
  <2>1. /\ Switches' /\ BrowserType' /\ LoopType' /\ TurnsType' /\ SessionType'
        /\ UNCHANGED <<up, stopped, opened>>
    BY <1>l, Left
  <2>2. HistoryType' /\ WireType'
    BY <2>1, <1>l, <1>t DEF HistoryType, WireType
  <2> QED BY <2>1, <2>2 DEF TypeOK
<1>s. UNCHANGED spent => spent' \in [calls : 1..MaxCalls, speech : 0..MaxTurns,
                                     cancels : 0..MaxCancels, faults : 0..MaxFaults]
  BY <1>t DEF HistoryType
<1>6. ASSUME HearDone(t) PROVE TypeOK'
  <2>1. task[t] = "listen" /\ inbox[t] # <<>> /\ inbox[t] \in Seq(Event) /\ Len(inbox[t]) <= QueueMax
        /\ UNCHANGED <<failed, spent>>
    BY <1>6, <1>t DEF HearDone, At, TurnsType
  <2>2. CASE ~Halted(t) /\ buffer[t] # 0
    <3>1. /\ Goto(t, "last") /\ inbox' = [inbox EXCEPT ![t] = Tail(inbox[t])]
          /\ UNCHANGED <<client, up, down, server, buffer, session, stopped, opened>>
      BY <1>6, <2>2 DEF HearDone
    <3>2. Tail(inbox[t]) \in Seq(Event) /\ Len(Tail(inbox[t])) <= QueueMax
      BY <2>1, Shortened, VoiceAssumption
    <3>3. /\ inbox' \in [Turns -> Seq(Event)] /\ Len(inbox'[t]) <= QueueMax
          /\ \A u \in Turns : u # t => inbox'[u] = inbox[u]
      BY <3>1, <3>2, <1>t DEF TurnsType
    <3>4. /\ task' \in [Turns -> Steps] /\ task'[t] = "last"
          /\ \A u \in Turns : u # t => task'[u] = task[u]
      BY <3>1, <1>t, <1>b DEF Goto, TurnsType
    <3>5. t <= turn /\ (inSpeech => t # turn) /\ (loop = "stt" => t # turn)
      BY <2>1, <1>t, RunningTurn
    <3>6. TurnsType'
      <4>1. ASSUME NEW u \in Turns
            PROVE  /\ task'[u] # "none" => u <= turn
                   /\ Len(inbox'[u]) <= QueueMax
                   /\ inbox'[u] # <<>> => task'[u] \in Bridged
                   /\ task'[u] \in {"speak", "last"} => buffer[u] # 0
        <5>1. CASE u = t
          BY <5>1, <3>3, <3>4, <3>5, <2>2, <1>b
        <5>2. CASE u # t
          BY <5>2, <3>3, <3>4, <1>t DEF TurnsType
        <5> QED BY <5>1, <5>2
      <4> QED BY <4>1, <3>1, <3>3, <3>4, <1>t DEF TurnsType, server
    <3>7. LoopType'
      BY <3>1, <3>4, <3>5, <1>t DEF LoopType, server
    <3>8. SessionType' /\ HistoryType' /\ down' \in Seq(Message)
      BY <3>1, <2>1, <1>t, <1>d DEF SessionType, HistoryType, session
    <3> QED BY <3>1, <3>6, <3>7, <3>8, ClientKept DEF TypeOK, WireType, server
  <2>3. CASE ~(~Halted(t) /\ buffer[t] # 0)
    <3>1. Leave(t) /\ (down' = down \/ Say("end", t, t))
      BY <1>6, <2>3, Zenon DEF HearDone
    <3>2. down' \in Seq(Message)
      BY <3>1, <1>d, <1>t, Said
    <3> QED BY <3>1, <3>2, <2>1, <1>l, <1>s
  <2> QED BY <2>2, <2>3
<1>7. ASSUME LastSpoken(t) PROVE TypeOK'
  <2>1. Leave(t) /\ task[t] = "last" /\ UNCHANGED <<failed, spent>> /\ buffer[t] \in Turns
    BY <1>7, <1>t DEF LastSpoken, At, TurnsType
  <2>2. down' \in Seq(Message)
    BY <1>7, <2>1, <1>d, <1>p DEF LastSpoken
  <2> QED BY <2>1, <2>2, <1>l, <1>s
<1>8. ASSUME Interrupted(t) PROVE TypeOK'
  BY <1>8, <1>d, <1>b, <1>l, <1>s DEF Interrupted, Waiting
<1>9. ASSUME TimedOut(t) PROVE TypeOK'
  BY <1>9, <1>t, <1>b, <1>l, <1>s, Said DEF TimedOut, Waiting, Ending
<1>10. ASSUME Answered(t) PROVE TypeOK'
  <2>1. task[t] = "route" /\ UNCHANGED <<failed, spent>> /\ inbox[t] = <<>>
    BY <1>10, <1>b, <1>i DEF Answered, At
  <2>2. CASE Halted(t)
    BY <1>10, <2>1, <2>2, <1>d, <1>l, <1>s DEF Answered
  <2>3. CASE ~Halted(t)
    <3>1. /\ Goto(t, "say")
          /\ down' = down \o <<[kind |-> "delta", turn |-> t, of |-> t],
                               [kind |-> "start", turn |-> t, of |-> t]>>
          /\ UNCHANGED <<client, up, server, inbox, buffer, session, stopped, opened>>
      BY <1>10, <2>3 DEF Answered
    <3>2. down' \in Seq(Message)
      BY <3>1, <1>p
    <3>3. LoopType' /\ TurnsType'
      BY <2>1, <3>1, <1>b, Gone DEF server
    <3>4. SessionType' /\ HistoryType'
      BY <3>1, <2>1, <1>t DEF SessionType, HistoryType, session
    <3> QED BY <3>1, <3>2, <3>3, <3>4, ClientKept DEF TypeOK, WireType, server
  <2> QED BY <2>2, <2>3
<1>11. ASSUME SaidChunk(t) PROVE TypeOK'
  <2>1. Leave(t) /\ task[t] = "say" /\ UNCHANGED <<failed, spent>>
    BY <1>11 DEF SaidChunk, At
  <2>2. down' \in Seq(Message)
    BY <1>11, <1>d, <1>p DEF SaidChunk
  <2> QED BY <2>1, <2>2, <1>l, <1>s
<1>12. ASSUME Raises(t) PROVE TypeOK'
  <2>1. Leave(t) /\ task[t] # "none" /\ down' = down /\ failed' = failed \cup {t} /\ Fault
    BY <1>12, <1>b DEF Raises, At
  <2> QED BY <2>1, <1>d, <1>l, <1>t, Spending
<1> QED BY <1>1, <1>2, <1>3, <1>4, <1>5, <1>6, <1>7, <1>8, <1>9, <1>10, <1>11, <1>12 DEF Turn

-----------------------------------------------------------------------------
(* The session, and the types of every step. *)

LEMMA SessionSteps ==
  ASSUME TypeOK, Write \/ Finish
  PROVE  TypeOK'
<1> USE Turns1
<1>t. Switches /\ BrowserType /\ WireType /\ LoopType /\ TurnsType /\ SessionType /\ HistoryType
  BY DEF TypeOK
<1>1. asked \in Seq(Turns) /\ asked # <<>> /\ Head(asked) \in Turns /\ Tail(asked) \in Seq(Turns)
  BY <1>t, Shortened DEF Write, Finish, SessionType
<1>2. PICK k \in {"line", "done"} : FanOut([kind |-> k, of |-> Head(asked)])
  BY DEF Write, Finish
<1> DEFINE e == [kind |-> k, of |-> Head(asked)]
<1>3. e \in Event
  BY <1>1 DEF Event
<1>4. UNCHANGED <<client, up, down, server, task, buffer, history, spent>>
  BY DEF Write, Finish
<1>5. \A t \in Turns : Queued(inbox[t], e) \in Seq(Event) /\ Len(Queued(inbox[t], e)) <= QueueMax
  BY <1>3, <1>t, QueuedKeeps DEF TurnsType
<1> DEFINE Next_(t) == IF task[t] \in Bridged THEN Queued(inbox[t], e) ELSE inbox[t]
<1>6. inbox' = [t \in Turns |-> Next_(t)]
  BY <1>2, Zenon DEF FanOut
<1> HIDE DEF e
<1>7. \A t \in Turns : Next_(t) \in Seq(Event)
  BY <1>5, <1>t DEF TurnsType
<1>o. inbox' \in [Turns -> Seq(Event)] /\ \A t \in Turns : inbox'[t] = Next_(t)
  <2> HIDE DEF Next_
  <2> QED BY <1>6, <1>7
<1>8. \A t \in Turns : /\ inbox'[t] \in Seq(Event) /\ Len(inbox'[t]) <= QueueMax
                       /\ inbox'[t] # <<>> => task[t] \in Bridged
  BY <1>5, <1>o, <1>t DEF TurnsType
<1>10. TurnsType'
  BY <1>4, <1>8, <1>o, <1>t DEF TurnsType, server
<1>11. LoopType' /\ HistoryType' /\ down' \in Seq(Message)
  BY <1>4, <1>t DEF LoopType, HistoryType, WireType, server, history
<1>12. SessionType'
  <2>1. asked' \in Seq(Turns)
    BY <1>1 DEF Write, Finish
  <2>2. MaxLines \in Nat /\ lines \in 0..MaxLines
    BY <1>t, VoiceAssumption DEF SessionType
  <2>3. lines' = 0 \/ (lines < MaxLines /\ lines' = lines + 1)
    BY DEF Write, Finish
  <2> QED BY <2>1, <2>2, <2>3 DEF SessionType
<1> QED BY <1>4, <1>10, <1>11, <1>12, ClientKept DEF TypeOK, WireType, server

LEMMA StepType == TypeOK /\ [Next]_vars => TypeOK'
<1>1. ASSUME TypeOK, UNCHANGED vars PROVE TypeOK'
  <2>1. /\ Switches /\ BrowserType /\ WireType /\ LoopType /\ TurnsType /\ SessionType /\ HistoryType
        /\ UNCHANGED <<client, up, down, server, turns, session, history, spent>>
    BY <1>1 DEF TypeOK, vars
  <2>2. BrowserType' /\ Switches' /\ up' \in Seq(Frame)
    BY <1>1, <2>1, ClientKept DEF server
  <2>3. LoopType' /\ TurnsType' /\ SessionType'
    BY <1>1, <2>1, ServerKept
  <2>4. WireType' /\ HistoryType'
    BY <2>1, <2>2 DEF WireType, HistoryType, history
  <2> QED BY <2>2, <2>3, <2>4 DEF TypeOK
<1>2. ASSUME TypeOK, Next PROVE TypeOK'
  BY <1>2, BrowserSteps, DialStep, LoopSteps, TurnSteps, SessionSteps DEF Next
<1> QED BY <1>1, <1>2

\* In every state of the program each variable is of its type: the turn that is
\* spoken or transcribed has no task yet, only turns that were begun have one, the
\* broker's queues keep to queue_max_size, and what is to be spoken has a text.
THEOREM TypeCorrect == Spec => []TypeOK
BY InitType, StepType, PTL DEF Spec

-----------------------------------------------------------------------------
(* What the marks of the cancelled turns are worth. *)

\* Only the last turn may run unmarked, and none runs once the call is over.
OthersCancelled == \A t \in Turns : task[t] # "none" /\ t # turn => t \in cancelled
ClosedIsOver == loop = "closed" => \A t \in Turns : task[t] = "none"

\* A turn that was ever cancelled is a turn that was begun, stays marked until its
\* task is over, and is not transcribed.
CancelsPast == (\A i \in 1..Len(up) : up[i].turn <= turn) /\ \A t \in stopped : t <= turn
StoppedMarked == \A t \in stopped : task[t] # "none" \/ (inSpeech /\ t = turn) => t \in cancelled
NotHeard == loop = "stt" => turn \notin stopped

MarksStand == OthersCancelled /\ ClosedIsOver /\ CancelsPast /\ StoppedMarked /\ NotHeard
IInv == TypeOK /\ MarksStand

LEMMA InitMarks == Init => MarksStand
BY Turns1 DEF Init, MarksStand, OthersCancelled, ClosedIsOver, CancelsPast, StoppedMarked, NotHeard

\* A turn takes a step only while its task runs, and gives its mark up with it.
LEMMA TurnShape ==
  ASSUME TypeOK, NEW t \in Turns, Turn(t) \/ TimedOut(t) \/ Raises(t)
  PROVE  /\ task[t] # "none"
         /\ UNCHANGED <<up, loop, inSpeech, turn, stopped>>
         /\ \A u \in Turns : u # t => task'[u] = task[u]
         /\ \/ cancelled' = cancelled
            \/ task'[t] = "none" /\ cancelled' = cancelled \ {t}
<1>t. task \in [Turns -> Steps]
  BY DEF TypeOK, TurnsType
<1> DEFINE Shape == /\ UNCHANGED <<up, loop, inSpeech, turn, stopped>>
                    /\ \A u \in Turns : u # t => task'[u] = task[u]
                    /\ \/ cancelled' = cancelled
                       \/ task'[t] = "none" /\ cancelled' = cancelled \ {t}
<1>1. Leave(t) => Shape
  BY <1>t DEF Leave, Goto
<1>2. ASSUME NEW step, Goto(t, step), UNCHANGED <<up, server, stopped>> PROVE Shape
  BY <1>2, <1>t DEF Goto, server
<1>3. Start(t) => Shape
  BY <1>2 DEF Start, history
<1>4. Routed(t) => Shape
  BY <1>t DEF Routed, Goto, history
<1>5. Subscribe(t) => Shape
  BY <1>2 DEF Subscribe, history
<1>6. ASSUME HearLine(t) PROVE Shape
  <2>1. task' \in {task, [task EXCEPT ![t] = "speak"]} /\ UNCHANGED <<up, server, stopped>>
    BY <1>6 DEF HearLine, history
  <2> QED BY <2>1, <1>t DEF server
<1>7. Spoken(t) => Shape
  BY <1>2 DEF Spoken, history
<1>8. HearDone(t) => Shape
  BY <1>1, <1>2 DEF HearDone
<1>9. LastSpoken(t) \/ Interrupted(t) \/ TimedOut(t) \/ SaidChunk(t) \/ Raises(t) => Shape
  BY <1>1 DEF LastSpoken, Interrupted, TimedOut, SaidChunk, Raises
<1>10. Answered(t) => Shape
  BY <1>1, <1>2 DEF Answered
<1>11. Shape
  BY <1>3, <1>4, <1>5, <1>6, <1>7, <1>8, <1>9, <1>10 DEF Turn
<1>12. task[t] # "none"
  BY DEF Turn, Start, Routed, Subscribe, HearLine, Spoken, HearDone, LastSpoken, Interrupted,
         TimedOut, Answered, SaidChunk, Raises, At, Waiting, Bridged
<1> QED BY <1>11, <1>12

LEMMA StepMarks == IInv /\ [Next]_vars => MarksStand'
<1> SUFFICES ASSUME IInv, [Next]_vars PROVE MarksStand'
  OBVIOUS
<1> USE Turns1
<1>t. /\ Switches /\ BrowserType /\ WireType /\ LoopType /\ TurnsType /\ SessionType /\ HistoryType
      /\ TypeOK /\ up \in Seq(Frame) /\ turn \in 0..MaxTurns /\ task \in [Turns -> Steps]
      /\ \A t \in Turns : task[t] # "none" => t <= turn
  BY DEF IInv, TypeOK, WireType, LoopType, TurnsType
<1>m. OthersCancelled /\ ClosedIsOver /\ CancelsPast /\ StoppedMarked /\ NotHeard
  BY DEF IInv, MarksStand
<1>r. Running \subseteq Turns /\ \A t \in Turns : t \in Running <=> task[t] # "none"
  BY DEF Running
<1>a. ASSUME UNCHANGED <<loop, inSpeech, turn, cancelled, task, stopped>>,
             up' = up \/ \E k, t : Upload(k, t) /\ t \in 0..turn
      PROVE  MarksStand'
  <2>1. OthersCancelled' /\ ClosedIsOver' /\ StoppedMarked' /\ NotHeard'
    BY <1>a, <1>m DEF OthersCancelled, ClosedIsOver, StoppedMarked, NotHeard
  <2>2. CASE up' = up
    BY <2>1, <2>2, <1>a, <1>m DEF MarksStand, CancelsPast
  <2>3. CASE up' # up
    <3>1. PICK k, t : Upload(k, t) /\ t \in 0..turn
      BY <2>3, <1>a
    <3> DEFINE f == [kind |-> k, turn |-> t]
    <3>2. f.turn <= turn /\ up' = Append(up, f)
      BY <3>1, <1>t DEF Upload
    <3> HIDE DEF f
    <3>3. \A i \in 1..Len(up') : up'[i] = f \/ (i \in 1..Len(up) /\ up'[i] = up[i])
      BY <3>2, <1>t
    <3>4. CancelsPast'
      BY <3>2, <3>3, <1>a, <1>m DEF CancelsPast
    <3> QED BY <2>1, <3>4 DEF MarksStand
  <2> QED BY <2>2, <2>3
<1>b. ASSUME NEW kind, Takes(kind), turn' = turn \/ turn' = turn + 1,
             \A t \in stopped' : t <= turn'
      PROVE  /\ CancelsPast' /\ loop = "receive"
             /\ Head(up).turn <= turn
  <2>1. up # <<>> /\ up' = Tail(up) /\ loop = "receive"
    BY <1>b DEF Takes
  <2>2. /\ Len(up) \in Nat \ {0} /\ Len(up') = Len(up) - 1 /\ Head(up) = up[1]
        /\ \A i \in 1..Len(up) - 1 : up'[i] = up[i + 1]
    BY <2>1, <1>t, Shortened
  <2>3. \A i \in 1..Len(up) : up[i].turn <= turn /\ up[i].turn \in Nat
    BY <1>m, <1>t DEF CancelsPast, Frame
  <2>4. \A i \in 1..Len(up') : up'[i].turn <= turn /\ up'[i].turn \in Nat
    <3>1. ASSUME NEW i \in 1..Len(up') PROVE up'[i].turn <= turn /\ up'[i].turn \in Nat
      <4>1. i \in 1..Len(up) - 1 /\ i + 1 \in 1..Len(up)
        BY <2>2
      <4>2. up'[i] = up[i + 1]
        BY <2>2, <4>1
      <4> QED BY <2>3, <4>1, <4>2
    <3> QED BY <3>1
  <2>5. turn \in Nat /\ (turn' = turn \/ turn' = turn + 1)
    BY <1>b, <1>t
  <2>6. \A i \in 1..Len(up') : up'[i].turn <= turn'
    BY <2>4, <2>5
  <2> QED BY <1>b, <2>1, <2>2, <2>3, <2>6 DEF CancelsPast
<1>1. ASSUME Speak \/ Hush \/ HangUp PROVE MarksStand'
  <2>1. /\ UNCHANGED <<loop, inSpeech, turn, cancelled, task, stopped>>
        /\ \E k : Upload(k, 0)
    BY <1>1 DEF Speak, Hush, HangUp, server, turns, history
  <2> QED BY <2>1, <1>a, <1>t
<1>2. ASSUME Play \/ Cooldown \/ Write \/ Finish \/ UNCHANGED vars PROVE MarksStand'
  <2>1. UNCHANGED <<loop, inSpeech, turn, cancelled, task, stopped, up>>
    BY <1>2 DEF Play, Cooldown, Write, Finish, vars, server, turns, history
  <2> QED BY <2>1, <1>a
<1>3. ASSUME NEW t \in Turns, Cancel(t) PROVE MarksStand'
  <2>1. /\ UNCHANGED <<loop, inSpeech, turn, cancelled, task, stopped>>
        /\ Upload("cancel", t) /\ t \in 0..turn
    BY <1>3, <1>t DEF Cancel, server, turns, history
  <2> QED BY <2>1, <1>a
<1>4. ASSUME Dial PROVE MarksStand'
  <2>1. /\ \A t \in Turns : task[t] = "none"
        /\ UNCHANGED <<up, turn, task, stopped>> /\ loop' = "receive"
    BY <1>4, <1>m DEF Dial, ClosedIsOver, turns
  <2>2. ~inSpeech'
    BY <1>4, Zenon DEF Dial
  <2>3. \A t \in stopped : t \in Turns
    BY <1>t DEF HistoryType
  <2>4. OthersCancelled' /\ ClosedIsOver' /\ NotHeard' /\ CancelsPast'
    BY <2>1, <1>m DEF OthersCancelled, ClosedIsOver, NotHeard, CancelsPast
  <2>5. StoppedMarked'
    BY <2>1, <2>2, <2>3 DEF StoppedMarked
  <2> QED BY <2>4, <2>5 DEF MarksStand
<1>5. ASSUME ReceiveSpeech PROVE MarksStand'
  <2>1. Takes("speech") /\ UNCHANGED <<loop, task>>
    BY <1>5 DEF ReceiveSpeech, turns
  <2>2. CASE inSpeech
    <3>1. UNCHANGED <<inSpeech, turn, cancelled, stopped>>
      BY <1>5, <2>2, Zenon DEF ReceiveSpeech
    <3>2. CancelsPast' /\ loop = "receive"
      BY <2>1, <3>1, <1>m, <1>b DEF CancelsPast
    <3> QED BY <2>1, <3>1, <3>2, <1>m DEF MarksStand, OthersCancelled, ClosedIsOver, StoppedMarked, NotHeard
  <2>3. CASE ~inSpeech
    <3>1. /\ turn < MaxTurns /\ inSpeech' /\ turn' = turn + 1
          /\ cancelled' = cancelled \cup Overtaken /\ stopped' = stopped \cup Overtaken
      BY <1>5, <2>3, Zenon DEF ReceiveSpeech, MarkCancelled
    <3>2. Overtaken = {turn} \cap Running /\ turn \in Nat /\ turn' \notin stopped
      BY <3>1, <1>t, <1>m DEF Overtaken, CancelsPast
    <3>3. \A t \in stopped : t \in Nat /\ t <= turn
      BY <1>t, <1>m DEF HistoryType, CancelsPast
    <3>4. \A t \in stopped' : t <= turn' /\ t # turn'
      BY <3>1, <3>2, <3>3
    <3>5. CancelsPast' /\ loop = "receive"
      BY <2>1, <3>1, <3>4, <1>b
    <3>6. OthersCancelled'
      BY <2>1, <3>1, <3>2, <1>m, <1>r DEF OthersCancelled
    <3>7. ClosedIsOver' /\ NotHeard'
      BY <2>1, <3>5 DEF ClosedIsOver, NotHeard
    <3>8. StoppedMarked'
      BY <2>1, <3>1, <3>2, <3>4, <1>m DEF StoppedMarked
    <3> QED BY <3>5, <3>6, <3>7, <3>8 DEF MarksStand
  <2> QED BY <2>2, <2>3
<1>6. ASSUME ReceiveSilence PROVE MarksStand'
  <2>1. Takes("silence") /\ UNCHANGED <<task, turn, stopped>>
    BY <1>6 DEF ReceiveSilence, turns, history
  <2>2. /\ ~inSpeech' /\ cancelled' \in {cancelled, cancelled \ {turn}}
        /\ (cancelled' # cancelled => inSpeech)
        /\ loop' \in {"stt", loop} /\ (loop' = "stt" /\ loop # "stt" => inSpeech /\ turn \notin cancelled)
    BY <1>6, Zenon DEF ReceiveSilence
  <2>3. CancelsPast' /\ loop = "receive"
    BY <2>1, <1>m, <1>b DEF CancelsPast
  <2>4. inSpeech => turn \in Turns /\ task[turn] = "none"
    BY <1>t DEF LoopType
  <2>5. OthersCancelled' /\ ClosedIsOver'
    BY <2>1, <2>2, <2>3, <1>m DEF OthersCancelled, ClosedIsOver
  <2>6. StoppedMarked'
    BY <2>1, <2>2, <2>4, <1>m DEF StoppedMarked
  <2>7. NotHeard'
    BY <2>1, <2>2, <2>3, <2>4, <1>m DEF NotHeard, StoppedMarked
  <2> QED BY <2>3, <2>5, <2>6, <2>7 DEF MarksStand
<1>7. ASSUME ReceiveCancel PROVE MarksStand'
  <2> DEFINE c == Head(up).turn
  <2>1. /\ Takes("cancel") /\ UNCHANGED <<task, turn, loop, inSpeech>>
        /\ cancelled' = cancelled \cup {c} /\ stopped' = stopped \cup {c}
    BY <1>7 DEF ReceiveCancel, MarkCancelled, turns
  <2>2. c <= turn
    <3>1. up # <<>> /\ Len(up) \in Nat \ {0} /\ Head(up) = up[1]
      BY <2>1, <1>t, Shortened DEF Takes
    <3> QED BY <3>1, <1>m DEF CancelsPast
  <2> HIDE DEF c
  <2>3. CancelsPast' /\ loop = "receive"
    BY <2>1, <2>2, <1>m, <1>b DEF CancelsPast
  <2> QED BY <2>1, <2>3, <1>m DEF MarksStand, OthersCancelled, ClosedIsOver, StoppedMarked, NotHeard
<1>8. ASSUME ReceiveBye PROVE MarksStand'
  <2>1. /\ Takes("bye") /\ UNCHANGED <<task, turn, inSpeech>> /\ loop' = "closing"
        /\ cancelled' = cancelled \cup Running /\ stopped' = stopped \cup Running
    BY <1>8 DEF ReceiveBye, MarkCancelled, turns
  <2>2. \A t \in stopped' : t <= turn
    BY <2>1, <1>m, <1>r, <1>t DEF CancelsPast
  <2>3. CancelsPast'
    BY <2>1, <2>2, <1>b
  <2> QED BY <2>1, <2>3, <1>m DEF MarksStand, OthersCancelled, ClosedIsOver, StoppedMarked, NotHeard
<1>9. ASSUME TranscriptionFails PROVE MarksStand'
  <2>1. /\ UNCHANGED <<task, turn, inSpeech, up>> /\ loop' = "closing"
        /\ cancelled' = cancelled \cup Running /\ stopped' = stopped \cup Running
    BY <1>9 DEF TranscriptionFails, MarkCancelled, turns
  <2>2. CancelsPast'
    BY <2>1, <1>m, <1>r, <1>t DEF CancelsPast
  <2> QED BY <2>1, <2>2, <1>m DEF MarksStand, OthersCancelled, ClosedIsOver, StoppedMarked, NotHeard
<1>10. ASSUME Transcribed PROVE MarksStand'
  <2>1. /\ UNCHANGED <<turn, inSpeech, up, cancelled, stopped>> /\ loop = "stt" /\ loop' = "receive"
        /\ task' = [task EXCEPT ![turn] = "new"]
    BY <1>10 DEF Transcribed, history
  <2>2. \A u \in Turns : u # turn => task'[u] = task[u]
    BY <2>1, <1>t
  <2>3. CancelsPast' /\ OthersCancelled'
    BY <2>1, <2>2, <1>m DEF CancelsPast, OthersCancelled
  <2>4. \A u \in stopped : u \in Turns /\ u # turn
    BY <2>1, <1>m, <1>t DEF NotHeard, HistoryType
  <2> QED BY <2>1, <2>2, <2>3, <2>4, <1>m DEF MarksStand, ClosedIsOver, StoppedMarked, NotHeard
<1>11. ASSUME Close PROVE MarksStand'
  <2>1. /\ UNCHANGED <<turn, inSpeech, cancelled, stopped, task>> /\ up' = <<>>
        /\ Running = {} /\ loop' = "closed"
    BY <1>11 DEF Close, turns, history
  <2>2. CancelsPast'
    BY <2>1, <1>m DEF CancelsPast
  <2> QED BY <2>1, <2>2, <1>m, <1>r DEF MarksStand, OthersCancelled, ClosedIsOver, StoppedMarked, NotHeard
<1>12. ASSUME NEW t \in Turns, Turn(t) \/ TimedOut(t) \/ Raises(t) PROVE MarksStand'
  <2>1. /\ task[t] # "none"
        /\ UNCHANGED <<up, loop, inSpeech, turn, stopped>>
        /\ \A u \in Turns : u # t => task'[u] = task[u]
        /\ \/ cancelled' = cancelled
           \/ task'[t] = "none" /\ cancelled' = cancelled \ {t}
    BY <1>12, <1>t, TurnShape
  <2>2. (inSpeech => t # turn) /\ \A u \in stopped : u \in Turns
    BY <2>1, <1>t, RunningTurn DEF HistoryType
  <2>3. OthersCancelled' /\ ClosedIsOver' /\ NotHeard' /\ CancelsPast'
    BY <2>1, <1>m DEF OthersCancelled, ClosedIsOver, NotHeard, CancelsPast
  <2>4. StoppedMarked'
    BY <2>1, <2>2, <1>m DEF StoppedMarked
  <2> QED BY <2>3, <2>4 DEF MarksStand
<1> QED BY <1>1, <1>2, <1>3, <1>4, <1>5, <1>6, <1>7, <1>8, <1>9, <1>10, <1>11, <1>12 DEF Next, Receive

LEMMA Inductive == Spec => []IInv
<1>1. Init => IInv
  BY InitType, InitMarks DEF IInv
<1>2. IInv /\ [Next]_vars => IInv'
  BY StepType, StepMarks DEF IInv
<1> QED BY <1>1, <1>2, PTL DEF Spec

\* Whatever the order in which the user speaks, cancels, hangs up and dials again and
\* the tasks of the turns move, at most one task runs that was not told to stop: a
\* new utterance marks the turn before it, and every earlier one was marked then.
THEOREM OneTurnRuns == Spec => []OneAtATime
<1>1. IInv => OneAtATime
  <2> SUFFICES ASSUME IInv PROVE OneAtATime
    OBVIOUS
  <2>1. Running \ cancelled \subseteq {turn}
    BY DEF IInv, MarksStand, OthersCancelled, Running
  <2>2. IsFiniteSet({turn}) /\ Cardinality({turn}) = 1
    BY FS_Singleton
  <2>3. Cardinality(Running \ cancelled) <= 1
    BY <2>1, <2>2, FS_Subset
  <2> QED BY <2>3 DEF OneAtATime
<1> QED BY <1>1, Inductive, PTL

-----------------------------------------------------------------------------
(* What a step sends. *)

LEMMA NothingNew ==
  ASSUME TypeOK, down' = down \/ down' = <<>> \/ (down # <<>> /\ down' = Tail(down))
  PROVE  NewMessages = {}
<1>1. down \in Seq(Message)
  BY DEF TypeOK, WireType
<1>2. Len(down') <= Len(down)
  <2>1. CASE down # <<>> /\ down' = Tail(down)
    BY <2>1, <1>1, Shortened
  <2>2. CASE down' = down \/ down' = <<>>
    BY <2>2, <1>1
  <2> QED BY <2>1, <2>2
<1> QED BY <1>2 DEF NewMessages

LEMMA OneNew ==
  ASSUME TypeOK, NEW m \in Message, down' = Append(down, m)
  PROVE  NewMessages = {m}
<1>1. down \in Seq(Message)
  BY DEF TypeOK, WireType
<1>2. Len(down) \in Nat /\ Len(down') = Len(down) + 1 /\ down'[Len(down) + 1] = m
  BY <1>1, Appended
<1>3. \A i \in Len(down) + 1..Len(down') : i = Len(down) + 1
  BY <1>2
<1> QED BY <1>2, <1>3 DEF NewMessages

LEMMA TwoNew ==
  ASSUME TypeOK, NEW m \in Message, NEW n \in Message, down' = down \o <<m, n>>
  PROVE  NewMessages \subseteq {m, n}
<1>1. down \in Seq(Message)
  BY DEF TypeOK, WireType
<1>2. /\ Len(down) \in Nat /\ Len(down') = Len(down) + 2
      /\ down'[Len(down) + 1] = m /\ down'[Len(down) + 2] = n
  BY <1>1, Pair
<1>3. \A i \in Len(down) + 1..Len(down') : i = Len(down) + 1 \/ i = Len(down) + 2
  BY <1>2
<1> QED BY <1>2, <1>3 DEF NewMessages

\* A step of a turn that is marked sends none of its text, its sound or its end.
LEMMA TurnSays ==
  ASSUME TypeOK, NEW t \in Turns, Turn(t) \/ TimedOut(t) \/ Raises(t)
  PROVE  \A m \in NewMessages : m.kind \in {"delta", "audio", "end"} => m.turn = t /\ t \notin cancelled
<1> DEFINE Quiet == \A m \in NewMessages :
                      m.kind \in {"delta", "audio", "end"} => m.turn = t /\ t \notin cancelled
           Msg(k, r) == [kind |-> k, turn |-> t, of |-> r]
<1>b. WireType /\ buffer \in [Turns -> 0..MaxTurns] /\ (task[t] \in {"speak", "last"} => buffer[t] \in Turns)
  BY Turns1 DEF TypeOK, TurnsType
<1>0. ASSUME down' = down PROVE Quiet
  BY <1>0, NothingNew
<1>m. ASSUME NEW k \in {"delta", "start", "audio", "end"}, NEW r \in Turns
      PROVE  Msg(k, r) \in Message /\ Msg(k, r).turn = t /\ Msg(k, r).kind = k
  BY <1>m, <1>b, Said
<1>n. ASSUME NEW k \in {"start", "audio", "end"}, NEW r \in Turns, Say(k, t, r),
             k = "start" \/ t \notin cancelled
      PROVE  Quiet
  <2>1. NewMessages = {Msg(k, r)}
    BY <1>n, <1>m, OneNew DEF Say
  <2> QED BY <2>1, <1>n, <1>m
<1>p. ASSUME NEW k \in {"delta", "start", "audio", "end"}, NEW r \in Turns,
             NEW l \in {"delta", "start", "audio", "end"},
             down' = down \o <<Msg(k, r), Msg(l, t)>>, t \notin cancelled
      PROVE  Quiet
  <2>1. NewMessages \subseteq {Msg(k, r), Msg(l, t)}
    BY <1>p, <1>m, TwoNew
  <2> QED BY <2>1, <1>p, <1>m
<1>1. ASSUME Routed(t) \/ Subscribe(t) \/ HearLine(t) \/ Interrupted(t) \/ Raises(t) PROVE Quiet
  BY <1>1, <1>0 DEF Routed, Subscribe, HearLine, Interrupted, Raises
<1>2. ASSUME Start(t) PROVE Quiet
  <2>1. Say("start", t, t) \/ down' = down
    BY <1>2, Zenon DEF Start
  <2> QED BY <2>1, <1>0, <1>n
<1>3. ASSUME Spoken(t) PROVE Quiet
  <2>1. buffer[t] \in Turns
    BY <1>3, <1>b DEF Spoken, At
  <2>2. (Say("audio", t, buffer[t]) /\ t \notin cancelled) \/ down' = down
    BY <1>3, Zenon DEF Spoken, Audible, Halted
  <2> QED BY <2>1, <2>2, <1>0, <1>n
<1>4. ASSUME HearDone(t) PROVE Quiet
  <2>1. (Say("end", t, t) /\ t \notin cancelled) \/ down' = down
    BY <1>4, Zenon DEF HearDone, Halted
  <2> QED BY <2>1, <1>0, <1>n
<1>5. ASSUME LastSpoken(t) PROVE Quiet
  <2>1. buffer[t] \in Turns
    BY <1>5, <1>b DEF LastSpoken, At
  <2>2. \/ down' = down \o <<Msg("audio", buffer[t]), Msg("end", t)>> /\ t \notin cancelled
        \/ down' = down
    BY <1>5 DEF LastSpoken, Halted
  <2> HIDE DEF Msg, Quiet
  <2> QED BY <2>1, <2>2, <1>0, <1>p
<1>6. ASSUME TimedOut(t) PROVE Quiet
  BY <1>6, <1>n DEF TimedOut, Ending, Halted
<1>7. ASSUME Answered(t) PROVE Quiet
  <2>1. \/ down' = down \o <<Msg("delta", t), Msg("start", t)>> /\ t \notin cancelled
        \/ down' = down
    BY <1>7 DEF Answered, Halted
  <2> HIDE DEF Msg, Quiet
  <2> QED BY <2>1, <1>0, <1>p
<1>8. ASSUME SaidChunk(t) PROVE Quiet
  <2>1. \/ down' = down \o <<Msg("audio", t), Msg("end", t)>> /\ t \notin cancelled
        \/ down' = down
    BY <1>8 DEF SaidChunk, Halted
  <2> HIDE DEF Msg, Quiet
  <2> QED BY <2>1, <1>0, <1>p
<1> QED BY <1>1, <1>2, <1>3, <1>4, <1>5, <1>6, <1>7, <1>8 DEF Turn

\* Once a turn was cancelled, by the user, by a new utterance or by the end of the
\* call, none of its text, its sound or its end is sent, though its task was waiting
\* for a synthesis or for the session: the mark stays until the task is over, and
\* a turn whose mark is taken back is never transcribed.
THEOREM CancelledIsSilent == Spec => SilentOnceCancelled
<1> DEFINE Silent == \A m \in NewMessages : m.kind \in {"delta", "audio", "end"} => m.turn \notin stopped
<1>1. ASSUME IInv, [Next]_vars PROVE Silent
  <2>t. TypeOK /\ StoppedMarked
    BY <1>1 DEF IInv, MarksStand
  <2>1. ASSUME Speak \/ Hush \/ HangUp \/ Dial \/ Play \/ Write \/ Finish \/ Cooldown \/ UNCHANGED vars
               \/ ReceiveSpeech \/ ReceiveSilence \/ ReceiveCancel \/ ReceiveBye \/ Close
               \/ TranscriptionFails \/ \E t \in Turns : Cancel(t)
        PROVE  Silent
    <3>1. down' = down \/ down' = <<>> \/ (down # <<>> /\ down' = Tail(down))
      BY <2>1 DEF Speak, Hush, HangUp, Dial, Play, Write, Finish, Cooldown, vars, ReceiveSpeech,
             ReceiveSilence, ReceiveCancel, ReceiveBye, Close, TranscriptionFails, Cancel
    <3> QED BY <3>1, <2>t, NothingNew
  <2>2. ASSUME Transcribed PROVE Silent
    <3>1. turn \in Turns
      BY <2>2, <2>t, Turns1 DEF Transcribed, TypeOK, LoopType
    <3> DEFINE m == [kind |-> "transcript", turn |-> turn, of |-> turn]
    <3>2. m \in Message /\ m.kind = "transcript"
      BY <3>1 DEF Message
    <3>3. down' = Append(down, m)
      BY <2>2 DEF Transcribed, Say
    <3> HIDE DEF m
    <3>4. NewMessages = {m}
      BY <3>2, <3>3, <2>t, OneNew
    <3> QED BY <3>2, <3>4
  <2>3. ASSUME NEW t \in Turns, Turn(t) \/ TimedOut(t) \/ Raises(t) PROVE Silent
    <3>1. \A m \in NewMessages : m.kind \in {"delta", "audio", "end"} => m.turn = t /\ t \notin cancelled
      BY <2>3, <2>t, TurnSays
    <3>2. task[t] # "none"
      BY <2>3, <2>t, TurnShape
    <3>3. t \in stopped => t \in cancelled
      BY <3>2, <2>t DEF StoppedMarked
    <3> QED BY <3>1, <3>3
  <2> QED BY <1>1, <2>1, <2>2, <2>3 DEF Next, Receive
<1>2. IInv /\ [Next]_vars => [Silent]_vars
  BY <1>1
<1> QED BY <1>2, Inductive, PTL DEF Spec, SilentOnceCancelled
=============================================================================
