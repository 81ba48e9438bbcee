--------------------------- MODULE SpokenQuestions ---------------------------
(***************************************************************************)
(* What JARVIS says of the sessions, and the answers that it listens to.   *)
(*                                                                         *)
(* For what a session asks or has done, the worker starts a task: it looks *)
(* at the mode of the session, has a summary made and spoken, and          *)
(* publishes the sound.  The page of the user plays summaries (twice) and  *)
(* questions from one queue.  A question is one at a time: when it has     *)
(* been played the microphone opens for six seconds, or waits for the      *)
(* window to be in front, and what was recorded is sent to the session.    *)
(* The same recorder serves the button of the page with which the user     *)
(* speaks to the session on it.  Recordings and calls silence the queue.   *)
(*                                                                         *)
(* Any step of a task may fail, or find that the same was said lately: it  *)
(* then says nothing.  The browser has been touched and so may play.       *)
(***************************************************************************)
EXTENDS Naturals, Sequences

CONSTANTS
  Sessions,
  Nowhere,
  MaxNotices,  \* tasks of the worker
  MaxActs,     \* acts of the user
  MaxFaults    \* lists of sessions that fail, microphones that are refused

VARIABLES
  mode,      \* jarvis and jarvis_mode of each session
  everywhere, \* jarvis_all and jarvis_full_all of the settings
  notices,   \* the tasks of the worker
  frames,    \* what was published and has not come yet
  audio,     \* the clips to play, the one that plays, whether it is the second time
  muters,    \* suppressionReasons
  choice,    \* the questions that wait, the active one, its session, and listening
  lists,     \* the questions for which the list of sessions was asked
  mic,       \* the recorder, and whether nobody waits for it any more
  ending,    \* who has stopped the recorder and waits for the recording
  window,    \* whether it is in front, the session on it, whether by its name
  call,      \* whether a call goes on
  cut,       \* whether the active question was cut off
  spent

worker == <<mode, everywhere, notices>>
vars == <<worker, frames, audio, muters, choice, lists, mic, ending, window, call,
          cut, spent>>

Modes == {"off", "speaker", "full"}
Places == Sessions \cup {Nowhere}
Kinds == {"summary", "choice", "open", "reask", "confirm"}
Frames == [n : 1..MaxNotices, question : BOOLEAN, session : Sessions]
Silence == [n |-> 0, question |-> FALSE, session |-> Nowhere]
NoTask == [at |-> "over", kind |-> "summary", session |-> Nowhere]

TypeOK ==
  /\ mode \in [Sessions -> [jarvis : BOOLEAN, jarvis_mode : Modes]]
  /\ everywhere \in [all : BOOLEAN, full : BOOLEAN]
  /\ notices \in [1..MaxNotices ->
                   [at : {"gate", "voice", "over"}, kind : Kinds \cup {"question"},
                    session : Places]]
  /\ frames \in Seq(Frames)
  /\ audio.queue \in Seq(Frames) /\ audio.clip \in Frames \cup {Silence}
  /\ audio.at \in {"idle", "playing", "gap"} /\ audio.again \in BOOLEAN
  /\ audio.at # "idle" => audio.clip # Silence /\ muters = {}
  /\ muters \subseteq {"audio-recorder", "voice-call"}
  /\ choice.queue \in Seq(Frames) /\ choice.active \in Frames \cup {Silence}
  /\ choice.target \in Places /\ choice.listening \in BOOLEAN
  /\ choice.active = Silence => choice.queue = <<>>
  /\ lists \subseteq Frames
  /\ mic \in [at : {"off", "asking", "on", "stopping"}, stray : BOOLEAN]
  /\ ending \subseteq {"question", "button"}
  /\ ending # {} <=> mic.at = "stopping"
  /\ window \in [front : BOOLEAN, page : Places, named : BOOLEAN]
  /\ call \in BOOLEAN /\ cut \in BOOLEAN
  /\ spent \in [notices : 0..MaxNotices, acts : 0..MaxActs, faults : 0..MaxFaults]

Off == [at |-> "off", stray |-> FALSE]

Init ==
  /\ mode = [s \in Sessions |-> [jarvis |-> TRUE, jarvis_mode |-> "full"]]
  /\ everywhere = [all |-> FALSE, full |-> FALSE]
  /\ notices = [n \in 1..MaxNotices |-> NoTask]
  /\ frames = <<>>
  /\ audio = [queue |-> <<>>, clip |-> Silence, at |-> "idle", again |-> FALSE]
  /\ muters = {}
  /\ choice = [queue |-> <<>>, active |-> Silence, target |-> Nowhere,
               listening |-> FALSE]
  /\ lists = {} /\ mic = Off /\ ending = {}
  /\ window = [front |-> TRUE, page |-> Nowhere, named |-> FALSE]
  /\ call = FALSE /\ cut = FALSE
  /\ spent = [notices |-> 0, acts |-> 0, faults |-> 0]

(***************************************************************************)
(* The tasks of the worker, which overtake one another.                    *)
(***************************************************************************)
page == <<audio, muters, choice, lists, mic, ending, window, call, cut>>

NoticeBegins(kind, s) ==
  /\ spent.notices < MaxNotices
  /\ spent' = [spent EXCEPT !.notices = @ + 1]
  /\ notices' = [notices EXCEPT ![spent.notices + 1] =
                   [at |-> "gate", kind |-> kind, session |-> s]]
  /\ UNCHANGED <<mode, everywhere, frames, page>>

IsEnabled(s) == everywhere.all \/ mode[s].jarvis
IsFullMode(s) == everywhere.full \/ mode[s].jarvis_mode = "full"

\* A task goes on if the mode lets it, and may end here in any case.
Gate(n, passes) ==
  /\ notices[n].at = "gate"
  /\ \/ /\ passes
        /\ notices' = [notices EXCEPT ![n].at = "voice",
                         ![n].kind = IF @ = "summary" THEN @ ELSE "question"]
     \/ notices' = [notices EXCEPT ![n] = NoTask]
  /\ UNCHANGED <<mode, everywhere, frames, page, spent>>

MaybeSpeak(n) == notices[n].kind = "summary" /\ Gate(n, IsEnabled(notices[n].session))
MaybeAskChoice(n) == notices[n].kind = "choice" /\ Gate(n, IsFullMode(notices[n].session))
MaybeAskOpen(n) == notices[n].kind = "open" /\ Gate(n, IsFullMode(notices[n].session))
ReaskOpen(n) == notices[n].kind = "reask" /\ Gate(n, IsFullMode(notices[n].session))
MaybeConfirmChoice(n) ==
  notices[n].kind = "confirm" /\ Gate(n, IsFullMode(notices[n].session))

Frame(n) == [n |-> n, question |-> notices[n].kind = "question",
             session |-> notices[n].session]

\* _synth fell back from one engine to another and has a sound, or has none.
SynthPublishes(n) ==
  /\ notices[n].at = "voice"
  /\ notices' = [notices EXCEPT ![n] = NoTask]
  /\ \/ frames' = Append(frames, Frame(n))
     \/ UNCHANGED frames
  /\ UNCHANGED <<mode, everywhere, page, spent>>

Task(n) == MaybeSpeak(n) \/ MaybeAskChoice(n) \/ MaybeAskOpen(n) \/ ReaskOpen(n)
           \/ MaybeConfirmChoice(n) \/ SynthPublishes(n)

(***************************************************************************)
(* JarvisAudioService: what each of its methods leaves of the audio a,     *)
(* with m for the reasons to be silent.                                    *)
(***************************************************************************)
PlayNext(a, m) ==
  IF m # {} \/ a.queue = <<>>
  THEN [a EXCEPT !.clip = Silence, !.at = "idle", !.again = FALSE]
  ELSE [queue |-> Tail(a.queue), clip |-> Head(a.queue), at |-> "playing",
        again |-> FALSE]

Enqueue(a, f, m) ==
  LET b == [a EXCEPT !.queue = Append(@, f)]
  IN  IF a.at = "idle" /\ m = {} THEN PlayNext(b, m) ELSE b

\* setRecording: the clip that plays is stopped, and not taken up again.
Suppressed(a, m) == IF m = {} THEN [a EXCEPT !.at = "idle", !.again = FALSE] ELSE a
Released(a, m) == IF m = {} /\ a.queue # <<>> /\ a.at = "idle" THEN PlayNext(a, m) ELSE a

Without_All(reason) == {}
Without(reason) == muters \ {reason}

\* What is left of a queue without the clips of s, in order.
Others(queue, s) ==
  LET left[i \in 0..Len(queue)] ==
        IF i = 0 THEN <<>>
        ELSE IF queue[i].session = s THEN left[i - 1] ELSE Append(left[i - 1], queue[i])
  IN  left[Len(queue)]

\* setViewingSessions.
Viewed(a, s, m) ==
  LET b == [a EXCEPT !.queue = Others(@, s)]
  IN  IF b.clip.session = s THEN PlayNext(b, m) ELSE b

Asks(f) == f # Silence /\ f = choice.active
\* The question that plays, or is to be played, is not in what is left.
Cuts(b) == \/ Asks(audio.clip) /\ audio.at = "playing" /\ (b.at = "idle" \/ b.clip # audio.clip)
           \/ \E i \in DOMAIN audio.queue :
                /\ Asks(audio.queue[i])
                /\ b.clip # audio.queue[i] /\ \A j \in DOMAIN b.queue : b.queue[j] # audio.queue[i]

(***************************************************************************)
(* JarvisChoiceService.                                                    *)
(***************************************************************************)
Pump(c) ==
  IF c.active # Silence \/ c.queue = <<>> THEN c
  ELSE [c EXCEPT !.active = Head(c.queue), !.queue = Tail(c.queue), !.target = Nowhere]

Finish(c) == Pump([c EXCEPT !.active = Silence, !.target = Nowhere])

\* The list of sessions is asked for a question that becomes active; asked are the
\* lists that still have to come.
Chooses(c, asked) ==
  /\ choice' = c
  /\ lists' = asked \cup ({c.active} \ {Silence, choice.active})
  /\ cut' = (cut /\ c.active = choice.active)

\* AudioRecorderService.start: nothing when it records already.
Started == [at |-> IF mic.at \in {"on", "stopping"} THEN mic.at ELSE "asking",
            stray |-> FALSE]
\* What has not begun cannot be stopped, and will begin all the same.
Unawaited == IF mic.at = "asking" THEN [mic EXCEPT !.stray = TRUE] ELSE mic
Cancelled == IF mic.at = "on" THEN Off ELSE Unawaited

\* startListening, with a the audio; the question may be cut off for it.
StartListening(a) ==
  IF choice.listening \/ choice.active = Silence
  THEN audio' = a /\ UNCHANGED <<choice, muters, mic, cut>>
  ELSE /\ choice' = [choice EXCEPT !.listening = TRUE]
       /\ muters' = muters \cup {"audio-recorder"}
       /\ audio' = Suppressed(a, muters)
       /\ mic' = Started
       /\ UNCHANGED cut

\* A frame comes: a question waits for its turn, a summary is played unless its
\* session is on the page, the sound is off, or it was heard lately.
FrameArrives ==
  /\ frames # <<>>
  /\ frames' = Tail(frames)
  /\ LET f == Head(frames)
     IN  IF f.question
         THEN Chooses(Pump([choice EXCEPT !.queue = Append(@, f)]), lists) /\ UNCHANGED audio
         ELSE /\ \/ UNCHANGED audio
                 \/ /\ ~(window.named /\ f.session = window.page)
                    /\ audio' = Enqueue(audio, f, muters)
              /\ UNCHANGED <<choice, lists, cut>>
  /\ UNCHANGED <<worker, muters, mic, ending, window, call, spent>>

\* activate: the session itself is in full mode, or the question is dropped, even
\* where the settings have asked it.  The answer is used for the question that is
\* active by now, not the one it was asked for.
ListAnswers(f) ==
  /\ f \in lists
  /\ IF mode[f.session].jarvis_mode = "full"
     THEN /\ choice' = [choice EXCEPT !.target = f.session]
          /\ audio' = Enqueue(audio, f, muters)
          /\ lists' = lists \ {f}
          /\ UNCHANGED cut
     ELSE Chooses(Finish(choice), lists \ {f}) /\ UNCHANGED audio
  /\ UNCHANGED <<worker, frames, muters, mic, ending, window, call, spent>>

ListFails(f) ==
  /\ f \in lists /\ spent.faults < MaxFaults
  /\ spent' = [spent EXCEPT !.faults = @ + 1]
  /\ Chooses(Finish(choice), lists \ {f})
  /\ UNCHANGED <<worker, frames, audio, muters, mic, ending, window, call>>

ClipEnds_Repeats ==
  /\ audio.at = "playing"
  /\ audio' = IF audio.again THEN PlayNext(audio, muters)
              ELSE [audio EXCEPT !.at = "gap", !.again = TRUE]
  /\ UNCHANGED <<worker, frames, muters, choice, lists, mic, ending, window, call, cut, spent>>

\* onQuestionSpoken, with the window in front: the page turns to the session and
\* listens.
QuestionSpoken ==
  /\ StartListening(PlayNext(audio, muters))
  /\ window' = [window EXCEPT !.page = choice.target, !.named = FALSE]

\* onClipDone.  The active question is spoken once, and with the window behind
\* the user is only notified; a summary is played a second time.
ClipEnds ==
  /\ audio.at = "playing"
  /\ IF Asks(audio.clip) /\ choice.target # Nowhere /\ window.front THEN QuestionSpoken
     ELSE /\ audio' = IF audio.clip.question \/ audio.again THEN PlayNext(audio, muters)
                      ELSE [audio EXCEPT !.at = "gap", !.again = TRUE]
          /\ UNCHANGED <<choice, muters, mic, window, cut>>
  /\ UNCHANGED <<worker, frames, lists, ending, call, spent>>

RepeatPlays ==
  /\ audio.at = "gap"
  /\ audio' = [audio EXCEPT !.at = "playing"]
  /\ UNCHANGED <<worker, frames, muters, choice, lists, mic, ending, window, call, cut, spent>>

\* getUserMedia.
MicOpens ==
  /\ mic.at = "asking"
  /\ mic' = [mic EXCEPT !.at = "on"]
  /\ UNCHANGED <<worker, frames, audio, muters, choice, lists, ending, window, call, cut, spent>>

MicRefused ==
  /\ mic.at = "asking" /\ spent.faults < MaxFaults
  /\ spent' = [spent EXCEPT !.faults = @ + 1]
  /\ mic' = Off
  /\ UNCHANGED <<worker, frames, audio, muters, choice, lists, ending, window, call, cut>>

\* stopListeningAndSend: a recorder that does not record rejects.
ListenedEnough ==
  /\ choice.listening
  /\ muters' = Without("audio-recorder")
  /\ audio' = Released(audio, muters')
  /\ IF mic.at \in {"on", "stopping"}
     THEN /\ mic' = [mic EXCEPT !.at = "stopping"]
          /\ ending' = ending \cup {"question"}
          /\ choice' = [choice EXCEPT !.listening = FALSE]
          /\ UNCHANGED <<lists, cut>>
     ELSE /\ Chooses(Finish([choice EXCEPT !.listening = FALSE]), lists)
          /\ mic' = Unawaited
          /\ UNCHANGED ending
  /\ UNCHANGED <<worker, frames, window, call, spent>>

\* The recorder has stopped: the recording is sent.
Stopped ==
  /\ mic.at = "stopping"
  /\ mic' = Off /\ ending' = {}
  /\ IF "question" \in ending THEN Chooses(Finish(choice), lists)
     ELSE UNCHANGED <<choice, lists, cut>>
  /\ muters' = IF "button" \in ending THEN Without("audio-recorder") ELSE muters
  /\ audio' = IF "button" \in ending THEN Released(audio, muters') ELSE audio
  /\ UNCHANGED <<worker, frames, window, call, spent>>

(***************************************************************************)
(* The user.                                                               *)
(***************************************************************************)
Act == /\ spent.acts < MaxActs
       /\ spent' = [spent EXCEPT !.acts = @ + 1]

ComesBack ==
  /\ Act /\ ~window.front
  /\ window' = [window EXCEPT !.front = TRUE]
  /\ StartListening(audio)
  /\ UNCHANGED <<worker, frames, lists, ending, call>>

GoesAway ==
  /\ Act /\ window.front
  /\ window' = [window EXCEPT !.front = FALSE]
  /\ UNCHANGED <<worker, frames, audio, muters, choice, lists, mic, ending, call, cut>>

\* The page of a session, from a list or by the link of a notification: only the
\* link has the name that frames have.
Opens(s, named) ==
  /\ Act /\ window.front
  /\ window' = [window EXCEPT !.page = s, !.named = named]
  /\ audio' = IF named THEN Viewed(audio, s, muters) ELSE audio
  /\ cut' = (cut \/ Cuts(audio'))
  /\ UNCHANGED <<worker, frames, muters, choice, lists, mic, ending, call>>

\* answerManually and dismiss, on the banner of the question.
Closes ==
  /\ Act /\ window.front
  /\ choice.active # Silence /\ window.page = choice.active.session
  /\ IF choice.listening
     THEN /\ muters' = Without("audio-recorder")
          /\ audio' = Released(audio, muters')
          /\ mic' = Cancelled
     ELSE UNCHANGED <<muters, audio, mic>>
  /\ Chooses(Finish([choice EXCEPT !.listening = FALSE]), lists)
  /\ UNCHANGED <<worker, frames, ending, window, call>>

\* The button of the recorder: start, stop, cancel.
Records ==
  /\ Act /\ window.front /\ window.page # Nowhere
  /\ mic.at \in {"off", "asking"}
  /\ muters' = muters \cup {"audio-recorder"}
  /\ audio' = Suppressed(audio, muters)
  /\ cut' = (cut \/ Cuts(audio'))
  /\ mic' = Started
  /\ UNCHANGED <<worker, frames, choice, lists, ending, window, call>>

SendsRecording ==
  /\ Act /\ window.front /\ window.page # Nowhere
  /\ mic.at \in {"on", "stopping"}
  /\ mic' = [mic EXCEPT !.at = "stopping"]
  /\ ending' = ending \cup {"button"}
  /\ UNCHANGED <<worker, frames, audio, muters, choice, lists, window, call, cut>>

CancelsRecording ==
  /\ Act /\ window.front /\ window.page # Nowhere
  /\ mic.at = "on"
  /\ mic' = Cancelled
  /\ muters' = Without("audio-recorder")
  /\ audio' = Released(audio, muters')
  /\ UNCHANGED <<worker, frames, choice, lists, ending, window, call, cut>>

\* A call silences the queue for a reason of its own.
CallStarts ==
  /\ Act /\ ~call
  /\ call' = TRUE
  /\ muters' = muters \cup {"voice-call"}
  /\ audio' = Suppressed(audio, muters)
  /\ cut' = (cut \/ Cuts(audio'))
  /\ UNCHANGED <<worker, frames, choice, lists, mic, ending, window>>

CallEnds ==
  /\ call
  /\ call' = FALSE
  /\ muters' = Without("voice-call")
  /\ audio' = Released(audio, muters')
  /\ UNCHANGED <<worker, frames, choice, lists, mic, ending, window, cut, spent>>

\* setEnabled(false), and later on again.
SoundOff ==
  /\ Act
  /\ audio' = [audio EXCEPT !.queue = <<>>, !.at = "idle", !.again = FALSE]
  /\ cut' = (cut \/ Cuts(audio'))
  /\ UNCHANGED <<worker, frames, muters, choice, lists, mic, ending, window, call>>

SetJarvis(s) ==
  /\ Act
  /\ mode' = [mode EXCEPT ![s].jarvis = ~@]
  /\ UNCHANGED <<everywhere, notices, frames, page>>

SetJarvisMode(s, m) ==
  /\ Act
  /\ mode' = [mode EXCEPT ![s] = [jarvis |-> m # "off", jarvis_mode |-> m]]
  /\ UNCHANGED <<everywhere, notices, frames, page>>

\* Whatever is saved in the settings, what they do not have for all sessions is
\* taken away from each one.
PutSettings(all, full) ==
  /\ Act
  /\ everywhere' = [all |-> all, full |-> full]
  /\ mode' = [s \in Sessions |->
                [jarvis |-> mode[s].jarvis /\ all,
                 jarvis_mode |-> IF mode[s].jarvis_mode = "full" /\ ~full THEN "speaker"
                                 ELSE mode[s].jarvis_mode]]
  /\ UNCHANGED <<notices, frames, page>>

User == \/ ComesBack \/ GoesAway \/ Closes \/ Records \/ SendsRecording
        \/ CancelsRecording \/ CallStarts \/ CallEnds \/ SoundOff
        \/ \E s \in Sessions, named \in BOOLEAN : Opens(s, named)
        \/ \E s \in Sessions : SetJarvis(s)
        \/ \E s \in Sessions, m \in Modes : SetJarvisMode(s, m)
        \/ \E all, full \in BOOLEAN : PutSettings(all, full)
Browser == \/ FrameArrives \/ ClipEnds \/ RepeatPlays \/ MicOpens \/ ListenedEnough
           \/ Stopped \/ \E f \in lists : ListAnswers(f)
Next == \/ \E k \in Kinds, s \in Sessions : NoticeBegins(k, s)
        \/ \E n \in 1..MaxNotices : Task(n)
        \/ Browser \/ MicRefused \/ \E f \in lists : ListFails(f)
        \/ User
Spec == Init /\ [][Next]_vars
\* The event loop of the page, timers, the API that answers, the end of a clip.
Fairness == WF_vars(Browser)
FairSpec == Spec /\ Fairness

\* "ela entra numa fila e espera a atual resolver": with the window in front and
\* nothing that silences the page, questions end and the next come to be asked,
\* unless the active one was cut off.
QuestionsEnd ==
  []<>(\/ choice.active = Silence /\ choice.queue = <<>> /\ frames = <<>>
       \/ ~window.front \/ muters # {} \/ cut)

\* "suprime eco do TTS no mic": while the microphone is open, or a call goes on,
\* nothing is played, however recordings of the page, of a question and calls
\* begin and end in one another; and questions end.  A recording that was
\* cancelled, or whose six seconds were over, before the browser gave the
\* microphone is left out: it begins all the same, and nobody waits for it.
QuestionsAreHeard ==
  /\ [](call \/ (mic.at = "on" /\ ~mic.stray) => audio.at # "playing")
  /\ QuestionsEnd
=============================================================================
