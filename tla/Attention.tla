------------------------------ MODULE Attention ------------------------------
(***************************************************************************)
(* What a session asks of its user, and the spoken answer.                 *)
(*                                                                         *)
(* The capture loop copies the screen of the pane to a document.  Every    *)
(* cycle of discovery looks at the copy, answers an API error that stands  *)
(* still with "continue", and tells the user when what the screen asks for *)
(* has changed.  In full mode the question is also spoken, and the         *)
(* document of the session holds the choice that is pending.  A recording  *)
(* of the user is transcribed and taken as an answer to that choice: the   *)
(* consumer and discovery write the same field with awaits in between.     *)
(*                                                                         *)
(* A screen is its kind and the number of the frame.  Six seconds and      *)
(* ninety seconds without a change are both two looks at the same frame.   *)
(***************************************************************************)
EXTENDS Naturals, Sequences

CONSTANTS
  MaxFrames,     \* changes of the screen
  MaxContinues,  \* _MAX_AUTOCONTINUE
  MaxAudios,     \* recordings
  MaxCrashes

VARIABLES
  screen,   \* what the pane shows
  shot,     \* what the document of the screen holds
  scr,      \* discovery's last frame, and for how many looks: _scr_sig, _scr_since
  auto,     \* _autocont: frame, looks, continues in a row, frame done with
  attn,     \* _attn, and _last_notified with whether it is recent
  cycle,    \* where discovery is, and what it found
  pending,  \* pending_choice of the session's document
  audio,    \* the recording that is handled
  heard,    \* what the user was last told
  typed,    \* what was last typed for a spoken answer
  spent

vars == <<screen, shot, scr, auto, attn, cycle, pending, audio, heard, typed, spent>>

Kinds == {"busy", "picker", "question", "error"}
Frames == [kind : Kinds, n : 0..MaxFrames]
Asks == {"none", "waiting", "idle"}
NoChoice == [stage |-> "none", of |-> 0, key |-> "none"]
Choices == [stage : {"none", "choose", "open", "confirm"}, of : 0..MaxFrames,
            key : {"none", "1", "2", "free"}]
Quiet == [at |-> "off", read |-> NoChoice]

TypeOK ==
  /\ screen \in Frames /\ shot \in Frames
  /\ scr \in [n : 0..MaxFrames + 1, looks : 0..2]
  /\ auto \in [n : 0..MaxFrames + 1, looks : 0..2, count : 0..MaxContinues,
               done : 0..MaxFrames + 1]
  /\ attn \in [now : Asks, last : Asks, recent : BOOLEAN]
  /\ cycle \in [at : {"off", "unset", "tell", "ask"}, was : Asks]
  /\ pending \in Choices
  /\ audio \in [at : {"off", "heard", "answer", "type"}, read : Choices]
  /\ heard \in Asks \cup {"error"}
  /\ typed \in [key : {"none", "1", "2", "free"}, of : 0..MaxFrames, on : 0..MaxFrames]
  /\ spent \in [audios : 0..MaxAudios, crashes : 0..MaxCrashes]

Unseen == MaxFrames + 1
Init ==
  /\ screen = [kind |-> "busy", n |-> 0]
  /\ shot = screen
  /\ scr = [n |-> Unseen, looks |-> 0]
  /\ auto = [n |-> Unseen, looks |-> 0, count |-> 0, done |-> Unseen]
  /\ attn = [now |-> "none", last |-> "none", recent |-> FALSE]
  /\ cycle = [at |-> "off", was |-> "none"]
  /\ pending = NoChoice
  /\ audio = Quiet
  /\ heard = "none"
  /\ typed = [key |-> "none", of |-> 0, on |-> 0]
  /\ spent = [audios |-> 0, crashes |-> 0]

(***************************************************************************)
(* The agent, its user at the keyboard, and the copy of the screen.        *)
(***************************************************************************)
AgentShows ==
  /\ screen.n < MaxFrames
  /\ \E k \in Kinds : screen' = [kind |-> k, n |-> screen.n + 1]
  /\ UNCHANGED <<shot, scr, auto, attn, cycle, pending, audio, heard, typed, spent>>

SnapshotScreen ==
  /\ shot # screen
  /\ shot' = screen
  /\ UNCHANGED <<screen, scr, auto, attn, cycle, pending, audio, heard, typed, spent>>

(***************************************************************************)
(* A look of discovery.                                                    *)
(***************************************************************************)
Looks(memory) == IF memory.n # shot.n THEN 0
                 ELSE IF memory.looks < 2 THEN memory.looks + 1 ELSE 2

ScreenWantsAttention == shot.kind \in {"picker", "question"}
ScreenIdle == Looks(scr) = 2
Wanted == IF ScreenWantsAttention THEN "waiting" ELSE IF ScreenIdle THEN "idle" ELSE "none"

AutoContinue_EveryLook ==
  IF shot.kind # "error"
  THEN auto' = [auto EXCEPT !.n = shot.n, !.looks = 0,
                           !.count = IF auto.n # shot.n THEN 0 ELSE @]
  ELSE auto' = [auto EXCEPT !.n = shot.n, !.looks = 0]

\* _maybe_auto_continue: once for a frame with an error that stands still.  An
\* exhausted count is told instead.
AutoContinue ==
  IF shot.kind # "error"
  THEN auto' = [auto EXCEPT !.n = shot.n, !.looks = 0,
                           !.count = IF auto.n # shot.n THEN 0 ELSE @]
  ELSE IF Looks(auto) < 2 \/ auto.done = shot.n
  THEN auto' = [auto EXCEPT !.n = shot.n, !.looks = Looks(auto)]
  ELSE auto' = [auto EXCEPT !.looks = 2, !.done = shot.n,
                           !.count = IF @ < MaxContinues THEN @ + 1 ELSE @]

GivesUp == /\ auto.count = MaxContinues
           /\ auto'.done # auto.done

\* A screen that asks for something is not timed.  The cycle goes on only when
\* what is wanted has changed.
CycleLooks ==
  /\ cycle.at = "off"
  /\ scr' = IF ScreenWantsAttention THEN scr ELSE [n |-> shot.n, looks |-> Looks(scr)]
  /\ AutoContinue
  /\ cycle' = IF Wanted = attn.now THEN cycle
              ELSE [at |-> IF attn.now = "waiting" THEN "unset" ELSE "tell", was |-> attn.now]
  /\ attn' = [attn EXCEPT !.now = Wanted]
  /\ heard' = IF GivesUp THEN "error" ELSE heard
  /\ UNCHANGED <<screen, shot, pending, audio, typed, spent>>

\* The session waits no more: what was pending is taken back.
CycleUnsets ==
  /\ cycle.at = "unset"
  /\ pending' = NoChoice
  /\ cycle' = [cycle EXCEPT !.at = "tell"]
  /\ UNCHANGED <<screen, shot, scr, auto, attn, audio, heard, typed, spent>>

Flap_Any == attn.recent
\* The same as was last told, less than eight seconds ago.
Flap == attn.recent /\ attn.last = attn.now

CycleTells ==
  /\ cycle.at = "tell"
  /\ IF attn.now = "none" \/ Flap
     THEN /\ cycle' = [cycle EXCEPT !.at = "off"]
          /\ UNCHANGED <<attn, heard>>
     ELSE /\ cycle' = [cycle EXCEPT !.at = IF attn.now = "waiting" THEN "ask" ELSE "off"]
          /\ attn' = [attn EXCEPT !.last = attn.now, !.recent = TRUE]
          /\ heard' = attn.now
  /\ UNCHANGED <<screen, shot, scr, auto, pending, audio, typed, spent>>

\* The copy of the screen is read again.  In full mode a choice is pending and
\* its question spoken; otherwise only the summary is.
CycleAsks ==
  /\ cycle.at = "ask"
  /\ cycle' = [cycle EXCEPT !.at = "off"]
  /\ \/ pending' = [stage |-> IF shot.kind = "picker" THEN "choose" ELSE "open",
                    of |-> shot.n, key |-> "none"]
     \/ UNCHANGED pending
  /\ UNCHANGED <<screen, shot, scr, auto, attn, audio, heard, typed, spent>>

CooldownEnds ==
  /\ attn.recent
  /\ attn' = [attn EXCEPT !.recent = FALSE]
  /\ UNCHANGED <<screen, shot, scr, auto, cycle, pending, audio, heard, typed, spent>>

(***************************************************************************)
(* classify_choice.  A phrase is its words in order; an option is its key  *)
(* and what its label begins with.                                         *)
(***************************************************************************)
Picker == <<[key |-> "1", label |-> "sim"], [key |-> "2", label |-> "nao"]>>
ConfirmOptions == <<[key |-> "sim", label |-> "sim"], [key |-> "nao", label |-> "nao"]>>
Digits == {"1", "2"}
Ordinals == {"um", "dois", "ultima", "penultima"}
Words == Digits \cup Ordinals \cup {"sim", "nao", "outra"}
Phrases == UNION {[1..k -> Words] : k \in 1..2}

Has(phrase, words) == \E i \in DOMAIN phrase : phrase[i] \in words
FirstOf(phrase, words) ==
  phrase[CHOOSE i \in DOMAIN phrase :
           phrase[i] \in words /\ \A j \in 1..(i - 1) : phrase[j] \notin words]
Position(word) == CASE word \in {"1", "um", "penultima"} -> 1
                    [] word \in {"2", "dois", "ultima"} -> 2

\* A digit before an ordinal, an ordinal before yes and no, whatever their order
\* in the phrase; yes before no where the options are labelled so.
RuleBased(phrase, options) ==
  IF Has(phrase, Digits) THEN options[Position(FirstOf(phrase, Digits))].key
  ELSE IF Has(phrase, Ordinals) THEN options[Position(FirstOf(phrase, Ordinals))].key
  ELSE LET said == {i \in DOMAIN options : Has(phrase, {options[i].label})}
       IN  IF said = {} THEN "none" ELSE options[CHOOSE i \in said : \A j \in said : i <= j].key

\* Where no rule fits, a model is asked, of whose reply only a number counts.
ClassifyChoice(phrase, options) ==
  IF RuleBased(phrase, options) # "none" THEN {RuleBased(phrase, options)}
  ELSE {"none"} \cup {options[i].key : i \in {j \in DOMAIN options : options[j].key \in Digits}}

(***************************************************************************)
(* _handle_audio.                                                          *)
(***************************************************************************)
HandleAudio ==
  /\ audio.at = "off"
  /\ spent.audios < MaxAudios
  /\ spent' = [spent EXCEPT !.audios = @ + 1]
  /\ audio' = [audio EXCEPT !.at = "heard"]
  /\ UNCHANGED <<screen, shot, scr, auto, attn, cycle, pending, heard, typed>>

\* With nothing pending the transcription itself is typed.
ReadPending ==
  /\ audio.at = "heard"
  /\ audio' = [at |-> IF pending = NoChoice THEN "type" ELSE "answer",
               read |-> pending]
  /\ UNCHANGED <<screen, shot, scr, auto, attn, cycle, pending, heard, typed, spent>>

Handled == audio' = Quiet

\* choose: a key that was understood is to be confirmed, else asked again.
ResolveChoose(phrase) ==
  /\ audio.read.stage = "choose"
  /\ Handled
  /\ \E key \in ClassifyChoice(phrase, Picker) :
       pending' = IF key = "none" THEN pending
                  ELSE [audio.read EXCEPT !.stage = "confirm", !.key = key]

\* open: whatever was said is the answer, to be confirmed.
ResolveOpen ==
  /\ audio.read.stage = "open"
  /\ Handled
  /\ pending' = [audio.read EXCEPT !.stage = "confirm", !.key = "free"]

\* confirm: yes types the answer, no asks again, else the confirmation is asked.
ResolveConfirm(phrase) ==
  /\ audio.read.stage = "confirm"
  /\ \E said \in ClassifyChoice(phrase, ConfirmOptions) :
       CASE said = "sim" -> /\ pending' = NoChoice
                            /\ audio' = [audio EXCEPT !.at = "type"]
         [] said = "nao" -> /\ pending' = [audio.read EXCEPT
                                 !.stage = IF audio.read.key = "free" THEN "open" ELSE "choose",
                                 !.key = "none"]
                            /\ Handled
         [] OTHER -> Handled /\ UNCHANGED pending

MaybeResolvePendingChoice ==
  /\ audio.at = "answer"
  /\ \E phrase \in Phrases : ResolveChoose(phrase) \/ ResolveOpen \/ ResolveConfirm(phrase)
  /\ UNCHANGED <<screen, shot, scr, auto, attn, cycle, heard, typed, spent>>

HandlerTypes ==
  /\ audio.at = "type"
  /\ typed' = IF audio.read = NoChoice THEN typed
              ELSE [key |-> audio.read.key, of |-> audio.read.of, on |-> screen.n]
  /\ audio' = Quiet
  /\ UNCHANGED <<screen, shot, scr, auto, attn, cycle, pending, heard, spent>>

\* What discovery remembers is gone, and a command that was not acknowledged is
\* delivered again.
Crash ==
  /\ spent.crashes < MaxCrashes
  /\ spent' = [spent EXCEPT !.crashes = @ + 1]
  /\ scr' = [n |-> Unseen, looks |-> 0]
  /\ auto' = [n |-> Unseen, looks |-> 0, count |-> 0, done |-> Unseen]
  /\ attn' = [now |-> "none", last |-> "none", recent |-> FALSE]
  /\ cycle' = [at |-> "off", was |-> "none"]
  /\ audio' = IF audio.at = "off" THEN audio ELSE [Quiet EXCEPT !.at = "heard"]
  /\ UNCHANGED <<screen, shot, pending, heard, typed>>

Cycle == CycleUnsets \/ CycleTells \/ CycleAsks
Audio == ReadPending \/ MaybeResolvePendingChoice \/ HandlerTypes
Next == \/ AgentShows \/ SnapshotScreen \/ CycleLooks \/ Cycle \/ CooldownEnds
        \/ HandleAudio \/ Audio \/ Crash

Spec == Init /\ [][Next]_vars
\* The loops go on; agents and users need not.
Fairness == /\ WF_vars(SnapshotScreen) /\ WF_vars(CycleLooks) /\ WF_vars(Cycle)
            /\ WF_vars(Audio)
FairSpec == Spec /\ Fairness

(***************************************************************************)
(* Properties.                                                             *)
(***************************************************************************)
\* The eight seconds in which the same is not told twice never leave the user
\* with other news than what the session asks for: between cycles, the last
\* thing told is that, or that an error persists.
UserKnows ==
  cycle.at = "off" /\ attn.now # "none" => heard \in {attn.now, "error"}

\* An API error that stays on the screen is answered or told, once, whatever
\* else discovery and the consumer are doing; a restart starts over.
ErrorsAnswered ==
  \A n \in 1..MaxFrames :
    []<>(screen = [kind |-> "error", n |-> n] => auto.done = n)

\* Both: nothing that a session needs of its user goes unheard.
NothingGoesUnheard == []UserKnows /\ ErrorsAnswered

\* "limpa pra não confundir um áudio avulso enviado depois com resposta de um
\* picker antigo": an answer is typed only to the question it was given to.
NoOldAnswer == typed.key \in Digits => typed.of = typed.on
=============================================================================
