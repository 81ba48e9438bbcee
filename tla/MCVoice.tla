------------------------------- MODULE MCVoice -------------------------------
(***************************************************************************)
(* What a user sees and hears of a session: a voice call (EXTENDS), its    *)
(* output, its milestones, what it asks for, and what is said of it and    *)
(* answered, each an instance of its module.  Parts do not read one        *)
(* another's state, so a behaviour is one of a single part, named by part, *)
(* and the other parts stay as they begin.                                 *)
(***************************************************************************)
EXTENDS MCVoiceCall

CONSTANTS
  MaxPrinted, Ring, MaxKills, MaxLives,             \* of the output
  Marks, MaxWrites, MaxDeletes,                     \* of the milestones
  MaxFrames, MaxContinues, MaxAudios, MaxCrashes,   \* of what it asks for
  Sessions, Nowhere, MaxNotices, MaxActs,           \* of what is said
  MaxErrors                                         \* of output, milestones and what is said

ASSUME PartsAssumption ==
  /\ MaxLives \in Nat \ {0}
  /\ {MaxPrinted, Ring, MaxKills, MaxWrites, MaxDeletes, MaxFrames, MaxContinues, MaxAudios,
      MaxCrashes, MaxNotices, MaxActs, MaxErrors} \subseteq Nat

VARIABLES
  part,  \* the part that moves
  o_pane, o_file, o_capture, o_at, o_batch, o_stored, o_kept, o_mirror,
  o_printed, o_spent,
  k_file, k_tasks, k_sync, k_told, k_dones, k_spent,
  l_screen, l_shot, l_scr, l_auto, l_attn, l_cycle, l_pending, l_audio,
  l_heard, l_typed, l_spent,
  q_mode, q_everywhere, q_notices, q_frames, q_audio, q_muters, q_choice,
  q_lists, q_mic, q_ending, q_window, q_call, q_cut, q_spent

O == INSTANCE OutputCapture WITH
  MaxLines <- MaxPrinted, Ring <- Ring, MaxKills <- MaxKills,
  MaxLives <- MaxLives, MaxFaults <- MaxErrors, pane <- o_pane, file <- o_file,
  capture <- o_capture, at <- o_at, batch <- o_batch, stored <- o_stored,
  kept <- o_kept, mirror <- o_mirror, printed <- o_printed, spent <- o_spent
K == INSTANCE Milestones WITH
  Marks <- Marks, MaxWrites <- MaxWrites, MaxDeletes <- MaxDeletes,
  MaxFaults <- MaxErrors, file <- k_file, tasks <- k_tasks, sync <- k_sync,
  told <- k_told, dones <- k_dones, spent <- k_spent
L == INSTANCE Attention WITH
  MaxFrames <- MaxFrames, MaxContinues <- MaxContinues, MaxAudios <- MaxAudios,
  MaxCrashes <- MaxCrashes, screen <- l_screen, shot <- l_shot, scr <- l_scr,
  auto <- l_auto, attn <- l_attn, cycle <- l_cycle, pending <- l_pending,
  audio <- l_audio, heard <- l_heard, typed <- l_typed, spent <- l_spent
Q == INSTANCE SpokenQuestions WITH
  Sessions <- Sessions, Nowhere <- Nowhere, MaxNotices <- MaxNotices,
  MaxActs <- MaxActs, MaxFaults <- MaxErrors, mode <- q_mode,
  everywhere <- q_everywhere, notices <- q_notices, frames <- q_frames,
  audio <- q_audio, muters <- q_muters, choice <- q_choice, lists <- q_lists,
  mic <- q_mic, ending <- q_ending, window <- q_window, call <- q_call,
  cut <- q_cut, spent <- q_spent

outputVars == <<o_pane, o_file, o_capture, o_at, o_batch, o_stored, o_kept,
                 o_mirror, o_printed, o_spent>>
milestonesVars == <<k_file, k_tasks, k_sync, k_told, k_dones, k_spent>>
attentionVars == <<l_screen, l_shot, l_scr, l_auto, l_attn, l_cycle,
                    l_pending, l_audio, l_heard, l_typed, l_spent>>
questionsVars == <<q_mode, q_everywhere, q_notices, q_frames, q_audio,
                    q_muters, q_choice, q_lists, q_mic, q_ending, q_window,
                    q_call, q_cut, q_spent>>

all == <<part, vars, outputVars, milestonesVars, attentionVars, questionsVars>>

Inits ==
  /\ part \in {"call", "output", "milestones", "attention", "questions"}
  /\ Init /\ (part # "call" => ~bound)
  /\ O!Init
  /\ K!Init
  /\ L!Init
  /\ Q!Init

\* A step of one part, with which nothing else moves.
Of(p, Act) ==
  /\ part = p /\ Act /\ UNCHANGED part
  /\ p # "call" => UNCHANGED vars
  /\ p # "output" => UNCHANGED outputVars
  /\ p # "milestones" => UNCHANGED milestonesVars
  /\ p # "attention" => UNCHANGED attentionVars
  /\ p # "questions" => UNCHANGED questionsVars
Call(Act) == Of("call", Act)
Output(Act) == Of("output", Act)
Milestones(Act) == Of("milestones", Act)
Attention(Act) == Of("attention", Act)
Questions(Act) == Of("questions", Act)

Nexts ==
  \/ Call(Next)
  \/ Output(O!Next)
  \/ Milestones(K!Next)
  \/ Attention(L!Next)
  \/ Questions(Q!Next)

\* The fairness of each module.  part never changes, so that the steps of one
\* part or of another are treated fairly just when those of each are.
Loop1 ==
  \/ Call(Hush)
  \/ Output(O!Loop)
  \/ Milestones(K!Sync)
  \/ Attention(L!SnapshotScreen)
Loop2 ==
  \/ Call(Play)
  \/ Attention(L!CycleLooks)
  \/ Questions(Q!Browser)
Loop3 ==
  \/ Call(Cooldown)
  \/ Attention(L!Cycle)
Loop4 ==
  \/ Call(Receive)
  \/ Attention(L!Audio)
Loop5 ==
  \/ Call(Turn(1))
Loop6 ==
  \/ Call(Turn(2))
Loop7 ==
  \/ Call(TimedOut(1))
Loop8 ==
  \/ Call(TimedOut(2))
Fair == WF_all(Loop1) /\ WF_all(Loop2) /\ WF_all(Loop3) /\ WF_all(Loop4) /\
        WF_all(Loop5) /\ WF_all(Loop6) /\ WF_all(Loop7) /\ WF_all(Loop8)

Behaviour == Inits /\ [][Nexts]_all /\ Fair

----------------------------------------------------------------------------
\* Every part keeps to its types.
PartsTypeOK ==
  /\ TypeOK
  /\ O!TypeOK
  /\ K!TypeOK
  /\ L!TypeOK
  /\ Q!TypeOK

\* Properties of the parts, as their modules state them.
OutputIsWhole == O!OutputIsWhole
MilestonesShow == K!MilestonesShow
NothingGoesUnheard == L!NothingGoesUnheard /\ Q!QuestionsAreHeard
=============================================================================
