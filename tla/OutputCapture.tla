---------------------------- MODULE OutputCapture ----------------------------
(***************************************************************************)
(* What a session prints, kept and published line by line.                 *)
(*                                                                         *)
(* For each session of the host the capture loop starts a pipe from its    *)
(* pane to a file, once, then every second reads what the file holds past  *)
(* an offset, numbers the lines, stores and publishes them, and copies the *)
(* screen.  The loop belongs to one life of the worker: a reconnection     *)
(* makes a new one, which finds the old pipe in the pane.  The session may *)
(* be stopped and resumed under its name meanwhile.                        *)
(*                                                                         *)
(* A line is the number of its printing; lines that strip_ansi leaves      *)
(* empty and the bytes of an unfinished line are left out.                 *)
(***************************************************************************)
EXTENDS Naturals, Sequences, FiniteSets

CONSTANTS
  MaxLines,   \* lines that the session prints
  Ring,       \* lines that are kept: max_lines
  MaxKills,   \* stops of the session
  MaxLives,   \* lives of the worker
  MaxFaults   \* writes that raise

VARIABLES
  pane,      \* alive, the file it is piped to (0: none), what is on it
  file,      \* the lines in each pipe's file
  capture,   \* the memory of OutputCapture and of its loop
  at,        \* where the loop is in its round
  batch,     \* lines read and not stored yet
  stored,    \* session_output
  kept,      \* lines that were ever stored
  mirror,    \* the screen's document: how many lines it has seen
  printed, spent

vars == <<pane, file, capture, at, batch, stored, kept, mirror, printed, spent>>

MaxFiles == MaxLives
NewCapture == [started |-> "no", path |-> 0, offset |-> 0, seq |-> 0,
               snapshot |-> <<>>, hash |-> 0]
LinesOf(q) == {q[i] : i \in DOMAIN q}
Entries == [seq : Nat \ {0}, line : 1..MaxLines, pipe : 1..MaxFiles]

TypeOK ==
  /\ pane.alive \in BOOLEAN /\ pane.pipe \in 0..MaxFiles
  /\ LinesOf(pane.shown) \subseteq 1..printed
  /\ \A f \in 1..MaxFiles : LinesOf(file[f]) \subseteq 1..printed
  /\ capture.started \in {"no", "snapshot", "yes"}
  /\ capture.path \in 0..MaxFiles
  /\ capture.offset <= MaxLines /\ capture.hash \in 0..MaxLines
  /\ at \in {"round", "poll", "persist", "trim", "publish", "screen"}
  /\ LinesOf(batch) \subseteq 1..printed
  /\ LinesOf(stored) \subseteq Entries
  /\ at = "publish" => Len(stored) <= Ring
  /\ mirror \in 0..MaxLines /\ kept \subseteq 1..printed
  /\ printed \in 0..MaxLines
  /\ spent \in [kills : 0..MaxKills, lives : 1..MaxLives, faults : 0..MaxFaults]

Init ==
  /\ pane = [alive |-> TRUE, pipe |-> 0, shown |-> <<>>]
  /\ file = [f \in 1..MaxFiles |-> <<>>]
  /\ capture = NewCapture
  /\ at = "round"
  /\ batch = <<>> /\ stored = <<>>
  /\ kept = {} /\ mirror = 0 /\ printed = 0
  /\ spent = [kills |-> 0, lives |-> 1, faults |-> 0]

(***************************************************************************)
(* The session.                                                            *)
(***************************************************************************)
PrintLine ==
  /\ pane.alive
  /\ printed < MaxLines
  /\ printed' = printed + 1
  /\ pane' = [pane EXCEPT !.shown = Append(@, printed + 1)]
  /\ file' = IF pane.pipe = 0 THEN file
             ELSE [file EXCEPT ![pane.pipe] = Append(@, printed + 1)]
  /\ UNCHANGED <<capture, at, batch, stored, kept, mirror, spent>>

Kill ==
  /\ pane.alive
  /\ spent.kills < MaxKills
  /\ spent' = [spent EXCEPT !.kills = @ + 1]
  /\ pane' = [alive |-> FALSE, pipe |-> 0, shown |-> <<>>]
  /\ UNCHANGED <<file, capture, at, batch, stored, kept, mirror, printed>>

\* _relaunch_agent opens a new pane under the old name.
Resume ==
  /\ ~pane.alive
  /\ pane' = [pane EXCEPT !.alive = TRUE]
  /\ UNCHANGED <<file, capture, at, batch, stored, kept, mirror, printed, spent>>

(***************************************************************************)
(* A round of capture_loop.                                                *)
(***************************************************************************)
\* start_capture: the pane as it is, then the pipe; the agent prints meanwhile.
StartSnapshots ==
  /\ at = "round" /\ pane.alive
  /\ capture.started = "no"
  /\ capture' = [capture EXCEPT !.started = "snapshot", !.snapshot = pane.shown]
  /\ UNCHANGED <<pane, file, at, batch, stored, kept, mirror, printed, spent>>

\* A pipe that a former worker left is cut.  With no pane, tmux fails and the
\* next round starts again.
StartPipes ==
  /\ capture.started = "snapshot"
  /\ IF pane.alive
     THEN /\ capture' = [capture EXCEPT !.started = "yes", !.path = spent.lives]
          /\ pane' = [pane EXCEPT !.pipe = spent.lives]
          /\ at' = "poll"
     ELSE /\ capture' = [capture EXCEPT !.started = "no"]
          /\ at' = "screen"
          /\ UNCHANGED pane
  /\ UNCHANGED <<file, batch, stored, kept, mirror, printed, spent>>

RoundBegins ==
  /\ at = "round" /\ pane.alive
  /\ capture.started = "yes"
  /\ at' = "poll"
  /\ UNCHANGED <<pane, file, capture, batch, stored, kept, mirror, printed, spent>>

PollReads_SnapshotOnly ==
  /\ at = "poll"
  /\ batch' = IF capture.snapshot # <<>> THEN capture.snapshot
              ELSE SubSeq(file[capture.path], capture.offset + 1, Len(file[capture.path]))
  /\ capture' = [capture EXCEPT !.snapshot = <<>>, !.offset = Len(file[capture.path])]
  /\ at' = IF batch' = <<>> THEN "screen" ELSE "persist"
  /\ UNCHANGED <<pane, file, stored, kept, mirror, printed, spent>>

\* poll_new_lines: the snapshot and what is past the offset are taken out first.
PollReads ==
  /\ at = "poll"
  /\ batch' = capture.snapshot
              \o SubSeq(file[capture.path], capture.offset + 1, Len(file[capture.path]))
  /\ capture' = [capture EXCEPT !.snapshot = <<>>, !.offset = Len(file[capture.path])]
  /\ at' = IF batch' = <<>> THEN "screen" ELSE "persist"
  /\ UNCHANGED <<pane, file, stored, kept, mirror, printed, spent>>

CurrentSeq_Count == IF capture.seq # 0 THEN capture.seq ELSE Len(stored) + 1
\* _current_seq: remembered, or past the highest that is stored.
CurrentSeq == IF capture.seq # 0 THEN capture.seq
              ELSE IF stored = <<>> THEN 1 ELSE stored[Len(stored)].seq + 1

Numbered == [i \in DOMAIN batch |-> [seq |-> CurrentSeq + i - 1, line |-> batch[i],
                                     pipe |-> capture.path]]

\* The numbers are taken before the insert; one that raises loses the lines.
PollPersists ==
  /\ at = "persist"
  /\ capture' = [capture EXCEPT !.seq = CurrentSeq + Len(batch)]
  /\ batch' = <<>>
  /\ \/ /\ stored' = stored \o Numbered
        /\ kept' = kept \cup LinesOf(batch)
        /\ at' = "trim"
        /\ UNCHANGED spent
     \/ /\ spent.faults < MaxFaults
        /\ spent' = [spent EXCEPT !.faults = @ + 1]
        /\ at' = "screen"
        /\ UNCHANGED <<stored, kept>>
  /\ UNCHANGED <<pane, file, mirror, printed>>

\* _enforce_ring_buffer
PollTrims ==
  /\ at = "trim"
  /\ stored' = IF Len(stored) <= Ring THEN stored
               ELSE SubSeq(stored, Len(stored) - Ring + 1, Len(stored))
  /\ at' = "publish"
  /\ UNCHANGED <<pane, file, capture, batch, kept, mirror, printed, spent>>

PollPublishes ==
  /\ at = "publish"
  /\ at' = "screen"
  /\ UNCHANGED <<pane, file, capture, batch, stored, kept, mirror, printed, spent>>

\* capture_screen and capture_scrollback, told apart by how far the pane has gone.
Captured == Len(pane.shown)

\* snapshot_screen: the hash is kept before the document is written, which may
\* raise, and is then not written before the screen moves again.
SnapshotScreen ==
  /\ at = "screen"
  /\ at' = "round"
  /\ capture' = [capture EXCEPT !.hash = Captured]
  /\ \/ /\ mirror' = IF capture.hash = Captured THEN mirror ELSE Captured
        /\ UNCHANGED spent
     \/ /\ capture.hash # Captured
        /\ spent.faults < MaxFaults
        /\ spent' = [spent EXCEPT !.faults = @ + 1]
        /\ UNCHANGED mirror
  /\ UNCHANGED <<pane, file, batch, stored, kept, printed>>

\* _build_and_run again: another OutputCapture; the pane's pipe goes on.
Rebuild ==
  /\ spent.lives < MaxLives
  /\ spent' = [spent EXCEPT !.lives = @ + 1]
  /\ capture' = NewCapture
  /\ at' = "round"
  /\ batch' = <<>>
  /\ UNCHANGED <<pane, file, stored, kept, mirror, printed>>

Loop == \/ StartSnapshots \/ StartPipes \/ RoundBegins \/ PollReads \/ PollPersists
        \/ PollTrims \/ PollPublishes \/ SnapshotScreen
Next == PrintLine \/ Kill \/ Resume \/ Loop \/ Rebuild
Spec == Init /\ [][Next]_vars
Fairness == WF_vars(Loop)
FairSpec == Spec /\ Fairness

(***************************************************************************)
(* Properties.                                                             *)
(***************************************************************************)
\* Numbers rise along what is stored, across lives of the worker, failed inserts
\* and the ring; and one pipe's lines are stored in order, none of them twice.
StoredInOrder ==
  \A i, j \in DOMAIN stored : i < j =>
    /\ stored[i].seq < stored[j].seq
    /\ stored[i].pipe = stored[j].pipe => stored[i].line < stored[j].line

\* What is printed into the pipe of the loop is stored, unless an insert raised,
\* the session was stopped or another life of the worker began.
EveryLineKept ==
  \A l \in 1..MaxLines :
    []<>(capture.path # 0 /\ l \in LinesOf(file[capture.path])
           => l \in kept \/ spent.faults > 0 \/ ~pane.alive)

\* Both: the output that users read is in order and has no holes.
OutputIsWhole == []StoredInOrder /\ EveryLineKept
=============================================================================
