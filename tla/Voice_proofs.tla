------------------------------ MODULE Voice_proofs ------------------------------
(***************************************************************************)
(* Proofs about what a user sees and hears of a session: every part of     *)
(* MCVoice keeps to its types, output is stored in order, a milestone is   *)
(* not announced more often than it came to be done, the last news of a    *)
(* session is what it asks for, and nothing is played into an open         *)
(* microphone - for any numbers of lines, lives of the worker, milestones, *)
(* screens, sessions, tasks, acts and faults.                              *)
(*                                                                         *)
(* Each part has a section: its inductive invariant, the lemmas on what it *)
(* keeps, and one step for each of its actions.  The theorems are last.    *)
(***************************************************************************)
EXTENDS MCVoice, VoiceCall_proofs, WellFoundedInduction

-----------------------------------------------------------------------------
(* The output. *)

\* Lines in the order of their printing, of the p that were printed.
Rising(q, p) == q \in Seq(1..p) /\ \A i, j \in 1..Len(q) : i < j => q[i] < q[j]

CaptureType ==
  [started : {"no", "snapshot", "yes"}, path : 0..MaxLives, offset : 0..MaxPrinted,
   seq : Nat, snapshot : Seq(1..MaxPrinted), hash : 0..MaxPrinted]
PaneType == [alive : BOOLEAN, pipe : 0..MaxLives, shown : Seq(1..MaxPrinted)]
OutputSpent == [kills : 0..MaxKills, lives : 1..MaxLives, faults : 0..MaxErrors]
OutputTypes ==
  /\ o_pane \in PaneType
  /\ o_file \in [1..MaxLives -> Seq(1..MaxPrinted)]
  /\ o_capture \in CaptureType
  /\ o_at \in {"round", "poll", "persist", "trim", "publish", "screen"}
  /\ o_stored \in Seq(O!Entries)
  /\ o_mirror \in 0..MaxPrinted /\ o_kept \subseteq 1..o_printed
  /\ o_printed \in 0..MaxPrinted
  /\ o_spent \in OutputSpent
  /\ o_at = "publish" => Len(o_stored) <= Ring

\* What is printed rises wherever it is kept.
OutputRises ==
  /\ Rising(o_pane.shown, o_printed) /\ Len(o_pane.shown) <= o_printed
  /\ \A f \in 1..MaxLives : Rising(o_file[f], o_printed) /\ Len(o_file[f]) <= o_printed
  /\ Rising(o_capture.snapshot, o_printed)
  /\ Rising(o_batch, o_printed)

\* The file of the present life of the worker, piped into once it has started.
Own == o_file[o_spent.lives]
OutputPipes ==
  /\ o_pane.pipe <= o_spent.lives
  /\ \A f \in 1..MaxLives : f > o_spent.lives => o_file[f] = <<>>
  /\ o_capture.started = "yes" => o_capture.path = o_spent.lives
  /\ o_capture.started # "yes" => /\ o_pane.pipe # o_spent.lives /\ Own = <<>>
                                  /\ o_capture.path = 0 /\ o_capture.seq = 0
                                  /\ o_at \in {"round", "screen"}
  /\ o_capture.offset <= Len(Own)
  /\ o_at # "persist" => o_batch = <<>>
  /\ o_at \in {"persist", "trim", "publish"} => o_capture.snapshot = <<>>

\* What is stored of a pipe comes before what is read of it, and this before what
\* is to be read; the snapshot before all that is piped.
OutputOrder ==
  /\ \A i \in 1..Len(o_capture.snapshot), j \in 1..Len(Own) : o_capture.snapshot[i] < Own[j]
  /\ \A i \in 1..Len(o_batch), j \in 1..Len(Own) :
       j > o_capture.offset => o_batch[i] < Own[j]
  /\ \A k \in 1..Len(o_stored) :
       /\ o_stored[k].pipe <= o_spent.lives /\ o_stored[k].line <= o_printed
       /\ o_stored[k].pipe = o_spent.lives =>
            /\ o_capture.started = "yes" /\ o_capture.snapshot = <<>>
            /\ \A i \in 1..Len(o_batch) : o_stored[k].line < o_batch[i]
            /\ \A j \in 1..Len(Own) : j > o_capture.offset => o_stored[k].line < Own[j]
       /\ o_capture.seq # 0 => o_stored[k].seq < o_capture.seq

OutputInv == OutputTypes /\ OutputRises /\ OutputPipes /\ OutputOrder /\ O!StoredInOrder

LEMMA Wider ==
  ASSUME NEW S, NEW T, S \subseteq T, NEW q \in Seq(S)
  PROVE  q \in Seq(T)
OBVIOUS

\* Two queues joined.
LEMMA JoinedFacts ==
  ASSUME NEW S, NEW q \in Seq(S), NEW r \in Seq(S)
  PROVE  /\ q \o r \in Seq(S)
         /\ Len(q) \in Nat /\ Len(r) \in Nat /\ Len(q \o r) = Len(q) + Len(r)
         /\ \A i \in 1..Len(q) + Len(r) :
              (q \o r)[i] = IF i <= Len(q) THEN q[i] ELSE r[i - Len(q)]
<1>1. q \o r \in Seq(S)
  OBVIOUS
<1>2. Len(q) \in Nat /\ Len(r) \in Nat
  OBVIOUS
<1>3. Len(q \o r) = Len(q) + Len(r)
  OBVIOUS
<1>4. \A i \in 1..Len(q) + Len(r) : (q \o r)[i] = IF i <= Len(q) THEN q[i] ELSE r[i - Len(q)]
  OBVIOUS
<1> QED BY <1>1, <1>2, <1>3, <1>4

LEMMA Elements ==
  ASSUME NEW S, NEW q \in Seq(S)
  PROVE  Len(q) \in Nat /\ DOMAIN q = 1..Len(q) /\ \A i \in 1..Len(q) : q[i] \in S
OBVIOUS

LEMMA RisingIn ==
  ASSUME NEW p, NEW q, Rising(q, p)
  PROVE  q \in Seq(1..p) /\ Len(q) \in Nat /\ \A i \in 1..Len(q) : q[i] \in 1..p
<1>1. q \in Seq(1..p)
  BY DEF Rising
<1> QED BY <1>1, Elements

LEMMA RisingMore ==
  ASSUME NEW p \in Nat, NEW r \in Nat, p <= r, NEW q, Rising(q, p)
  PROVE  Rising(q, r)
<1>1. 1..p \subseteq 1..r
  OBVIOUS
<1> QED BY <1>1 DEF Rising

LEMMA RisingAppended ==
  ASSUME NEW p \in Nat, NEW q, Rising(q, p)
  PROVE  /\ Rising(Append(q, p + 1), p + 1)
         /\ Len(Append(q, p + 1)) = Len(q) + 1
         /\ \A i \in 1..Len(q) : Append(q, p + 1)[i] = q[i]
         /\ Append(q, p + 1)[Len(q) + 1] = p + 1
<1>1. q \in Seq(1..p + 1)
  BY RisingMore DEF Rising
<1>2. \A i \in 1..Len(q) : q[i] \in 1..p
  BY DEF Rising
<1>3. /\ Append(q, p + 1) \in Seq(1..p + 1)
      /\ Len(Append(q, p + 1)) = Len(q) + 1
      /\ \A i \in 1..Len(q) : Append(q, p + 1)[i] = q[i]
      /\ Append(q, p + 1)[Len(q) + 1] = p + 1
  BY <1>1
<1> DEFINE w == Append(q, p + 1)
<1>4. Len(q) \in Nat
  BY <1>1
<1> HIDE DEF w
<1>5. ASSUME NEW i \in 1..Len(w), NEW j \in 1..Len(w), i < j PROVE w[i] < w[j]
  <2>1. i \in 1..Len(q) /\ (j \in 1..Len(q) \/ j = Len(q) + 1)
    BY <1>3, <1>4, <1>5 DEF w
  <2>2. w[i] = q[i] /\ q[i] \in 1..p
    BY <1>2, <1>3, <2>1 DEF w
  <2>3. CASE j \in 1..Len(q)
    <3>1. w[j] = q[j]
      BY <1>3, <2>3 DEF w
    <3> QED BY <1>5, <2>1, <2>2, <2>3, <3>1 DEF Rising
  <2>4. CASE j = Len(q) + 1
    <3>1. w[j] = p + 1
      BY <1>3, <2>4 DEF w
    <3> QED BY <2>2, <3>1
  <2> QED BY <2>1, <2>3, <2>4
<1> QED BY <1>3, <1>5 DEF Rising, w

\* Where the rest of a queue from n on lies in it.
LEMMA RestIndex ==
  ASSUME NEW n \in Nat, NEW len \in Nat, NEW i \in 1..len - n
  PROVE  n + i \in 1..len /\ n + i > n
OBVIOUS

\* The rest of a queue from n on.
LEMMA RisingRest ==
  ASSUME NEW p \in Nat, NEW q, Rising(q, p), NEW n \in Nat, n <= Len(q)
  PROVE  /\ Rising(SubSeq(q, n + 1, Len(q)), p)
         /\ Len(SubSeq(q, n + 1, Len(q))) = Len(q) - n
         /\ \A i \in 1..Len(q) - n : SubSeq(q, n + 1, Len(q))[i] = q[n + i]
<1>1. q \in Seq(1..p) /\ Len(q) \in Nat
  BY DEF Rising
<1> DEFINE w == SubSeq(q, n + 1, Len(q))
<1>2. w \in Seq(1..p) /\ Len(w) = Len(q) - n /\ \A i \in 1..Len(q) - n : w[i] = q[n + i]
  BY <1>1
<1> HIDE DEF w
<1>3. ASSUME NEW i \in 1..Len(w), NEW j \in 1..Len(w), i < j PROVE w[i] < w[j]
  <2>1. /\ w[i] = q[n + i] /\ w[j] = q[n + j]
        /\ n + i \in 1..Len(q) /\ n + j \in 1..Len(q) /\ n + i < n + j
    <3>1. i \in 1..Len(q) - n /\ j \in 1..Len(q) - n
      BY <1>2
    <3>2. n + i \in 1..Len(q) /\ n + j \in 1..Len(q)
      BY <1>1, <3>1, RestIndex
    <3>3. n + i < n + j
      BY <1>3
    <3> QED BY <1>2, <3>1, <3>2, <3>3
  <2> QED BY <2>1 DEF Rising
<1> QED BY <1>2, <1>3 DEF Rising, w

\* One queue after another whose lines all come later.
LEMMA RisingJoined ==
  ASSUME NEW p \in Nat, NEW q, Rising(q, p), NEW r, Rising(r, p),
         \A i \in 1..Len(q), j \in 1..Len(r) : q[i] < r[j]
  PROVE  /\ Rising(q \o r, p)
         /\ Len(q \o r) = Len(q) + Len(r)
         /\ \A i \in 1..Len(q) : (q \o r)[i] = q[i]
         /\ \A i \in Len(q) + 1..Len(q) + Len(r) : (q \o r)[i] = r[i - Len(q)]
<1>1. q \in Seq(1..p) /\ r \in Seq(1..p) /\ Len(q) \in Nat /\ Len(r) \in Nat
  BY DEF Rising
<1> DEFINE w == q \o r
<1>2. /\ w \in Seq(1..p) /\ Len(w) = Len(q) + Len(r)
      /\ \A i \in 1..Len(q) : w[i] = q[i]
      /\ \A i \in Len(q) + 1..Len(q) + Len(r) : w[i] = r[i - Len(q)]
  <2>1. /\ w \in Seq(1..p) /\ Len(w) = Len(q) + Len(r)
        /\ \A i \in 1..Len(q) + Len(r) : w[i] = IF i <= Len(q) THEN q[i] ELSE r[i - Len(q)]
    BY <1>1, JoinedFacts
  <2> HIDE DEF w
  <2>2. ASSUME NEW i \in 1..Len(q) PROVE w[i] = q[i]
    <3>1. i \in 1..Len(q) + Len(r) /\ i <= Len(q)
      BY <1>1, <2>2
    <3> QED BY <2>1, <3>1
  <2>3. ASSUME NEW i \in Len(q) + 1..Len(q) + Len(r) PROVE w[i] = r[i - Len(q)]
    <3>1. i \in 1..Len(q) + Len(r) /\ ~(i <= Len(q))
      BY <1>1, <2>3
    <3> QED BY <2>1, <3>1
  <2> QED BY <2>1, <2>2, <2>3
<1> HIDE DEF w
<1>3. ASSUME NEW i \in 1..Len(w), NEW j \in 1..Len(w), i < j PROVE w[i] < w[j]
  <2>1. CASE j \in 1..Len(q)
    <3>1. i \in 1..Len(q)
      <4>1. Len(w) \in Nat /\ Len(q) \in Nat
        BY <1>1, <1>2
      <4> QED BY <1>3, <2>1, <4>1
    <3>2. w[i] = q[i]
      BY <1>2, <3>1
    <3>3. w[j] = q[j]
      BY <1>2, <2>1
    <3>4. q[i] < q[j]
      BY <1>3, <2>1, <3>1 DEF Rising
    <3> QED BY <3>2, <3>3, <3>4
  <2>2. CASE i \in 1..Len(q) /\ j \in Len(q) + 1..Len(q) + Len(r)
    <3>1. j - Len(q) \in 1..Len(r)
      BY <1>1, <2>2
    <3>2. w[i] = q[i]
      BY <1>2, <2>2
    <3>3. w[j] = r[j - Len(q)]
      BY <1>2, <2>2
    <3> QED BY <2>2, <3>1, <3>2, <3>3
  <2>3. CASE i \in Len(q) + 1..Len(q) + Len(r)
    <3>1. j \in Len(q) + 1..Len(q) + Len(r)
      BY <1>1, <1>2, <1>3, <2>3
    <3>2. w[i] = r[i - Len(q)]
      BY <1>2, <2>3
    <3>3. w[j] = r[j - Len(q)]
      BY <1>2, <3>1
    <3>4. /\ i - Len(q) \in 1..Len(r) /\ j - Len(q) \in 1..Len(r)
          /\ i - Len(q) < j - Len(q)
      BY <1>1, <1>3, <2>3, <3>1
    <3> QED BY <3>2, <3>3, <3>4 DEF Rising
  <2>4. i \in 1..Len(q) + Len(r) /\ j \in 1..Len(q) + Len(r) /\ i < j
    BY <1>2, <1>3
  <2>5. \/ j \in 1..Len(q) \/ (i \in 1..Len(q) /\ j \in Len(q) + 1..Len(q) + Len(r))
        \/ i \in Len(q) + 1..Len(q) + Len(r)
    BY <1>1, <2>4
  <2> QED BY <2>1, <2>2, <2>3, <2>5
<1> QED BY <1>2, <1>3 DEF Rising, w

LEMMA RisingNone == \A p \in Nat : Rising(<<>>, p)
BY DEF Rising

LEMMA Bounds ==
  /\ MaxLives \in Nat \ {0} /\ MaxPrinted \in Nat /\ Ring \in Nat /\ MaxKills \in Nat
  /\ MaxErrors \in Nat /\ O!MaxFiles = MaxLives
BY PartsAssumption DEF O!MaxFiles

LEMMA OutputInit == O!Init => OutputInv
<1> SUFFICES ASSUME O!Init PROVE OutputInv
  OBVIOUS
<1> USE Bounds
<1>1. /\ o_pane = [alive |-> TRUE, pipe |-> 0, shown |-> <<>>]
      /\ \A f \in 1..MaxLives : o_file[f] = <<>>
      /\ o_at = "round" /\ o_batch = <<>> /\ o_stored = <<>> /\ o_kept = {}
      /\ o_mirror = 0 /\ o_printed = 0
      /\ o_spent = [kills |-> 0, lives |-> 1, faults |-> 0]
  BY DEF O!Init
<1>2. o_capture = [started |-> "no", path |-> 0, offset |-> 0, seq |-> 0,
                   snapshot |-> <<>>, hash |-> 0]
  BY DEF O!Init, O!NewCapture
<1>3. OutputTypes
  <2>1. o_capture \in CaptureType
    BY <1>2 DEF CaptureType
  <2>2. o_stored \in Seq(O!Entries) /\ Len(o_stored) = 0
    BY <1>1
  <2>3. o_file \in [1..MaxLives -> Seq(1..MaxPrinted)]
    <3>1. <<>> \in Seq(1..MaxPrinted)
      OBVIOUS
    <3> QED BY <3>1 DEF O!Init
  <2>4. o_pane \in PaneType /\ o_spent \in OutputSpent
    BY <1>1 DEF PaneType, OutputSpent
  <2> QED BY <1>1, <2>1, <2>2, <2>3, <2>4 DEF OutputTypes
<1>4. OutputRises
  BY <1>1, <1>2, RisingNone DEF OutputRises
<1>5. OutputPipes /\ OutputOrder
  BY <1>1, <1>2 DEF OutputPipes, OutputOrder, Own
<1>6. O!StoredInOrder
  BY <1>1 DEF O!StoredInOrder
<1> QED BY <1>3, <1>4, <1>5, <1>6 DEF OutputInv

\* Nothing is read, stored or printed: the loop and the pane change their state.
LEMMA OutputStays ==
  ASSUME OutputInv,
         UNCHANGED <<o_file, o_batch, o_stored, o_kept, o_printed>>,
         OutputTypes', OutputPipes',
         \/ UNCHANGED o_pane.shown
         \/ o_pane'.shown = <<>>,
         UNCHANGED <<o_capture.snapshot, o_capture.offset, o_capture.seq, o_spent.lives>>,
         o_capture.started = "yes" => o_capture'.started = "yes"
  PROVE  OutputInv'
<1> USE DEF OutputInv
<1>1. OutputRises'
  <2>1. Rising(<<>>, o_printed) /\ Len(<<>>) = 0 /\ o_printed \in Nat
    BY RisingNone DEF OutputTypes
  <2> QED BY <2>1 DEF OutputRises
<1>2. OutputOrder'
  BY DEF OutputOrder, Own
<1>3. O!StoredInOrder'
  BY DEF O!StoredInOrder
<1> QED BY <1>1, <1>2, <1>3

LEMMA PaneShape ==
  ASSUME NEW p \in PaneType, NEW l \in 0..MaxLives
  PROVE  /\ [alive |-> FALSE, pipe |-> 0, shown |-> <<>>] \in PaneType
         /\ [p EXCEPT !.alive = TRUE] \in PaneType
         /\ [p EXCEPT !.alive = TRUE].pipe = p.pipe
         /\ [p EXCEPT !.alive = TRUE].shown = p.shown
         /\ [p EXCEPT !.pipe = l] \in PaneType
         /\ [p EXCEPT !.pipe = l].pipe = l
         /\ [p EXCEPT !.pipe = l].shown = p.shown
<1>1. <<>> \in Seq(1..MaxPrinted) /\ 0 \in 0..MaxLives
  BY Bounds
<1>2. [alive |-> FALSE, pipe |-> 0, shown |-> <<>>] \in PaneType
  BY <1>1 DEF PaneType
<1>3. /\ [p EXCEPT !.alive = TRUE] \in PaneType
      /\ [p EXCEPT !.alive = TRUE].pipe = p.pipe
      /\ [p EXCEPT !.alive = TRUE].shown = p.shown
  BY Zenon DEF PaneType
<1>4. /\ [p EXCEPT !.pipe = l] \in PaneType
      /\ [p EXCEPT !.pipe = l].pipe = l
      /\ [p EXCEPT !.pipe = l].shown = p.shown
  BY Zenon DEF PaneType
<1> QED BY <1>2, <1>3, <1>4

\* Lines on the screen.
LEMMA PaneShows ==
  ASSUME NEW p \in PaneType, NEW q \in Seq(1..MaxPrinted), NEW r, r = [p EXCEPT !.shown = q]
  PROVE  r \in PaneType /\ r.pipe = p.pipe /\ r.shown = q
<1>1. r \in PaneType
  BY Zenon DEF PaneType
<1>2. r.pipe = p.pipe /\ r.shown = q
  BY Zenon DEF PaneType
<1> QED BY <1>1, <1>2

LEMMA SpentShape ==
  ASSUME NEW s \in OutputSpent
  PROVE  /\ s.kills < MaxKills => /\ [s EXCEPT !.kills = @ + 1] \in OutputSpent
                                 /\ [s EXCEPT !.kills = @ + 1].lives = s.lives
         /\ s.faults < MaxErrors => /\ [s EXCEPT !.faults = @ + 1] \in OutputSpent
                                   /\ [s EXCEPT !.faults = @ + 1].lives = s.lives
         /\ s.lives < MaxLives => /\ [s EXCEPT !.lives = @ + 1] \in OutputSpent
                                 /\ [s EXCEPT !.lives = @ + 1].lives = s.lives + 1
         /\ s.lives \in 1..MaxLives
BY Bounds DEF OutputSpent

LEMMA StartShape ==
  ASSUME NEW c \in CaptureType, NEW s \in {"no", "snapshot", "yes"}, NEW d, d = [c EXCEPT !.started = s]
  PROVE  /\ d \in CaptureType
         /\ d.started = s
         /\ d.path = c.path
         /\ d.offset = c.offset
         /\ d.seq = c.seq
         /\ d.snapshot = c.snapshot
BY DEF CaptureType

LEMMA HashShape ==
  ASSUME NEW c \in CaptureType, NEW n \in 0..MaxPrinted, NEW d, d = [c EXCEPT !.hash = n]
  PROVE  /\ d \in CaptureType
         /\ d.started = c.started
         /\ d.path = c.path
         /\ d.offset = c.offset
         /\ d.seq = c.seq
         /\ d.snapshot = c.snapshot
BY DEF CaptureType

LEMMA SessionStops == OutputInv /\ (O!Kill \/ O!Resume) => OutputInv'
<1> SUFFICES ASSUME OutputInv, O!Kill \/ O!Resume PROVE OutputInv'
  OBVIOUS
<1> USE Bounds DEF OutputInv
<1>1. UNCHANGED <<o_file, o_capture, o_at, o_batch, o_stored, o_kept, o_mirror, o_printed>>
  BY DEF O!Kill, O!Resume
<1>t. o_spent \in OutputSpent /\ o_pane \in PaneType
  BY DEF OutputTypes
<1>2. UNCHANGED o_spent.lives /\ o_spent' \in OutputSpent
  BY <1>t, SpentShape DEF O!Kill, O!Resume
<1>3. /\ o_pane' \in PaneType
      /\ o_pane'.pipe = o_pane.pipe \/ o_pane'.pipe = 0
      /\ o_pane'.shown = o_pane.shown \/ o_pane'.shown = <<>>
  <2>1. \/ o_pane' = [alive |-> FALSE, pipe |-> 0, shown |-> <<>>]
        \/ o_pane' = [o_pane EXCEPT !.alive = TRUE]
    BY DEF O!Kill, O!Resume
  <2>2. CASE o_pane' = [alive |-> FALSE, pipe |-> 0, shown |-> <<>>]
    <3>1. [alive |-> FALSE, pipe |-> 0, shown |-> <<>>] \in PaneType
      BY <1>t, PaneShape, Bounds DEF PaneType
    <3> QED BY <2>2, <3>1
  <2>3. CASE o_pane' = [o_pane EXCEPT !.alive = TRUE]
    <3>1. <<>> \in Seq(1..MaxPrinted) /\ 0 \in 0..MaxLives
      BY Bounds
    <3> QED BY <1>t, <2>3, <3>1, PaneShape
  <2> QED BY <2>1, <2>2, <2>3
<1>4. OutputTypes'
  BY <1>1, <1>2, <1>3 DEF OutputTypes
<1>5. OutputPipes'
  <2>1. o_spent.lives \in Nat /\ o_spent.lives # 0
    <3>1. o_spent.lives \in 1..MaxLives
      BY <1>t, SpentShape
    <3> HIDE DEF OutputInv
    <3> QED BY <3>1
  <2> QED BY <1>1, <1>2, <1>3, <2>1 DEF OutputPipes, Own
<1> QED BY <1>1, <1>2, <1>3, <1>4, <1>5, OutputStays

LEMMA LoopTurns ==
  OutputInv /\ (O!StartPipes \/ O!RoundBegins \/ O!PollPublishes \/ O!SnapshotScreen) => OutputInv'
<1> SUFFICES ASSUME OutputInv,
                    O!StartPipes \/ O!RoundBegins \/ O!PollPublishes \/ O!SnapshotScreen
             PROVE  OutputInv'
  OBVIOUS
<1> USE Bounds DEF OutputInv
<1>l. o_spent.lives \in 1..MaxLives /\ o_capture \in CaptureType /\ Len(o_pane.shown) \in 0..MaxPrinted
  <2>1. o_pane.shown \in Seq(1..MaxPrinted) /\ o_printed \in 0..MaxPrinted
    BY DEF OutputTypes, PaneType
  <2>2. o_spent \in OutputSpent /\ o_capture \in CaptureType /\ Len(o_pane.shown) <= o_printed
    BY DEF OutputTypes, OutputRises
  <2> HIDE DEF OutputInv
  <2>3. o_spent.lives \in 1..MaxLives
    BY <2>2, SpentShape
  <2> QED BY <2>1, <2>2, <2>3
<1>1. UNCHANGED <<o_file, o_batch, o_stored, o_kept, o_printed>>
  BY DEF O!StartPipes, O!RoundBegins, O!PollPublishes, O!SnapshotScreen
<1>2. CASE O!StartPipes /\ o_pane.alive
  <2>1. /\ o_capture' = [o_capture EXCEPT !.started = "yes", !.path = o_spent.lives]
        /\ o_pane' = [o_pane EXCEPT !.pipe = o_spent.lives]
        /\ o_at' = "poll" /\ UNCHANGED <<o_mirror, o_spent>>
        /\ o_capture.started = "snapshot"
    BY <1>2 DEF O!StartPipes
  <2>2. /\ o_pane' \in PaneType
        /\ o_pane'.pipe = o_spent.lives /\ UNCHANGED o_pane.shown
    <3>1. o_pane \in PaneType /\ o_spent.lives \in 0..MaxLives /\ <<>> \in Seq(1..MaxPrinted)
      BY <1>l DEF OutputTypes
    <3> QED BY <2>1, <3>1, PaneShape
  <2>c. /\ o_capture' \in CaptureType /\ o_capture'.started = "yes"
        /\ o_capture'.path = o_spent.lives
        /\ UNCHANGED <<o_capture.offset, o_capture.seq, o_capture.snapshot>>
    <3>1. o_spent.lives \in 0..MaxLives
      BY <1>l
    <3>2. o_capture' = [o_capture EXCEPT !.started = "yes", !.path = o_spent.lives]
      BY <2>1
    <3> HIDE DEF OutputInv
    <3> QED BY <1>l, <3>1, <3>2 DEF CaptureType
  <2>3. OutputTypes'
    BY <1>1, <1>l, <2>1, <2>2, <2>c DEF OutputTypes
  <2>4. OutputPipes'
    BY <1>1, <1>l, <2>1, <2>2, <2>c DEF OutputPipes, Own
  <2> QED BY <1>1, <1>l, <2>1, <2>2, <2>3, <2>4, <2>c, OutputStays
<1>3. CASE O!StartPipes /\ ~o_pane.alive
  <2>1. /\ o_capture' = [o_capture EXCEPT !.started = "no"]
        /\ o_at' = "screen" /\ UNCHANGED <<o_pane, o_mirror, o_spent>>
        /\ o_capture.started = "snapshot"
    BY <1>3 DEF O!StartPipes
  <2>c. /\ o_capture' \in CaptureType /\ o_capture'.started = "no"
        /\ UNCHANGED <<o_capture.path, o_capture.offset, o_capture.seq, o_capture.snapshot>>
    <3> HIDE DEF OutputInv
    <3> QED BY <1>l, <2>1, StartShape
  <2>3. OutputTypes'
    BY <1>1, <1>l, <2>1, <2>c DEF OutputTypes
  <2>4. OutputPipes'
    BY <1>1, <1>l, <2>1, <2>c DEF OutputPipes, Own
  <2> QED BY <1>1, <1>l, <2>1, <2>3, <2>4, <2>c, OutputStays
<1>4. CASE O!RoundBegins \/ O!PollPublishes
  <2>1. /\ UNCHANGED <<o_pane, o_capture, o_mirror, o_spent>>
        /\ o_at' \in {"poll", "screen"} /\ o_capture.started = "yes" /\ o_batch = <<>>
    BY <1>4 DEF O!RoundBegins, O!PollPublishes, OutputPipes
  <2>3. OutputTypes'
    BY <1>1, <2>1 DEF OutputTypes
  <2>4. OutputPipes'
    BY <1>1, <2>1 DEF OutputPipes, Own
  <2> QED BY <1>1, <2>1, <2>3, <2>4, OutputStays
<1>5. CASE O!SnapshotScreen
  <2>1. /\ o_capture' = [o_capture EXCEPT !.hash = Len(o_pane.shown)]
        /\ o_at = "screen" /\ o_at' = "round" /\ UNCHANGED o_pane
        /\ o_mirror' \in {o_mirror, Len(o_pane.shown)}
    BY <1>5 DEF O!SnapshotScreen, O!Captured
  <2>2. /\ UNCHANGED o_spent.lives
        /\ o_spent' \in OutputSpent
    BY <1>5, SpentShape DEF O!SnapshotScreen, OutputTypes
  <2>c. /\ o_capture' \in CaptureType
        /\ UNCHANGED <<o_capture.started, o_capture.path, o_capture.offset, o_capture.seq,
                       o_capture.snapshot>>
    <3> HIDE DEF OutputInv
    <3> QED BY <1>l, <2>1, HashShape
  <2>3. OutputTypes'
    BY <1>1, <1>l, <2>1, <2>2, <2>c DEF OutputTypes
  <2>4. OutputPipes'
    BY <1>1, <1>l, <2>1, <2>2, <2>c DEF OutputPipes, Own
  <2> QED BY <1>1, <1>l, <2>1, <2>2, <2>3, <2>4, <2>c, OutputStays
<1> QED BY <1>2, <1>3, <1>4, <1>5

LEMMA ScreenIsTaken == OutputInv /\ O!StartSnapshots => OutputInv'
<1> SUFFICES ASSUME OutputInv, O!StartSnapshots PROVE OutputInv'
  OBVIOUS
<1> USE Bounds DEF OutputInv
<1>1. /\ o_capture' = [o_capture EXCEPT !.started = "snapshot", !.snapshot = o_pane.shown]
      /\ o_capture.started = "no" /\ o_at = "round"
      /\ UNCHANGED <<o_pane, o_file, o_at, o_batch, o_stored, o_kept, o_mirror, o_printed, o_spent>>
  BY DEF O!StartSnapshots
<1>2. o_capture \in CaptureType /\ o_pane.shown \in Seq(1..MaxPrinted) /\ Own = <<>>
  BY <1>1 DEF OutputTypes, OutputPipes, PaneType
<1>3. /\ o_capture' \in CaptureType /\ o_capture'.started = "snapshot"
      /\ o_capture'.snapshot = o_pane.shown
      /\ UNCHANGED <<o_capture.path, o_capture.offset, o_capture.seq>>
  BY <1>1, <1>2 DEF CaptureType
<1>4. OutputTypes' /\ O!StoredInOrder'
  BY <1>1, <1>3 DEF OutputTypes, O!StoredInOrder
<1>5. OutputRises'
  BY <1>1, <1>3 DEF OutputRises
<1>6. OutputPipes' /\ Own' = <<>>
  BY <1>1, <1>2, <1>3 DEF OutputPipes, Own
<1>7. OutputOrder'
  BY <1>1, <1>2, <1>3, <1>6 DEF OutputOrder
<1> QED BY <1>4, <1>5, <1>6, <1>7

LEMMA LineIsPrinted == OutputInv /\ O!PrintLine => OutputInv'
<1> SUFFICES ASSUME OutputInv, O!PrintLine PROVE OutputInv'
  OBVIOUS
<1> DEFINE p == o_printed
           l == o_spent.lives
           w(q) == Append(q, p + 1)
<1>1. /\ o_printed' = o_printed + 1 /\ o_printed < MaxPrinted
      /\ o_pane' = [o_pane EXCEPT !.shown = w(@)]
      /\ o_file' = IF o_pane.pipe = 0 THEN o_file
                   ELSE [o_file EXCEPT ![o_pane.pipe] = w(@)]
      /\ UNCHANGED <<o_capture, o_at, o_batch, o_stored, o_kept, o_mirror, o_spent>>
  BY DEF O!PrintLine
<1>2. /\ p \in Nat /\ p + 1 <= MaxPrinted /\ p + 1 \in 1..MaxPrinted
      /\ o_pane \in PaneType /\ o_pane.pipe \in 0..MaxLives
      /\ o_file \in [1..MaxLives -> Seq(1..MaxPrinted)]
      /\ l \in 1..MaxLives
  <2>1. o_spent \in OutputSpent /\ o_pane \in PaneType /\ p \in 0..MaxPrinted
        /\ o_file \in [1..MaxLives -> Seq(1..MaxPrinted)]
    BY DEF OutputInv, OutputTypes
  <2>2. l \in 1..MaxLives
    BY <2>1, SpentShape
  <2>3. o_pane.pipe \in 0..MaxLives
    BY <2>1 DEF PaneType
  <2> QED BY <1>1, <2>1, <2>2, <2>3, Bounds
<1>3. \A q : Rising(q, p) =>
        /\ Rising(w(q), p + 1) /\ Len(w(q)) = Len(q) + 1
        /\ \A i \in 1..Len(q) : w(q)[i] = q[i]
        /\ w(q)[Len(q) + 1] = p + 1
        /\ w(q) \in Seq(1..MaxPrinted) /\ Len(q) \in Nat
  <2> SUFFICES ASSUME NEW q, Rising(q, p)
               PROVE  /\ Rising(w(q), p + 1) /\ Len(w(q)) = Len(q) + 1
                      /\ \A i \in 1..Len(q) : w(q)[i] = q[i]
                      /\ w(q)[Len(q) + 1] = p + 1
                      /\ w(q) \in Seq(1..MaxPrinted) /\ Len(q) \in Nat
    OBVIOUS
  <2>1. /\ Rising(w(q), p + 1) /\ Len(w(q)) = Len(q) + 1
        /\ \A i \in 1..Len(q) : w(q)[i] = q[i]
        /\ w(q)[Len(q) + 1] = p + 1
    BY <1>2, RisingAppended
  <2>2. w(q) \in Seq(1..p + 1) /\ q \in Seq(1..p)
    BY <2>1 DEF Rising
  <2>3. 1..p + 1 \subseteq 1..MaxPrinted
    BY <1>2, Bounds
  <2>4. w(q) \in Seq(1..MaxPrinted)
    <3> HIDE DEF w
    <3> QED BY <2>2, <2>3, Wider
  <2>5. Len(q) \in Nat
    BY <2>2
  <2> QED BY <2>1, <2>4, <2>5
<1>4. \A q : Rising(q, p) => Rising(q, p + 1)
  BY <1>2, RisingMore
<1> HIDE DEF w
<1>5. /\ Rising(o_pane.shown, p) /\ Len(o_pane.shown) <= p
      /\ \A f \in 1..MaxLives : Rising(o_file[f], p) /\ Len(o_file[f]) <= p
      /\ Rising(o_capture.snapshot, p) /\ Rising(o_batch, p)
  BY DEF OutputInv, OutputRises
\* Each file is as it was, or has the line at its end.
<1>6. /\ o_file' \in [1..MaxLives -> Seq(1..MaxPrinted)]
      /\ \A f \in 1..MaxLives : \/ o_file'[f] = o_file[f]
                                \/ f = o_pane.pipe /\ o_file'[f] = w(o_file[f])
  <2>1. CASE o_pane.pipe = 0
    BY <1>1, <1>2, <2>1
  <2>2. CASE o_pane.pipe # 0
    <3>1. o_pane.pipe \in 1..MaxLives
      BY <1>2, <2>2, Bounds
    <3>2. w(o_file[o_pane.pipe]) \in Seq(1..MaxPrinted)
      BY <1>3, <1>5, <3>1
    <3> QED BY <1>1, <1>2, <2>2, <3>1, <3>2
  <2> QED BY <2>1, <2>2
<1>7. o_pane' \in PaneType /\ o_pane'.pipe = o_pane.pipe /\ o_pane'.shown = w(o_pane.shown)
  <2>1. w(o_pane.shown) \in Seq(1..MaxPrinted)
    BY <1>3, <1>5
  <2>2. o_pane' = [o_pane EXCEPT !.shown = w(o_pane.shown)]
    BY <1>1
  <2>3. PICK q : q = w(o_pane.shown)
    OBVIOUS
  <2>4. q \in Seq(1..MaxPrinted) /\ o_pane' = [o_pane EXCEPT !.shown = q]
    BY <2>1, <2>2, <2>3
  <2>5. o_pane' \in PaneType /\ o_pane'.pipe = o_pane.pipe /\ o_pane'.shown = q
    BY <1>2, <2>4, PaneShows
  <2> QED BY <2>3, <2>5
<1>8. OutputTypes'
  <2>1. o_kept \subseteq 1..p /\ p + 1 \in 0..MaxPrinted
    BY <1>2 DEF OutputInv, OutputTypes
  <2>2. o_kept \subseteq 1..p + 1
    BY <1>2, <2>1
  <2> QED BY <1>1, <1>6, <1>7, <2>1, <2>2 DEF OutputInv, OutputTypes
<1>9. OutputRises'
  <2>1. ASSUME NEW f \in 1..MaxLives PROVE Rising(o_file'[f], p + 1) /\ Len(o_file'[f]) <= p + 1
    <3>1. Rising(o_file[f], p) /\ Len(o_file[f]) <= p
      BY <1>5
    <3> QED BY <1>2, <1>3, <1>4, <1>6, <3>1
  <2>2. Rising(o_pane'.shown, p + 1) /\ Len(o_pane'.shown) <= p + 1
    BY <1>2, <1>3, <1>5, <1>7
  <2>3. Rising(o_capture.snapshot, p + 1) /\ Rising(o_batch, p + 1)
    BY <1>4, <1>5
  <2> QED BY <1>1, <2>1, <2>2, <2>3 DEF OutputRises
\* So has the file of this life, if it has started.
<1>10. /\ Own \in Seq(1..MaxPrinted) /\ Own' \in Seq(1..MaxPrinted)
       /\ \/ Own' = Own
          \/ /\ o_capture.started = "yes" /\ Len(Own') = Len(Own) + 1
             /\ \A j \in 1..Len(Own) : Own'[j] = Own[j]
             /\ Own'[Len(Own) + 1] = p + 1
  <2>1. Own = o_file[l] /\ Own' = o_file'[l] /\ Rising(o_file[l], p)
    BY <1>1, <1>2, <1>5 DEF Own
  <2>2. \/ o_file'[l] = o_file[l]
        \/ l = o_pane.pipe /\ o_file'[l] = w(o_file[l])
    BY <1>2, <1>6
  <2>3. o_pane.pipe = l => o_capture.started = "yes"
    BY DEF OutputInv, OutputPipes
  <2> QED BY <1>2, <1>3, <1>6, <2>1, <2>2, <2>3
<1>11. OutputPipes'
  <2>1. ASSUME NEW f \in 1..MaxLives, f > l PROVE o_file'[f] = <<>>
    <3>1. f # o_pane.pipe /\ o_file[f] = <<>>
      BY <1>2, <2>1 DEF OutputInv, OutputPipes
    <3> QED BY <1>6, <3>1
  <2>2. o_capture.offset <= Len(Own')
    <3>1. o_capture.offset <= Len(Own) /\ o_capture.offset \in Nat /\ Len(Own) \in Nat
      BY <1>10 DEF OutputInv, OutputPipes, OutputTypes, CaptureType
    <3> QED BY <1>10, <3>1
  <2>3. o_capture.started # "yes" => Own' = <<>>
    BY <1>10 DEF OutputInv, OutputPipes
  <2> QED BY <1>1, <1>7, <2>1, <2>2, <2>3 DEF OutputInv, OutputPipes
\* The new line is past all others.
<1>12. OutputOrder'
  <2>1. ASSUME NEW x \in 1..p, NEW j \in 1..Len(Own')
        PROVE  x < Own'[j] \/ (j \in 1..Len(Own) /\ Own'[j] = Own[j])
    <3>1. Len(Own) \in Nat
      BY <1>10
    <3>2. CASE Own' = Own
      BY <2>1, <3>2
    <3>3. CASE j = Len(Own) + 1 /\ Own'[j] = p + 1
      BY <1>2, <2>1, <3>3
    <3> QED BY <1>10, <2>1, <3>1, <3>2, <3>3
  <2>2. /\ \A i \in 1..Len(o_capture.snapshot) : o_capture.snapshot[i] \in 1..p
        /\ \A i \in 1..Len(o_batch) : o_batch[i] \in 1..p
    BY <1>5, RisingIn
  <2>3. \A k \in 1..Len(o_stored) : o_stored[k].line \in 1..p
    <3>1. ASSUME NEW k \in 1..Len(o_stored) PROVE o_stored[k].line \in 1..p
      <4>1. o_stored[k] \in O!Entries
        BY DEF OutputInv, OutputTypes
      <4>2. o_stored[k].line \in 1..MaxPrinted /\ o_stored[k].line <= p
        BY <4>1 DEF OutputInv, OutputOrder, O!Entries
      <4> QED BY <1>2, <4>2, Bounds
    <3> QED BY <3>1
  <2>4. Len(o_capture.snapshot) \in Nat /\ Len(o_batch) \in Nat
    BY <1>5 DEF Rising
  <2>5. OutputOrder
    BY DEF OutputInv
  <2>6. ASSUME NEW i \in 1..Len(o_capture.snapshot), NEW j \in 1..Len(Own')
        PROVE  o_capture.snapshot[i] < Own'[j]
    BY <2>1, <2>2, <2>5, <2>6 DEF OutputOrder
  <2>7. ASSUME NEW i \in 1..Len(o_batch), NEW j \in 1..Len(Own'), j > o_capture.offset
        PROVE  o_batch[i] < Own'[j]
    BY <2>1, <2>2, <2>5, <2>7 DEF OutputOrder
  <2>8. ASSUME NEW k \in 1..Len(o_stored)
        PROVE  /\ o_stored[k].pipe <= l /\ o_stored[k].line <= p + 1
               /\ o_stored[k].pipe = l =>
                    /\ o_capture.started = "yes" /\ o_capture.snapshot = <<>>
                    /\ \A i \in 1..Len(o_batch) : o_stored[k].line < o_batch[i]
                    /\ \A j \in 1..Len(Own') : j > o_capture.offset => o_stored[k].line < Own'[j]
               /\ o_capture.seq # 0 => o_stored[k].seq < o_capture.seq
    <3>1. o_stored[k].line <= p + 1
      BY <1>2, <2>3
    <3>2. ASSUME o_stored[k].pipe = l, NEW j \in 1..Len(Own'), j > o_capture.offset
          PROVE  o_stored[k].line < Own'[j]
      BY <2>1, <2>3, <2>5, <3>2 DEF OutputOrder
    <3> QED BY <2>5, <3>1, <3>2 DEF OutputOrder
  <2> QED BY <1>1, <2>6, <2>7, <2>8 DEF OutputOrder
<1>13. O!StoredInOrder'
  BY <1>1 DEF OutputInv, O!StoredInOrder
<1> QED BY <1>8, <1>9, <1>11, <1>12, <1>13 DEF OutputInv

LEMMA LinesAreRead == OutputInv /\ O!PollReads => OutputInv'
<1> SUFFICES ASSUME OutputInv, O!PollReads PROVE OutputInv'
  OBVIOUS
<1> DEFINE p == o_printed
           n == o_capture.offset
           first == o_capture.snapshot
           rest == SubSeq(Own, n + 1, Len(Own))
<1>t. /\ o_capture \in CaptureType /\ p \in Nat /\ p <= MaxPrinted /\ o_spent.lives \in 1..MaxLives
      /\ o_stored \in Seq(O!Entries)
  <2>1. o_spent \in OutputSpent /\ o_capture \in CaptureType /\ p \in 0..MaxPrinted
        /\ o_stored \in Seq(O!Entries)
    BY DEF OutputInv, OutputTypes
  <2>2. o_spent.lives \in 1..MaxLives
    BY <2>1, SpentShape
  <2> QED BY <2>1, <2>2, Bounds
<1>s. o_at = "poll" /\ o_capture.started = "yes" /\ o_file[o_capture.path] = Own
  BY DEF O!PollReads, OutputInv, OutputPipes, Own
<1>1. /\ o_batch' = first \o rest
      /\ o_capture' = [o_capture EXCEPT !.snapshot = <<>>, !.offset = Len(Own)]
      /\ o_at' \in {"screen", "persist"} /\ (o_at' # "persist" => o_batch' = <<>>)
      /\ UNCHANGED <<o_pane, o_file, o_stored, o_kept, o_mirror, o_printed, o_spent>>
  BY <1>s DEF O!PollReads
<1>2. Rising(Own, p) /\ Rising(first, p) /\ Len(Own) <= p
  BY <1>t DEF OutputInv, OutputRises, Own
<1>3. Len(Own) \in 0..MaxPrinted /\ n \in Nat /\ n <= Len(Own)
  <2>1. Len(Own) \in Nat
    BY <1>2, RisingIn
  <2>2. n \in Nat
    BY <1>t DEF CaptureType
  <2> QED BY <1>2, <1>t, <2>1, <2>2, Bounds DEF OutputInv, OutputPipes
<1>4. /\ Rising(rest, p) /\ Len(rest) = Len(Own) - n
      /\ \A i \in 1..Len(Own) - n : rest[i] = Own[n + i]
  <2>1. p \in Nat /\ Rising(Own, p) /\ n \in Nat /\ n <= Len(Own)
    BY <1>2, <1>3, <1>t
  <2> HIDE DEF p, n
  <2> QED BY <2>1, RisingRest
<1> HIDE DEF rest
<1>5. \A i \in 1..Len(first), j \in 1..Len(rest) : first[i] < rest[j]
  <2>1. ASSUME NEW i \in 1..Len(first), NEW j \in 1..Len(rest) PROVE first[i] < rest[j]
    <3>1. rest[j] = Own[n + j] /\ n + j \in 1..Len(Own)
      <4>1. j \in 1..Len(Own) - n /\ Len(Own) \in Nat /\ n \in Nat
        BY <1>3, <1>4
      <4>2. n + j \in 1..Len(Own)
        <5> HIDE DEF n
        <5> QED BY <4>1, RestIndex
      <4> QED BY <1>4, <4>1, <4>2
    <3> QED BY <3>1 DEF OutputInv, OutputOrder
  <2> QED BY <2>1
<1>6. /\ Rising(first \o rest, p)
      /\ Len(first \o rest) = Len(first) + Len(rest)
      /\ first = <<>> => \A i \in 1..Len(rest) : (first \o rest)[i] = rest[i]
  <2>1. /\ Rising(first \o rest, p) /\ Len(first \o rest) = Len(first) + Len(rest)
        /\ \A i \in Len(first) + 1..Len(first) + Len(rest) : (first \o rest)[i] = rest[i - Len(first)]
    <3>1. Rising(first, p) /\ Rising(rest, p) /\ p \in Nat
      BY <1>2, <1>4, <1>t
    <3> HIDE DEF first, p
    <3> QED BY <1>5, <3>1, RisingJoined
  <2>2. ASSUME first = <<>>, NEW i \in 1..Len(rest) PROVE (first \o rest)[i] = rest[i]
    <3>1. Len(first) = 0 /\ Len(rest) \in Nat
      BY <2>2, <1>4, RisingIn
    <3>2. i \in Len(first) + 1..Len(first) + Len(rest) /\ i - Len(first) = i
      BY <3>1
    <3> QED BY <2>1, <3>2
  <2> QED BY <2>1, <2>2
<1>7. /\ o_capture' \in CaptureType
      /\ o_capture'.snapshot = <<>> /\ o_capture'.offset = Len(Own)
      /\ UNCHANGED <<o_capture.started, o_capture.path, o_capture.seq>>
  <2> DEFINE c == [o_capture EXCEPT !.snapshot = <<>>, !.offset = Len(Own)]
  <2>1. <<>> \in Seq(1..MaxPrinted)
    OBVIOUS
  <2>2. c \in CaptureType
    BY <1>3, <1>t, <2>1 DEF CaptureType
  <2>3. c.snapshot = <<>> /\ c.offset = Len(Own)
    BY <1>t DEF CaptureType
  <2>4. c.started = o_capture.started /\ c.path = o_capture.path /\ c.seq = o_capture.seq
    BY <1>t DEF CaptureType
  <2>5. o_capture' = c
    BY <1>1
  <2> HIDE DEF c
  <2> QED BY <2>2, <2>3, <2>4, <2>5
<1>8. OutputTypes'
  BY <1>1, <1>7 DEF OutputInv, OutputTypes
<1>9. OutputRises'
  <2>1. Rising(<<>>, p)
    BY <1>t, RisingNone
  <2> QED BY <1>1, <1>6, <1>7, <2>1 DEF OutputInv, OutputRises
<1>10. Own' = Own
  BY <1>1 DEF Own
<1>11. OutputPipes'
  <2>1. Len(Own) <= Len(Own)
    BY <1>3
  <2> QED BY <1>1, <1>7, <1>10, <1>s, <2>1 DEF OutputInv, OutputPipes
<1>12. OutputOrder'
  <2>1. ASSUME NEW k \in 1..Len(o_stored), o_stored[k].pipe = o_spent.lives
        PROVE  /\ o_capture'.started = "yes"
               /\ \A i \in 1..Len(o_batch') : o_stored[k].line < o_batch'[i]
    <3>1. /\ first = <<>>
          /\ \A j \in 1..Len(Own) : j > n => o_stored[k].line < Own[j]
      BY <2>1 DEF OutputInv, OutputOrder
    <3>2. ASSUME NEW i \in 1..Len(o_batch') PROVE o_stored[k].line < o_batch'[i]
      <4>1. i \in 1..Len(rest) /\ o_batch'[i] = rest[i]
        <5>1. Len(first) = 0 /\ Len(rest) \in Nat
          BY <3>1, <1>4, RisingIn
        <5> QED BY <1>1, <1>6, <3>1, <5>1
      <4>2. rest[i] = Own[n + i] /\ n + i \in 1..Len(Own) /\ n + i > n
        <5>1. i \in 1..Len(Own) - n /\ Len(Own) \in Nat /\ n \in Nat
          BY <1>3, <1>4, <4>1
        <5>2. n + i \in 1..Len(Own) /\ n + i > n
          <6> HIDE DEF n
          <6> QED BY <5>1, RestIndex
        <5> QED BY <1>4, <5>1, <5>2
      <4> QED BY <3>1, <4>1, <4>2
    <3> QED BY <1>7, <1>s, <3>2
  <2>2. \A k \in 1..Len(o_stored) :
          /\ o_stored[k].pipe <= o_spent.lives /\ o_stored[k].line <= p
          /\ o_capture.seq # 0 => o_stored[k].seq < o_capture.seq
    BY DEF OutputInv, OutputOrder
  <2>3. \A j \in 1..Len(Own) : ~(j > Len(Own))
    BY <1>3
  <2>4. Len(o_capture'.snapshot) = 0
    BY <1>7
  <2>5. \A i \in 1..Len(o_capture'.snapshot) : FALSE
    BY <2>4
  <2> HIDE DEF first
  <2> QED BY <1>1, <1>7, <1>10, <2>1, <2>2, <2>3, <2>5 DEF OutputOrder
<1>13. O!StoredInOrder'
  BY <1>1 DEF OutputInv, O!StoredInOrder
<1> QED BY <1>8, <1>9, <1>11, <1>12, <1>13 DEF OutputInv

\* The highest number so far is below the next one.
LEMMA NextNumber ==
  ASSUME OutputInv
  PROVE  /\ O!CurrentSeq \in Nat \ {0}
         /\ \A k \in 1..Len(o_stored) : o_stored[k].seq < O!CurrentSeq
<1>1. /\ o_capture.seq \in Nat /\ o_stored \in Seq(O!Entries) /\ Len(o_stored) \in Nat
      /\ \A k \in 1..Len(o_stored) : o_stored[k] \in O!Entries
  <2>1. o_capture \in CaptureType /\ o_stored \in Seq(O!Entries)
    BY DEF OutputInv, OutputTypes
  <2> QED BY <2>1 DEF CaptureType
<1>2. \A k \in 1..Len(o_stored) : o_stored[k].seq \in Nat \ {0}
  BY <1>1 DEF O!Entries
<1>3. CASE o_capture.seq # 0
  BY <1>1, <1>3 DEF O!CurrentSeq, OutputInv, OutputOrder
<1>4. CASE o_capture.seq = 0 /\ o_stored = <<>>
  <2>1. O!CurrentSeq = 1
    BY <1>4 DEF O!CurrentSeq
  <2> QED BY <1>4, <2>1
<1>5. CASE o_capture.seq = 0 /\ o_stored # <<>>
  <2> DEFINE n == Len(o_stored)
  <2>1. n \in 1..n /\ O!CurrentSeq = o_stored[n].seq + 1 /\ DOMAIN o_stored = 1..n
    BY <1>1, <1>5 DEF O!CurrentSeq
  <2>2. o_stored[n].seq \in Nat
    BY <1>2, <2>1
  <2>3. ASSUME NEW k \in 1..n PROVE o_stored[k].seq <= o_stored[n].seq
    <3>1. CASE k = n
      BY <2>2, <3>1
    <3>2. CASE k # n
      <4>1. k < n
        BY <1>1, <2>3, <3>2
      <4> QED BY <1>2, <2>1, <2>2, <2>3, <4>1 DEF OutputInv, O!StoredInOrder
    <3> QED BY <3>1, <3>2
  <2> QED BY <1>2, <2>1, <2>2, <2>3
<1> QED BY <1>3, <1>4, <1>5

LEMMA LinesAreStored == OutputInv /\ O!PollPersists => OutputInv'
<1> SUFFICES ASSUME OutputInv, O!PollPersists PROVE OutputInv'
  OBVIOUS
<1> DEFINE p == o_printed
           l == o_spent.lives
           c == O!CurrentSeq
           more == O!Numbered
<1>t. /\ o_capture \in CaptureType /\ p \in Nat /\ p <= MaxPrinted /\ l \in 1..MaxLives
      /\ o_stored \in Seq(O!Entries) /\ Len(o_stored) \in Nat /\ o_spent \in OutputSpent
      /\ c \in Nat \ {0}
      /\ \A k \in 1..Len(o_stored) : o_stored[k].seq \in Nat /\ o_stored[k].seq < c
  <2>1. o_spent \in OutputSpent /\ o_capture \in CaptureType /\ p \in 0..MaxPrinted
        /\ o_stored \in Seq(O!Entries)
    BY DEF OutputInv, OutputTypes
  <2>2. l \in 1..MaxLives
    BY <2>1, SpentShape
  <2>3. Len(o_stored) \in Nat /\ \A k \in 1..Len(o_stored) : o_stored[k] \in O!Entries
    BY <2>1
  <2>4. \A k \in 1..Len(o_stored) : o_stored[k].seq \in Nat
    BY <2>3 DEF O!Entries
  <2>5. c \in Nat \ {0} /\ \A k \in 1..Len(o_stored) : o_stored[k].seq < c
    BY NextNumber
  <2> HIDE DEF c
  <2> QED BY <2>1, <2>2, <2>3, <2>4, <2>5, Bounds
<1> HIDE DEF c
<1>s. o_at = "persist" /\ o_capture.started = "yes" /\ o_capture.path = l
  BY DEF O!PollPersists, OutputInv, OutputPipes
<1>1. /\ o_capture' = [o_capture EXCEPT !.seq = c + Len(o_batch)]
      /\ o_batch' = <<>> /\ o_at' \in {"trim", "screen"}
      /\ UNCHANGED <<o_pane, o_file, o_mirror, o_printed>>
  BY DEF O!PollPersists, c
<1>2. Rising(o_batch, p) /\ Len(o_batch) \in Nat
      /\ \A i \in 1..Len(o_batch) : o_batch[i] \in 1..p
  BY RisingIn DEF OutputInv, OutputRises
<1>3. /\ o_capture' \in CaptureType /\ o_capture'.seq = c + Len(o_batch)
      /\ UNCHANGED <<o_capture.started, o_capture.path, o_capture.offset, o_capture.snapshot>>
  <2>1. c + Len(o_batch) \in Nat
    BY <1>t, <1>2
  <2> QED BY <1>1, <1>t, <2>1 DEF CaptureType
<1>4. o_spent' \in OutputSpent /\ UNCHANGED o_spent.lives
  BY <1>t, SpentShape DEF O!PollPersists
<1>5. Own' = Own
  BY <1>1, <1>4 DEF Own
<1>6. OutputPipes'
  BY <1>1, <1>3, <1>4, <1>5, <1>s DEF OutputInv, OutputPipes
<1>7. OutputRises'
  <2>1. Rising(<<>>, p)
    BY <1>t, RisingNone
  <2> QED BY <1>1, <1>3, <2>1 DEF OutputInv, OutputRises
<1>8. CASE UNCHANGED <<o_stored, o_kept>>
  <2>1. OutputTypes'
    BY <1>1, <1>3, <1>4, <1>8 DEF OutputInv, OutputTypes
  <2>2. OutputOrder'
    <3>1. ASSUME NEW k \in 1..Len(o_stored) PROVE o_stored[k].seq < c + Len(o_batch)
      BY <1>t, <1>2, <3>1
    <3>2. Len(o_batch') = 0
      BY <1>1
    <3>3. \A i \in 1..Len(o_batch') : FALSE
      BY <3>2
    <3> QED BY <1>1, <1>3, <1>4, <1>5, <1>8, <3>1, <3>3 DEF OutputInv, OutputOrder
  <2>3. O!StoredInOrder'
    BY <1>8 DEF OutputInv, O!StoredInOrder
  <2> QED BY <1>6, <1>7, <2>1, <2>2, <2>3 DEF OutputInv
\* What is stored is followed by the batch, numbered on.
<1>9. CASE o_stored' = o_stored \o more /\ o_kept' = o_kept \cup O!LinesOf(o_batch)
  <2>1. /\ DOMAIN o_batch = 1..Len(o_batch)
        /\ more = [i \in 1..Len(o_batch) |->
                     [seq |-> c + i - 1, line |-> o_batch[i], pipe |-> l]]
    BY <1>2, <1>s DEF O!Numbered, c, Rising
  <2>2. \A i \in 1..Len(o_batch) : /\ more[i] \in O!Entries /\ more[i].seq = c + i - 1
                                   /\ more[i].line = o_batch[i] /\ more[i].pipe = l
    <3>1. ASSUME NEW i \in 1..Len(o_batch)
          PROVE  /\ more[i] \in O!Entries /\ more[i].seq = c + i - 1
                 /\ more[i].line = o_batch[i] /\ more[i].pipe = l
      <4>1. more[i] = [seq |-> c + i - 1, line |-> o_batch[i], pipe |-> l]
        BY <2>1
      <4>2. c + i - 1 \in Nat \ {0} /\ o_batch[i] \in 1..MaxPrinted /\ l \in 1..O!MaxFiles
        BY <1>t, <1>2, Bounds
      <4> HIDE DEF more
      <4> QED BY <4>1, <4>2 DEF O!Entries
    <3> QED BY <3>1
  <2>3. more \in Seq(O!Entries) /\ Len(more) = Len(o_batch)
    <3> HIDE DEF more
    <3> QED BY <1>2, <2>1, <2>2
  <2> HIDE DEF more
  <2> DEFINE a == Len(o_stored)
             w == o_stored'
  <2>4. /\ w \in Seq(O!Entries) /\ Len(w) = a + Len(o_batch)
        /\ \A k \in 1..a : w[k] = o_stored[k]
        /\ \A k \in a + 1..a + Len(o_batch) : w[k] = more[k - a]
    BY <1>t, <1>9, <2>3
  <2> HIDE DEF w
  <2>n. c \in Nat \ {0} /\ a \in Nat /\ Len(o_batch) \in Nat
    BY <1>t, <1>2
  <2>5. \A k \in 1..Len(w) : \/ k \in 1..a
                             \/ k \in a + 1..a + Len(o_batch) /\ k - a \in 1..Len(o_batch)
    BY <1>t, <1>2, <2>4
  <2>6. OutputTypes'
    <3>1. o_kept' \subseteq 1..p
      <4>1. O!LinesOf(o_batch) \subseteq 1..p
        BY <1>2, <2>1 DEF O!LinesOf
      <4> QED BY <1>9, <4>1 DEF OutputInv, OutputTypes
    <3> QED BY <1>1, <1>3, <1>4, <2>4, <3>1 DEF OutputInv, OutputTypes, w
  <2>7. OutputOrder'
    <3>1. ASSUME NEW k \in 1..Len(w)
          PROVE  /\ w[k].pipe <= l /\ w[k].line <= p /\ w[k].seq < c + Len(o_batch)
                 /\ w[k].pipe = l =>
                      /\ o_capture.snapshot = <<>>
                      /\ \A j \in 1..Len(Own) : j > o_capture.offset => w[k].line < Own[j]
      <4>1. CASE k \in 1..a
        <5>1. w[k] = o_stored[k]
          BY <2>4, <4>1
        <5>2. w[k].seq < c + Len(o_batch)
          BY <1>t, <1>2, <4>1, <5>1
        <5> QED BY <4>1, <5>1, <5>2 DEF OutputInv, OutputOrder
      <4>2. CASE k \in a + 1..a + Len(o_batch) /\ k - a \in 1..Len(o_batch)
        <5>1. w[k] = more[k - a]
          BY <2>4, <4>2
        <5>2. w[k].seq = c + (k - a) - 1 /\ w[k].line = o_batch[k - a] /\ w[k].pipe = l
          BY <2>2, <4>2, <5>1
        <5>3. w[k].seq < c + Len(o_batch)
          <6>1. ASSUME NEW x \in 1..Len(o_batch) PROVE c + x - 1 < c + Len(o_batch)
            BY <2>n, <6>1
          <6>2. c + (k - a) - 1 < c + Len(o_batch)
            BY <4>2, <6>1
          <6> QED BY <5>2, <6>2
        <5>5. w[k].pipe <= l /\ w[k].line <= p
          <6>1. o_batch[k - a] \in 1..p
            BY <1>2, <4>2
          <6> QED BY <1>t, <5>2, <6>1
        <5>6. o_capture.snapshot = <<>>
          BY <1>s DEF OutputInv, OutputPipes
        <5>4. \A j \in 1..Len(Own) : j > o_capture.offset => w[k].line < Own[j]
          BY <4>2, <5>2 DEF OutputInv, OutputOrder
        <5> QED BY <5>3, <5>4, <5>5, <5>6
      <4> QED BY <2>5, <4>1, <4>2
    <3>2. Len(o_batch') = 0
      BY <1>1
    <3>3. \A i \in 1..Len(o_batch') : FALSE
      BY <3>2
    <3>4. \A i \in 1..Len(o_capture.snapshot), j \in 1..Len(Own) : o_capture.snapshot[i] < Own[j]
      BY DEF OutputInv, OutputOrder
    <3> HIDE DEF a
    <3> QED BY <1>1, <1>3, <1>4, <1>5, <1>s, <3>1, <3>3, <3>4 DEF OutputOrder, w
  <2>8. O!StoredInOrder'
    <3>1. ASSUME NEW i \in 1..Len(w), NEW j \in 1..Len(w), i < j
          PROVE  /\ w[i].seq < w[j].seq
                 /\ w[i].pipe = w[j].pipe => w[i].line < w[j].line
      <4>1. CASE j \in 1..a
        <5>1. i \in 1..a /\ w[i] = o_stored[i] /\ w[j] = o_stored[j]
          BY <1>t, <2>4, <3>1, <4>1
        <5>2. DOMAIN o_stored = 1..a
          BY <1>t
        <5> QED BY <3>1, <4>1, <5>1, <5>2 DEF OutputInv, O!StoredInOrder
      <4>2. CASE i \in 1..a /\ j \in a + 1..a + Len(o_batch) /\ j - a \in 1..Len(o_batch)
        <5>1. w[i] = o_stored[i] /\ w[j] = more[j - a]
          BY <2>4, <4>2
        <5>2. w[j].seq = c + (j - a) - 1 /\ w[j].line = o_batch[j - a] /\ w[j].pipe = l
          BY <2>2, <4>2, <5>1
        <5>3. w[i].seq < w[j].seq
          <6>1. w[i].seq < c /\ w[i].seq \in Nat
            BY <1>t, <4>2, <5>1
          <6>2. ASSUME NEW x \in 1..Len(o_batch), NEW y \in Nat, y < c PROVE y < c + x - 1
            BY <2>n, <6>2
          <6>3. w[i].seq < c + (j - a) - 1
            BY <4>2, <6>1, <6>2
          <6> QED BY <5>2, <6>3
        <5>4. w[i].pipe = l => w[i].line < o_batch[j - a]
          BY <4>2, <5>1 DEF OutputInv, OutputOrder
        <5> QED BY <5>2, <5>3, <5>4
      <4>3. CASE /\ i \in a + 1..a + Len(o_batch) /\ i - a \in 1..Len(o_batch)
                 /\ j \in a + 1..a + Len(o_batch) /\ j - a \in 1..Len(o_batch)
        <5>1. w[i] = more[i - a] /\ w[j] = more[j - a]
          BY <2>4, <4>3
        <5>2. /\ w[i].seq = c + (i - a) - 1 /\ w[i].line = o_batch[i - a]
              /\ w[j].seq = c + (j - a) - 1 /\ w[j].line = o_batch[j - a]
          BY <2>2, <4>3, <5>1
        <5>3. c + (i - a) - 1 < c + (j - a) - 1 /\ i - a < j - a
          BY <2>n, <3>1, <4>3
        <5>5. w[i].seq < w[j].seq
          BY <5>2, <5>3
        <5>4. o_batch[i - a] < o_batch[j - a]
          BY <1>2, <4>3, <5>3 DEF Rising
        <5> QED BY <5>2, <5>4, <5>5
      <4>4. j \in 1..a \/ i \in 1..a \/ (i \notin 1..a /\ j \notin 1..a)
        OBVIOUS
      <4> QED BY <2>5, <4>1, <4>2, <4>3, <4>4
    <3>2. DOMAIN w = 1..Len(w)
      BY <2>4
    <3> QED BY <3>1, <3>2 DEF O!StoredInOrder, w
  <2> QED BY <1>6, <1>7, <2>6, <2>7, <2>8 DEF OutputInv
<1> QED BY <1>8, <1>9 DEF O!PollPersists

LEMMA OldLinesGo == OutputInv /\ O!PollTrims => OutputInv'
<1> SUFFICES ASSUME OutputInv, O!PollTrims PROVE OutputInv'
  OBVIOUS
<1> DEFINE a == Len(o_stored)
           n == IF a <= Ring THEN 0 ELSE a - Ring
           w == o_stored'
<1>1. /\ o_at = "trim" /\ o_at' = "publish"
      /\ UNCHANGED <<o_pane, o_file, o_capture, o_batch, o_kept, o_mirror, o_printed, o_spent>>
  BY DEF O!PollTrims
<1>2. o_stored \in Seq(O!Entries) /\ a \in Nat /\ DOMAIN o_stored = 1..a
  BY Elements DEF OutputInv, OutputTypes
<1>3. /\ w \in Seq(O!Entries) /\ Len(w) = a - n /\ DOMAIN w = 1..a - n /\ n \in Nat
      /\ Len(w) <= Ring
      /\ \A k \in 1..a - n : w[k] = o_stored[n + k] /\ n + k \in 1..a
  <2>1. CASE a <= Ring
    <3>1. w = o_stored /\ n = 0
      BY <2>1 DEF O!PollTrims
    <3> HIDE DEF n, w
    <3>2. Len(w) = a - n /\ DOMAIN w = 1..a - n /\ n \in Nat /\ Len(w) <= Ring
      BY <1>2, <2>1, <3>1
    <3>3. \A k \in 1..a - n : w[k] = o_stored[n + k] /\ n + k \in 1..a
      BY <1>2, <3>1
    <3>4. w \in Seq(O!Entries)
      BY <1>2, <3>1
    <3> QED BY <3>2, <3>3, <3>4
  <2>2. CASE ~(a <= Ring)
    <3>1. w = SubSeq(o_stored, n + 1, a) /\ n = a - Ring /\ n \in Nat /\ n <= a
      BY <1>2, <2>2, Bounds DEF O!PollTrims
    <3> HIDE DEF n, w
    <3>2. /\ w \in Seq(O!Entries) /\ Len(w) = a - n
          /\ \A k \in 1..a - n : w[k] = o_stored[n + k]
      BY <1>2, <3>1
    <3>3. \A k \in 1..a - n : n + k \in 1..a
      BY <1>2, <3>1
    <3>4. DOMAIN w = 1..Len(w)
      BY <3>2, Elements
    <3>5. DOMAIN w = 1..a - n /\ Len(w) <= Ring
      BY <1>2, <3>1, <3>2, <3>4, Bounds
    <3>6. n \in Nat
      BY <3>1
    <3> QED BY <3>2, <3>3, <3>5, <3>6
  <2> QED BY <2>1, <2>2
<1> HIDE DEF n, w
<1>4. OutputTypes'
  BY <1>1, <1>3 DEF OutputInv, OutputTypes, w
<1>5. OutputRises' /\ OutputPipes'
  BY <1>1 DEF OutputInv, OutputRises, OutputPipes, Own
<1>6. Own' = Own
  BY <1>1 DEF Own
<1>7. OutputOrder'
  <2>1. \A k \in 1..Len(w) : \E m \in 1..Len(o_stored) : w[k] = o_stored[m]
    BY <1>3
  <2> QED BY <1>1, <1>6, <2>1 DEF OutputInv, OutputOrder, w
<1>8. O!StoredInOrder'
  <2>1. ASSUME NEW i \in 1..a - n, NEW j \in 1..a - n, i < j
        PROVE  /\ w[i].seq < w[j].seq
               /\ w[i].pipe = w[j].pipe => w[i].line < w[j].line
    <3>1. w[i] = o_stored[n + i] /\ w[j] = o_stored[n + j] /\ n + i \in 1..a /\ n + j \in 1..a
      BY <1>3
    <3>2. n + i < n + j
      BY <1>2, <1>3, <2>1
    <3> QED BY <1>2, <3>1, <3>2 DEF OutputInv, O!StoredInOrder
  <2> QED BY <1>3, <2>1 DEF O!StoredInOrder, w
<1> QED BY <1>4, <1>5, <1>7, <1>8 DEF OutputInv

\* Another life: its file is another one, into which nothing goes yet.
LEMMA WorkerLivesAgain == OutputInv /\ O!Rebuild => OutputInv'
<1> SUFFICES ASSUME OutputInv, O!Rebuild PROVE OutputInv'
  OBVIOUS
<1> DEFINE l == o_spent.lives
<1>1. /\ o_spent' = [o_spent EXCEPT !.lives = @ + 1] /\ l < MaxLives
      /\ o_at' = "round" /\ o_batch' = <<>>
      /\ UNCHANGED <<o_pane, o_file, o_stored, o_kept, o_mirror, o_printed>>
  BY DEF O!Rebuild
<1>2. o_capture' = [started |-> "no", path |-> 0, offset |-> 0, seq |-> 0,
                    snapshot |-> <<>>, hash |-> 0]
  BY DEF O!Rebuild, O!NewCapture
<1>3. /\ o_spent \in OutputSpent /\ o_spent' \in OutputSpent /\ o_spent'.lives = l + 1
      /\ l \in 1..MaxLives
  <2>1. o_spent \in OutputSpent
    BY DEF OutputInv, OutputTypes
  <2> QED BY <1>1, <2>1, SpentShape
<1>4. /\ o_printed \in Nat /\ o_stored \in Seq(O!Entries)
      /\ \A k \in 1..Len(o_stored) : o_stored[k].pipe \in Nat
      /\ o_pane.pipe \in Nat
  <2>1. /\ o_printed \in 0..MaxPrinted /\ o_stored \in Seq(O!Entries) /\ o_pane \in PaneType
    BY DEF OutputInv, OutputTypes
  <2>2. \A k \in 1..Len(o_stored) : o_stored[k] \in O!Entries
    BY <2>1, Elements
  <2>3. \A k \in 1..Len(o_stored) : o_stored[k].pipe \in Nat
    BY <2>2, Bounds DEF O!Entries
  <2>4. o_pane.pipe \in Nat
    BY <2>1, Bounds DEF PaneType
  <2> QED BY <2>1, <2>3, <2>4, Bounds
<1>5. o_capture' \in CaptureType
  <2>1. <<>> \in Seq(1..MaxPrinted) /\ 0 \in 0..MaxLives /\ 0 \in 0..MaxPrinted
    BY Bounds
  <2> QED BY <1>2, <2>1 DEF CaptureType
<1>6. OutputTypes'
  BY <1>1, <1>3, <1>5 DEF OutputInv, OutputTypes
<1>7. OutputRises'
  <2>1. Rising(<<>>, o_printed)
    BY <1>4, RisingNone
  <2> QED BY <1>1, <1>2, <2>1 DEF OutputInv, OutputRises
<1>8. Own' = <<>> /\ Len(Own') = 0
  <2>1. l + 1 \in 1..MaxLives /\ l + 1 > l
    BY <1>1, <1>3, Bounds
  <2> QED BY <1>1, <1>3, <2>1 DEF OutputInv, OutputPipes, Own
<1>9. OutputPipes'
  <2>1. o_pane.pipe <= l /\ \A f \in 1..MaxLives : f > l => o_file[f] = <<>>
    BY DEF OutputInv, OutputPipes
  <2>2. o_pane.pipe <= l + 1 /\ o_pane.pipe # l + 1
    BY <1>3, <1>4, <2>1
  <2>3. \A f \in 1..MaxLives : f > l + 1 => o_file[f] = <<>>
    BY <1>3, <2>1
  <2> QED BY <1>1, <1>2, <1>3, <1>8, <2>2, <2>3 DEF OutputPipes
<1>10. OutputOrder'
  <2>1. \A k \in 1..Len(o_stored) : /\ o_stored[k].pipe <= l + 1 /\ o_stored[k].pipe # l + 1
                                    /\ o_stored[k].line <= o_printed
    BY <1>3, <1>4 DEF OutputInv, OutputOrder
  <2>2. Len(o_batch') = 0 /\ Len(o_capture'.snapshot) = 0 /\ o_capture'.seq = 0
    BY <1>1, <1>2
  <2>3. /\ \A i \in 1..Len(o_batch') : FALSE
        /\ \A i \in 1..Len(o_capture'.snapshot) : FALSE
    BY <2>2
  <2> QED BY <1>1, <1>3, <2>1, <2>2, <2>3 DEF OutputOrder
<1>11. O!StoredInOrder'
  BY <1>1 DEF OutputInv, O!StoredInOrder
<1> QED BY <1>6, <1>7, <1>9, <1>10, <1>11 DEF OutputInv

LEMMA OutputStep == OutputInv /\ [O!Next]_outputVars => OutputInv'
<1> SUFFICES ASSUME OutputInv, [O!Next]_outputVars PROVE OutputInv'
  OBVIOUS
<1>1. CASE UNCHANGED outputVars
  BY <1>1 DEF outputVars, OutputInv, OutputTypes, OutputRises, OutputPipes, OutputOrder, Own,
         O!StoredInOrder
<1>2. CASE O!Next
  BY <1>2, LineIsPrinted, SessionStops, LoopTurns, ScreenIsTaken, LinesAreRead, LinesAreStored,
     OldLinesGo, WorkerLivesAgain DEF O!Next, O!Loop
<1> QED BY <1>1, <1>2

LEMMA OutputTyped == OutputInv => O!TypeOK
<1> SUFFICES ASSUME OutputInv PROVE O!TypeOK
  OBVIOUS
<1>1. OutputTypes /\ OutputRises /\ O!MaxFiles = MaxLives
  BY Bounds DEF OutputInv
<1>2. ASSUME NEW q, Rising(q, o_printed) PROVE O!LinesOf(q) \subseteq 1..o_printed
  <2>1. DOMAIN q = 1..Len(q) /\ \A i \in 1..Len(q) : q[i] \in 1..o_printed
    BY <1>2, Elements DEF Rising
  <2> QED BY <2>1 DEF O!LinesOf
<1>3. O!LinesOf(o_stored) \subseteq O!Entries
  <2>1. \A i \in DOMAIN o_stored : o_stored[i] \in O!Entries
    BY <1>1, Elements DEF OutputTypes
  <2> QED BY <2>1 DEF O!LinesOf
<1>4. o_pane.alive \in BOOLEAN /\ o_pane.pipe \in 0..O!MaxFiles
  BY <1>1, Zenon DEF OutputTypes, PaneType
<1>5. /\ o_capture.started \in {"no", "snapshot", "yes"} /\ o_capture.path \in 0..O!MaxFiles
      /\ o_capture.offset <= MaxPrinted /\ o_capture.hash \in 0..MaxPrinted
  BY <1>1, Bounds DEF OutputTypes, CaptureType
<1>6. /\ O!LinesOf(o_pane.shown) \subseteq 1..o_printed /\ O!LinesOf(o_batch) \subseteq 1..o_printed
      /\ \A f \in 1..O!MaxFiles : O!LinesOf(o_file[f]) \subseteq 1..o_printed
  BY <1>1, <1>2 DEF OutputRises
<1> QED BY <1>1, <1>3, <1>4, <1>5, <1>6 DEF O!TypeOK, OutputTypes, OutputSpent
-----------------------------------------------------------------------------
(* The milestones. *)

\* A milestone that became done is to be announced by this pass, or by the next
\* one that finds it so.
ToTell(m) == \/ m \in k_sync.newly
             \/ /\ k_sync.at = "upsert" /\ m \in k_sync.left
                /\ k_sync.items[m] = "done" /\ k_tasks[m] = "todo"
ToFind(m) == /\ k_file[m] = "done"
             /\ \/ k_tasks[m] = "todo"
                \/ k_sync.at = "upsert" /\ m \in k_sync.left /\ k_sync.items[m] = "todo"

SyncTypes ==
  /\ k_file \in [Marks -> K!States] /\ k_tasks \in [Marks -> K!States]
  /\ k_sync \in [at : {"asleep", "upsert", "tell"}, items : [Marks -> K!States],
                 left : SUBSET Marks, newly : SUBSET Marks]
  /\ k_told \in [Marks -> Nat] /\ k_dones \in [Marks -> Nat]
  /\ k_spent \in [writes : 0..MaxWrites, deletes : 0..MaxDeletes, faults : 0..MaxErrors]
NewlyDone ==
  \A m \in k_sync.newly :
    m \notin k_sync.left /\ k_tasks[m] # "todo" /\ k_sync.items[m] = "done"
ToldMilestones ==
  \A m \in Marks : /\ k_told[m] <= k_dones[m] /\ k_dones[m] <= k_spent.writes
                   /\ ToTell(m) \/ ToFind(m) => k_told[m] < k_dones[m]

MilestonesInv == SyncTypes /\ NewlyDone /\ ToldMilestones

LEMMA MilestonesBounds ==
  MaxWrites \in Nat /\ MaxDeletes \in Nat /\ MaxErrors \in Nat
BY PartsAssumption

LEMMA MilestonesInit == K!Init => MilestonesInv
<1> SUFFICES ASSUME K!Init PROVE MilestonesInv
  OBVIOUS
<1>1. SyncTypes
  BY MilestonesBounds DEF K!Init, K!Nothing, K!Asleep, K!States, SyncTypes
<1>2. NewlyDone
  BY DEF K!Init, K!Asleep, NewlyDone
<1>3. ToldMilestones
  BY DEF K!Init, K!Nothing, K!Asleep, ToldMilestones, ToTell, ToFind
<1> QED BY <1>1, <1>2, <1>3 DEF MilestonesInv

LEMMA AgentKeeps == MilestonesInv /\ K!AgentWrites => MilestonesInv'
<1> SUFFICES ASSUME MilestonesInv, K!AgentWrites PROVE MilestonesInv'
  OBVIOUS
<1>1. PICK m \in Marks, s \in K!States :
        /\ k_file[m] # s
        /\ k_file' = [k_file EXCEPT ![m] = s]
        /\ k_dones' = [k_dones EXCEPT ![m] = IF s = "done" THEN @ + 1 ELSE @]
  BY DEF K!AgentWrites
<1>2. /\ k_spent.writes < MaxWrites /\ k_spent' = [k_spent EXCEPT !.writes = @ + 1]
      /\ UNCHANGED <<k_tasks, k_sync, k_told>>
  BY DEF K!AgentWrites
<1>t. SyncTypes
  BY DEF MilestonesInv
<1>3. /\ k_spent.writes \in Nat /\ k_spent'.writes = k_spent.writes + 1
      /\ k_spent' \in [writes : 0..MaxWrites, deletes : 0..MaxDeletes, faults : 0..MaxErrors]
  BY <1>2, <1>t, MilestonesBounds DEF SyncTypes
<1>4. /\ k_told \in [Marks -> Nat] /\ k_dones \in [Marks -> Nat] /\ k_dones' \in [Marks -> Nat]
      /\ \A n \in Marks : k_dones'[n] = IF n = m /\ s = "done" THEN k_dones[n] + 1 ELSE k_dones[n]
  BY <1>1, <1>t DEF SyncTypes
<1>5. /\ k_file' \in [Marks -> K!States]
      /\ \A n \in Marks : k_file'[n] = IF n = m THEN s ELSE k_file[n]
  BY <1>1, <1>t DEF SyncTypes
<1>6. SyncTypes'
  BY <1>2, <1>3, <1>4, <1>5, <1>t DEF SyncTypes
<1>7. NewlyDone'
  BY <1>2 DEF MilestonesInv, NewlyDone
<1>8. ASSUME NEW n \in Marks
      PROVE  /\ k_told'[n] <= k_dones'[n] /\ k_dones'[n] <= k_spent'.writes
             /\ ToTell(n)' \/ ToFind(n)' => k_told'[n] < k_dones'[n]
  <2>1. /\ k_told[n] <= k_dones[n] /\ k_dones[n] <= k_spent.writes
        /\ ToTell(n) \/ ToFind(n) => k_told[n] < k_dones[n]
    BY DEF MilestonesInv, ToldMilestones
  <2>2. ToTell(n)' <=> ToTell(n)
    BY <1>2 DEF ToTell
  <2>3. k_told[n] \in Nat /\ k_dones[n] \in Nat /\ k_told'[n] = k_told[n]
    BY <1>2, <1>4
  <2>4. CASE n = m /\ s = "done"
    BY <1>3, <1>4, <2>1, <2>3, <2>4
  <2>5. CASE ~(n = m /\ s = "done")
    <3>1. k_dones'[n] = k_dones[n]
      BY <1>4, <2>5
    <3>2. ToFind(n)' => ToFind(n)
      BY <1>2, <1>5, <2>5 DEF ToFind
    <3> QED BY <1>3, <2>1, <2>2, <2>3, <3>1, <3>2
  <2> QED BY <2>4, <2>5
<1>9. ToldMilestones'
  BY <1>8 DEF ToldMilestones
<1> QED BY <1>6, <1>7, <1>9 DEF MilestonesInv

\* Nothing is announced or done: what is to be announced was so before.
LEMMA OwesNoMore ==
  ASSUME MilestonesInv, UNCHANGED <<k_told, k_dones, k_spent.writes>>,
         \A m \in Marks : ToTell(m)' \/ ToFind(m)' => ToTell(m) \/ ToFind(m)
  PROVE  ToldMilestones'
BY DEF MilestonesInv, ToldMilestones

LEMMA SyncKeeps == MilestonesInv /\ K!Sync => MilestonesInv'
<1> SUFFICES ASSUME MilestonesInv, K!Sync PROVE MilestonesInv'
  OBVIOUS
<1>t. SyncTypes /\ NewlyDone
  BY DEF MilestonesInv
<1>1. CASE K!SyncReads
  <2>1. /\ k_sync.at = "asleep"
        /\ k_sync' = [at |-> "upsert", items |-> k_file, newly |-> {},
                      left |-> {m \in Marks : k_file[m] # "absent"}]
        /\ UNCHANGED <<k_file, k_tasks, k_told, k_dones, k_spent>>
    BY <1>1 DEF K!SyncReads
  <2>2. SyncTypes'
    <3>1. {m \in Marks : k_file[m] # "absent"} \in SUBSET Marks /\ {} \in SUBSET Marks
      OBVIOUS
    <3> QED BY <2>1, <3>1, <1>t DEF SyncTypes
  <2>3. NewlyDone'
    BY <2>1 DEF NewlyDone
  <2>4. \A m \in Marks : ToTell(m)' \/ ToFind(m)' => ToTell(m) \/ ToFind(m)
    BY <2>1 DEF ToTell, ToFind
  <2> QED BY <2>1, <2>2, <2>3, <2>4, OwesNoMore DEF MilestonesInv
<1>2. ASSUME NEW m \in Marks, K!SyncUpserts(m) PROVE MilestonesInv'
  <2> DEFINE found == k_tasks[m] = "todo" /\ k_sync.items[m] = "done"
  <2>1. /\ k_sync.at = "upsert" /\ m \in k_sync.left
        /\ k_tasks' = [k_tasks EXCEPT ![m] = k_sync.items[m]]
        /\ k_sync' = [k_sync EXCEPT !.left = @ \ {m},
                                    !.newly = IF found THEN @ \cup {m} ELSE @]
        /\ UNCHANGED <<k_file, k_told, k_dones, k_spent>>
    BY <1>2 DEF K!SyncUpserts, K!Upserted
  <2> HIDE DEF found
  <2>2. /\ k_sync'.at = k_sync.at /\ k_sync'.items = k_sync.items
        /\ k_sync'.left = k_sync.left \ {m}
        /\ k_sync'.newly = IF found THEN k_sync.newly \cup {m} ELSE k_sync.newly
        /\ k_sync' \in [at : {"asleep", "upsert", "tell"}, items : [Marks -> K!States],
                        left : SUBSET Marks, newly : SUBSET Marks]
    <3> DEFINE more == IF found THEN k_sync.newly \cup {m} ELSE k_sync.newly
    <3>1. k_sync' = [k_sync EXCEPT !.left = @ \ {m}, !.newly = more]
      BY <2>1
    <3>2. k_sync.newly \subseteq Marks /\ k_sync.left \subseteq Marks
      BY <1>t DEF SyncTypes
    <3>3. more \subseteq Marks
      BY <3>2
    <3> HIDE DEF more
    <3>4. /\ k_sync'.at = k_sync.at /\ k_sync'.items = k_sync.items
          /\ k_sync'.left = k_sync.left \ {m} /\ k_sync'.newly = more
          /\ k_sync' \in [at : {"asleep", "upsert", "tell"}, items : [Marks -> K!States],
                          left : SUBSET Marks, newly : SUBSET Marks]
      BY <1>t, <3>1, <3>2, <3>3 DEF SyncTypes
    <3> QED BY <3>4 DEF more
  <2>3. /\ k_tasks' \in [Marks -> K!States]
        /\ \A n \in Marks : k_tasks'[n] = IF n = m THEN k_sync.items[m] ELSE k_tasks[n]
    BY <1>t, <2>1 DEF SyncTypes
  <2>4. SyncTypes'
    BY <1>t, <2>1, <2>2, <2>3 DEF SyncTypes
  <2>5. k_sync.newly \subseteq Marks
    BY <1>t DEF SyncTypes
  <2>6. NewlyDone'
    BY <1>t, <2>1, <2>2, <2>3, <2>5 DEF NewlyDone, found
  <2>7. \A n \in Marks : ToTell(n)' \/ ToFind(n)' => ToTell(n) \/ ToFind(n)
    BY <2>1, <2>2, <2>3 DEF ToTell, ToFind, found
  <2> QED BY <2>1, <2>4, <2>6, <2>7, OwesNoMore DEF MilestonesInv
<1>3. CASE K!SyncPrunes
  <2>1. /\ k_sync.at = "upsert" /\ k_sync.left = {}
        /\ k_tasks' = [m \in Marks |-> IF k_sync.items[m] = "absent" THEN "absent" ELSE k_tasks[m]]
        /\ k_sync' = [k_sync EXCEPT !.at = "tell"]
        /\ UNCHANGED <<k_file, k_told, k_dones, k_spent>>
    BY <1>3 DEF K!SyncPrunes
  <2>2. /\ k_sync'.at = "tell" /\ k_sync'.items = k_sync.items /\ k_sync'.left = {}
        /\ k_sync'.newly = k_sync.newly
        /\ k_sync' \in [at : {"asleep", "upsert", "tell"}, items : [Marks -> K!States],
                        left : SUBSET Marks, newly : SUBSET Marks]
    BY <1>t, <2>1 DEF SyncTypes
  <2>3. k_tasks' \in [Marks -> K!States] /\ k_sync.newly \subseteq Marks
    BY <1>t, <2>1 DEF SyncTypes, K!States
  <2>4. SyncTypes'
    BY <1>t, <2>1, <2>2, <2>3 DEF SyncTypes
  <2>5. NewlyDone'
    BY <1>t, <2>1, <2>2, <2>3 DEF NewlyDone
  <2>6. \A n \in Marks : ToTell(n)' \/ ToFind(n)' => ToTell(n) \/ ToFind(n)
    BY <2>1, <2>2 DEF ToTell, ToFind
  <2> QED BY <2>1, <2>4, <2>5, <2>6, OwesNoMore DEF MilestonesInv
<1>4. CASE K!SyncTells
  <2>1. /\ k_told' = [m \in Marks |-> IF m \in k_sync.newly THEN k_told[m] + 1 ELSE k_told[m]]
        /\ k_sync' = [at |-> "asleep", items |-> [m \in Marks |-> "absent"], left |-> {}, newly |-> {}]
        /\ UNCHANGED <<k_file, k_tasks, k_dones, k_spent>>
    BY <1>4 DEF K!SyncTells, K!Asleep, K!Nothing
  <2>2. SyncTypes'
    <3>1. k_told' \in [Marks -> Nat]
      BY <1>t, <2>1 DEF SyncTypes
    <3>2. [m \in Marks |-> "absent"] \in [Marks -> K!States] /\ {} \in SUBSET Marks
      BY DEF K!States
    <3> QED BY <1>t, <2>1, <3>1, <3>2 DEF SyncTypes
  <2>3. NewlyDone'
    BY <2>1 DEF NewlyDone
  <2>4. ASSUME NEW n \in Marks
        PROVE  /\ k_told'[n] <= k_dones[n] /\ k_dones[n] <= k_spent.writes
               /\ ToTell(n)' \/ ToFind(n)' => k_told'[n] < k_dones[n]
    <3>1. /\ k_told[n] <= k_dones[n] /\ k_dones[n] <= k_spent.writes
          /\ ToTell(n) \/ ToFind(n) => k_told[n] < k_dones[n]
      BY DEF MilestonesInv, ToldMilestones
    <3>2. ~ToTell(n)' /\ (ToFind(n)' => k_tasks[n] = "todo" /\ ToFind(n))
      BY <2>1 DEF ToTell, ToFind
    <3>3. k_told[n] \in Nat /\ k_dones[n] \in Nat
      BY <1>t DEF SyncTypes
    <3>4. CASE n \in k_sync.newly
      <4>1. k_told'[n] = k_told[n] + 1 /\ ToTell(n) /\ k_tasks[n] # "todo"
        BY <1>t, <2>1, <3>4 DEF ToTell, NewlyDone
      <4> QED BY <3>1, <3>2, <3>3, <4>1
    <3>5. CASE n \notin k_sync.newly
      <4>1. k_told'[n] = k_told[n]
        BY <2>1, <3>5
      <4> QED BY <3>1, <3>2, <3>3, <4>1
    <3> QED BY <3>4, <3>5
  <2>5. ToldMilestones'
    BY <2>1, <2>4 DEF ToldMilestones
  <2> QED BY <2>2, <2>3, <2>5 DEF MilestonesInv
<1> QED BY <1>1, <1>2, <1>3, <1>4 DEF K!Sync

LEMMA MilestonesStep == MilestonesInv /\ [K!Next]_milestonesVars => MilestonesInv'
<1> SUFFICES ASSUME MilestonesInv, [K!Next]_milestonesVars PROVE MilestonesInv'
  OBVIOUS
<1>t. SyncTypes
  BY DEF MilestonesInv
<1>1. ASSUME NEW m \in Marks, K!ApiDeletesTask(m) PROVE MilestonesInv'
  <2>1. /\ k_tasks' = [k_tasks EXCEPT ![m] = "absent"]
        /\ k_spent.deletes < MaxDeletes /\ k_spent' = [k_spent EXCEPT !.deletes = @ + 1]
        /\ UNCHANGED <<k_file, k_sync, k_told, k_dones>>
    BY <1>1 DEF K!ApiDeletesTask
  <2>2. /\ k_tasks' \in [Marks -> K!States]
        /\ \A n \in Marks : k_tasks'[n] = IF n = m THEN "absent" ELSE k_tasks[n]
    BY <1>t, <2>1 DEF SyncTypes, K!States
  <2>3. /\ k_spent'.writes = k_spent.writes
        /\ k_spent' \in [writes : 0..MaxWrites, deletes : 0..MaxDeletes, faults : 0..MaxErrors]
    BY <1>t, <2>1, MilestonesBounds DEF SyncTypes
  <2>4. SyncTypes' /\ k_sync.newly \subseteq Marks
    BY <1>t, <2>1, <2>2, <2>3 DEF SyncTypes
  <2>5. NewlyDone'
    BY <2>1, <2>2, <2>4 DEF NewlyDone, MilestonesInv
  <2>6. \A n \in Marks : ToTell(n)' \/ ToFind(n)' => ToTell(n) \/ ToFind(n)
    BY <2>1, <2>2 DEF ToTell, ToFind
  <2> QED BY <2>1, <2>3, <2>4, <2>5, <2>6, OwesNoMore DEF MilestonesInv
<1>2. CASE K!Fault
  <2>1. /\ k_sync' = [at |-> "asleep", items |-> [m \in Marks |-> "absent"], left |-> {}, newly |-> {}]
        /\ k_spent.faults < MaxErrors /\ k_spent' = [k_spent EXCEPT !.faults = @ + 1]
        /\ UNCHANGED <<k_file, k_tasks, k_told, k_dones>>
    BY <1>2 DEF K!Fault, K!Asleep, K!Nothing
  <2>2. /\ k_spent'.writes = k_spent.writes
        /\ k_spent' \in [writes : 0..MaxWrites, deletes : 0..MaxDeletes, faults : 0..MaxErrors]
    BY <1>t, <2>1, MilestonesBounds DEF SyncTypes
  <2>3. SyncTypes'
    <3>1. [m \in Marks |-> "absent"] \in [Marks -> K!States] /\ {} \in SUBSET Marks
      BY DEF K!States
    <3> QED BY <1>t, <2>1, <2>2, <3>1 DEF SyncTypes
  <2>4. NewlyDone'
    BY <2>1 DEF NewlyDone
  <2>5. \A n \in Marks : ToTell(n)' \/ ToFind(n)' => ToTell(n) \/ ToFind(n)
    BY <2>1 DEF ToTell, ToFind
  <2> QED BY <2>1, <2>2, <2>3, <2>4, <2>5, OwesNoMore DEF MilestonesInv
<1>3. CASE UNCHANGED milestonesVars
  BY <1>3 DEF milestonesVars, MilestonesInv, SyncTypes, NewlyDone, ToldMilestones, ToTell, ToFind
<1> QED BY <1>1, <1>2, <1>3, AgentKeeps, SyncKeeps DEF K!Next

LEMMA MilestonesTyped == MilestonesInv => K!TypeOK /\ K!ToldOncePerDone
<1> SUFFICES ASSUME MilestonesInv PROVE K!TypeOK /\ K!ToldOncePerDone
  OBVIOUS
<1>1. K!ToldOncePerDone
  BY DEF MilestonesInv, ToldMilestones, K!ToldOncePerDone
<1>2. SyncTypes
  BY DEF MilestonesInv
<1>3. ASSUME NEW m \in Marks PROVE k_dones[m] \in 0..MaxWrites
  <2>1. k_dones[m] \in Nat /\ k_spent.writes \in 0..MaxWrites
    BY <1>2 DEF SyncTypes
  <2> QED BY <2>1, MilestonesBounds DEF MilestonesInv, ToldMilestones
<1>4. k_dones \in [Marks -> 0..MaxWrites]
  BY <1>2, <1>3 DEF SyncTypes
<1> QED BY <1>1, <1>2, <1>4 DEF SyncTypes, K!TypeOK
-----------------------------------------------------------------------------
(* What a session asks for. *)

\* What was last told of what is asked for was heard, unless an error was since;
\* and between two looks of discovery that is what the session asks for.
LastHeard == l_attn.last # "none" => l_heard \in {l_attn.last, "error"}
NowTold == /\ l_cycle.at = "ask" => l_attn.now # "none"
           /\ l_cycle.at \in {"off", "ask"} /\ l_attn.now # "none" => l_attn.last = l_attn.now

AttentionInv == L!TypeOK /\ LastHeard /\ NowTold

LEMMA AttentionBounds ==
  MaxFrames \in Nat /\ MaxContinues \in Nat /\ MaxAudios \in Nat /\ MaxCrashes \in Nat
BY PartsAssumption

Seen == 0..MaxFrames + 1
AutoType == [n : Seen, looks : 0..2, count : 0..MaxContinues, done : Seen]
AttnType == [now : L!Asks, last : L!Asks, recent : BOOLEAN]
CycleType == [at : {"off", "unset", "tell", "ask"}, was : L!Asks]
AudioType == [at : {"off", "heard", "answer", "type"}, read : L!Choices]
TypedType == [key : {"none", "1", "2", "free"}, of : 0..MaxFrames, on : 0..MaxFrames]
HeardType == [audios : 0..MaxAudios, crashes : 0..MaxCrashes]

LEMMA AttentionTypes ==
  L!TypeOK <=> /\ l_screen \in L!Frames /\ l_shot \in L!Frames
               /\ l_scr \in [n : Seen, looks : 0..2] /\ l_auto \in AutoType
               /\ l_attn \in AttnType /\ l_cycle \in CycleType
               /\ l_pending \in L!Choices /\ l_audio \in AudioType
               /\ l_heard \in L!Asks \cup {"error"} /\ l_typed \in TypedType
               /\ l_spent \in HeardType
BY DEF L!TypeOK, Seen, AutoType, AttnType, CycleType, AudioType, TypedType, HeardType

LEMMA AttentionInit == L!Init => AttentionInv
<1> SUFFICES ASSUME L!Init PROVE AttentionInv
  OBVIOUS
<1> USE AttentionBounds
<1>1. /\ l_screen \in L!Frames /\ l_shot \in L!Frames
      /\ l_scr \in [n : Seen, looks : 0..2] /\ l_auto \in AutoType
  BY DEF L!Init, L!Frames, L!Kinds, L!Unseen, Seen, AutoType
<1>2. l_attn \in AttnType
  BY Zenon DEF L!Init, AttnType, L!Asks
<1>3. L!NoChoice \in L!Choices
  BY DEF L!NoChoice, L!Choices
<1>4. l_cycle \in CycleType /\ l_pending \in L!Choices /\ l_audio \in AudioType
  BY <1>3 DEF L!Init, CycleType, AudioType, L!Quiet, L!Asks
<1>5. /\ l_heard \in L!Asks \cup {"error"} /\ l_typed \in TypedType /\ l_spent \in HeardType
  BY DEF L!Init, L!Asks, TypedType, HeardType
<1>6. LastHeard /\ NowTold
  BY DEF L!Init, LastHeard, NowTold
<1> QED BY <1>1, <1>2, <1>4, <1>5, <1>6, AttentionTypes DEF AttentionInv

-----------------------------------------------------------------------------
\* What is understood of a phrase is one of the options, or nothing.

LEMMA Word ==
  ASSUME NEW phrase \in L!Phrases, NEW words, L!Has(phrase, words)
  PROVE  L!FirstOf(phrase, words) \in words
<1>1. PICK k \in 1..2 : phrase \in [1..k -> L!Words]
  BY DEF L!Phrases
<1> DEFINE First(i) == phrase[i] \in words /\ \A j \in 1..(i - 1) : phrase[j] \notin words
<1>2. \E i \in DOMAIN phrase : First(i)
  <2>1. PICK i \in DOMAIN phrase : phrase[i] \in words
    BY DEF L!Has
  <2>2. i \in {1, 2} /\ DOMAIN phrase = 1..k
    BY <1>1
  <2>3. 1..(1 - 1) = {} /\ 1..(2 - 1) = {1}
    OBVIOUS
  <2>4. CASE phrase[1] \in words
    <3>1. 1 \in DOMAIN phrase
      BY <1>1, <2>2
    <3> QED BY <2>3, <2>4, <3>1
  <2>5. CASE phrase[1] \notin words
    <3>1. i = 2
      BY <2>1, <2>2, <2>5
    <3> QED BY <2>1, <2>3, <2>5, <3>1
  <2> QED BY <2>4, <2>5
<1>3. First(CHOOSE i \in DOMAIN phrase : First(i))
  BY <1>2
<1> QED BY <1>3 DEF L!FirstOf

Answers == {"none", "1", "2", "sim", "nao"}

\* A list of two options, of the screen or of a confirmation.
TwoOptions(options, keys) ==
  /\ DOMAIN options = {1, 2}
  /\ \A i \in {1, 2} : options[i].key \in keys

LEMMA Understood ==
  ASSUME NEW phrase \in L!Phrases, NEW options, NEW keys, TwoOptions(options, keys)
  PROVE  L!ClassifyChoice(phrase, options) \subseteq keys \cup {"none"}
<1>1. \A w \in L!Digits \cup L!Ordinals : L!Position(w) \in {1, 2}
  BY DEF L!Digits, L!Ordinals, L!Position
<1>2. L!RuleBased(phrase, options) \in keys \cup {"none"}
  <2>1. CASE L!Has(phrase, L!Digits)
    <3>1. L!Position(L!FirstOf(phrase, L!Digits)) \in {1, 2}
      BY <1>1, <2>1, Word
    <3> QED BY <2>1, <3>1 DEF L!RuleBased, TwoOptions
  <2>2. CASE ~L!Has(phrase, L!Digits) /\ L!Has(phrase, L!Ordinals)
    <3>1. L!Position(L!FirstOf(phrase, L!Ordinals)) \in {1, 2}
      BY <1>1, <2>2, Word
    <3> QED BY <2>2, <3>1 DEF L!RuleBased, TwoOptions
  <2>3. CASE ~L!Has(phrase, L!Digits) /\ ~L!Has(phrase, L!Ordinals)
    <3> DEFINE heard == {i \in DOMAIN options : L!Has(phrase, {options[i].label})}
    <3>1. L!RuleBased(phrase, options) =
            IF heard = {} THEN "none"
            ELSE options[CHOOSE i \in heard : \A j \in heard : i <= j].key
      BY <2>3 DEF L!RuleBased
    <3>2. heard \subseteq {1, 2}
      BY DEF TwoOptions
    <3> HIDE DEF heard
    <3>3. heard # {} => \E i \in heard : \A j \in heard : i <= j
      <4>1. heard \in {{}, {1}, {2}, {1, 2}}
        BY <3>2
      <4> QED BY <4>1
    <3>4. heard # {} => (CHOOSE i \in heard : \A j \in heard : i <= j) \in {1, 2}
      BY <3>2, <3>3
    <3> QED BY <3>1, <3>4 DEF TwoOptions
  <2> QED BY <2>1, <2>2, <2>3
<1> QED BY <1>2 DEF L!ClassifyChoice, TwoOptions

LEMMA PickerOptions ==
  /\ TwoOptions(L!Picker, {"1", "2"})
  /\ TwoOptions(L!ConfirmOptions, {"sim", "nao"})
BY DEF TwoOptions, L!Picker, L!ConfirmOptions

-----------------------------------------------------------------------------
LEMMA ScreenMoves ==
  AttentionInv /\ (L!AgentShows \/ L!SnapshotScreen \/ L!CooldownEnds) => AttentionInv'
<1> SUFFICES ASSUME AttentionInv, L!AgentShows \/ L!SnapshotScreen \/ L!CooldownEnds
             PROVE  AttentionInv'
  OBVIOUS
<1> USE AttentionBounds
<1>t. L!TypeOK /\ LastHeard /\ NowTold
  BY DEF AttentionInv
<1>1. CASE L!AgentShows
  <2>1. PICK k \in L!Kinds : l_screen' = [kind |-> k, n |-> l_screen.n + 1]
    BY <1>1 DEF L!AgentShows
  <2>2. /\ l_screen.n < MaxFrames
        /\ UNCHANGED <<l_shot, l_scr, l_auto, l_attn, l_cycle, l_pending, l_audio, l_heard, l_typed, l_spent>>
    BY <1>1 DEF L!AgentShows
  <2>3. l_screen' \in L!Frames
    BY <1>t, <2>1, <2>2, AttentionTypes DEF L!Frames
  <2> QED BY <1>t, <2>2, <2>3 DEF L!TypeOK, LastHeard, NowTold, AttentionInv
<1>2. CASE L!SnapshotScreen
  BY <1>t, <1>2 DEF L!SnapshotScreen, L!TypeOK, LastHeard, NowTold, AttentionInv
<1>3. CASE L!CooldownEnds
  <2>1. /\ l_attn' = [l_attn EXCEPT !.recent = FALSE]
        /\ UNCHANGED <<l_screen, l_shot, l_scr, l_auto, l_cycle, l_pending, l_audio, l_heard, l_typed, l_spent>>
    BY <1>3 DEF L!CooldownEnds
  <2>2. l_attn \in AttnType
    BY <1>t, AttentionTypes
  <2>3. l_attn'.now = l_attn.now /\ l_attn'.last = l_attn.last
    BY <2>1, <2>2 DEF AttnType
  <2>4. l_attn' \in AttnType
    BY Zenon, <2>1, <2>2 DEF AttnType
  <2> QED BY <1>t, <2>1, <2>3, <2>4 DEF L!TypeOK, AttnType, LastHeard, NowTold, AttentionInv
<1> QED BY <1>1, <1>2, <1>3

LEMMA Continues ==
  ASSUME L!TypeOK, L!AutoContinue
  PROVE  l_auto' \in AutoType
<1> USE AttentionBounds
<1>1. /\ l_auto \in AutoType /\ l_shot.n \in Seen
      /\ l_auto.count \in 0..MaxContinues /\ l_auto.looks \in 0..2 /\ l_auto.n \in Seen
      /\ l_auto.done \in Seen
  <2>1. l_auto \in AutoType /\ l_shot \in L!Frames
    BY AttentionTypes
  <2> QED BY <2>1 DEF AutoType, L!Frames, Seen
<1>2. L!Looks(l_auto) \in 0..2
  BY <1>1 DEF L!Looks
<1>3. CASE l_shot.kind # "error"
  <2> DEFINE c == IF l_auto.n # l_shot.n THEN 0 ELSE l_auto.count
  <2>1. c \in 0..MaxContinues
    BY <1>1
  <2>2. l_auto' = [l_auto EXCEPT !.n = l_shot.n, !.looks = 0, !.count = c]
    BY <1>3 DEF L!AutoContinue
  <2> HIDE DEF c
  <2>3. l_auto' = [n |-> l_shot.n, looks |-> 0, count |-> c, done |-> l_auto.done]
    BY <1>1, <2>2 DEF AutoType
  <2> QED BY <1>1, <2>1, <2>3 DEF AutoType
<1>4. CASE l_shot.kind = "error" /\ (L!Looks(l_auto) < 2 \/ l_auto.done = l_shot.n)
  <2>1. l_auto' = [l_auto EXCEPT !.n = l_shot.n, !.looks = L!Looks(l_auto)]
    BY <1>4 DEF L!AutoContinue
  <2> QED BY <1>1, <1>2, <2>1 DEF AutoType
<1>5. CASE l_shot.kind = "error" /\ ~(L!Looks(l_auto) < 2 \/ l_auto.done = l_shot.n)
  <2> DEFINE c == IF l_auto.count < MaxContinues THEN l_auto.count + 1 ELSE l_auto.count
  <2>1. c \in 0..MaxContinues
    BY <1>1
  <2>2. l_auto' = [l_auto EXCEPT !.looks = 2, !.done = l_shot.n, !.count = c]
    BY <1>5 DEF L!AutoContinue
  <2> HIDE DEF c
  <2>3. l_auto' = [n |-> l_auto.n, looks |-> 2, count |-> c, done |-> l_shot.n]
    BY <1>1, <2>2 DEF AutoType
  <2> QED BY <1>1, <2>1, <2>3 DEF AutoType
<1> QED BY <1>3, <1>4, <1>5

LEMMA DiscoveryLooks == AttentionInv /\ L!CycleLooks => AttentionInv'
<1> SUFFICES ASSUME AttentionInv, L!CycleLooks PROVE AttentionInv'
  OBVIOUS
<1> USE AttentionBounds
<1>t. L!TypeOK /\ LastHeard /\ NowTold
  BY DEF AttentionInv
<1>1. /\ l_cycle.at = "off"
      /\ l_scr' = IF L!ScreenWantsAttention THEN l_scr ELSE [n |-> l_shot.n, looks |-> L!Looks(l_scr)]
      /\ L!AutoContinue
      /\ l_cycle' = IF L!Wanted = l_attn.now THEN l_cycle
                    ELSE [at |-> IF l_attn.now = "waiting" THEN "unset" ELSE "tell", was |-> l_attn.now]
      /\ l_attn' = [l_attn EXCEPT !.now = L!Wanted]
      /\ l_heard' = IF L!GivesUp THEN "error" ELSE l_heard
      /\ UNCHANGED <<l_screen, l_shot, l_pending, l_audio, l_typed, l_spent>>
  BY DEF L!CycleLooks
<1>2. l_auto' \in AutoType
  BY <1>1, <1>t, Continues
<1>3. l_scr' \in [n : Seen, looks : 0..2]
  <2>1. l_scr \in [n : Seen, looks : 0..2] /\ l_shot.n \in Seen
    BY <1>t, AttentionTypes DEF L!Frames, Seen
  <2>2. L!Looks(l_scr) \in 0..2
    BY <2>1 DEF L!Looks
  <2> QED BY <1>1, <2>1, <2>2
<1>4. l_attn \in AttnType /\ l_cycle \in CycleType /\ L!Wanted \in L!Asks
  BY <1>t, AttentionTypes DEF L!Wanted, L!Asks
<1>5. l_attn'.now = L!Wanted /\ l_attn'.last = l_attn.last /\ l_attn.now \in L!Asks
  BY <1>1, <1>4 DEF AttnType
<1>6. l_attn' \in AttnType
  BY Zenon, <1>1, <1>4 DEF AttnType
<1>7. l_cycle' \in CycleType
  BY <1>1, <1>4, <1>5 DEF CycleType
<1>8. L!TypeOK'
  <2>1. l_heard' \in L!Asks \cup {"error"}
    BY <1>1, <1>t DEF L!TypeOK
  <2> QED BY <1>1, <1>2, <1>3, <1>6, <1>7, <1>t, <2>1
        DEF L!TypeOK, AttnType, CycleType, AutoType, Seen
<1>9. LastHeard'
  BY <1>1, <1>5, <1>t DEF LastHeard
<1>10. NowTold'
  <2>1. CASE L!Wanted = l_attn.now
    BY <1>1, <1>5, <1>t, <2>1 DEF NowTold
  <2>2. CASE L!Wanted # l_attn.now
    <3>1. l_cycle'.at \in {"unset", "tell"}
      BY <1>1, <2>2
    <3> QED BY <3>1 DEF NowTold
  <2> QED BY <2>1, <2>2
<1> QED BY <1>8, <1>9, <1>10 DEF AttentionInv

LEMMA CycleMoves == AttentionInv /\ L!Cycle => AttentionInv'
<1> SUFFICES ASSUME AttentionInv, L!Cycle PROVE AttentionInv'
  OBVIOUS
<1> USE AttentionBounds
<1>t. L!TypeOK /\ LastHeard /\ NowTold
  BY DEF AttentionInv
<1>y. l_cycle \in CycleType /\ l_attn \in AttnType /\ l_shot \in L!Frames
  BY <1>t, AttentionTypes
<1>1. CASE L!CycleUnsets
  <2>1. /\ l_pending' = L!NoChoice /\ l_cycle' = [l_cycle EXCEPT !.at = "tell"]
        /\ UNCHANGED <<l_screen, l_shot, l_scr, l_auto, l_attn, l_audio, l_heard, l_typed, l_spent>>
    BY <1>1 DEF L!CycleUnsets
  <2>2. l_cycle' \in CycleType /\ l_cycle'.at = "tell" /\ l_pending' \in L!Choices
    BY <1>y, <2>1 DEF CycleType, L!NoChoice, L!Choices
  <2> QED BY <1>t, <2>1, <2>2 DEF L!TypeOK, CycleType, LastHeard, NowTold, AttentionInv
<1>2. CASE L!CycleTells /\ (l_attn.now = "none" \/ L!Flap)
  <2>1. /\ l_cycle' = [l_cycle EXCEPT !.at = "off"]
        /\ UNCHANGED <<l_screen, l_shot, l_scr, l_auto, l_attn, l_pending, l_audio, l_heard, l_typed, l_spent>>
    BY <1>2 DEF L!CycleTells
  <2>2. l_cycle' \in CycleType /\ l_cycle'.at = "off"
    BY <1>y, <2>1 DEF CycleType
  <2>3. l_attn.now # "none" => l_attn.last = l_attn.now
    BY <1>2 DEF L!Flap
  <2> QED BY <1>t, <2>1, <2>2, <2>3 DEF L!TypeOK, CycleType, LastHeard, NowTold, AttentionInv
<1>3. CASE L!CycleTells /\ ~(l_attn.now = "none" \/ L!Flap)
  <2>1. /\ l_cycle' = [l_cycle EXCEPT !.at = IF l_attn.now = "waiting" THEN "ask" ELSE "off"]
        /\ l_attn' = [l_attn EXCEPT !.last = l_attn.now, !.recent = TRUE]
        /\ l_heard' = l_attn.now /\ l_attn.now # "none"
        /\ UNCHANGED <<l_screen, l_shot, l_scr, l_auto, l_pending, l_audio, l_typed, l_spent>>
    BY <1>3 DEF L!CycleTells
  <2>2. l_cycle' \in CycleType /\ l_cycle'.at \in {"off", "ask"}
    BY <1>y, <2>1 DEF CycleType
  <2>3. /\ l_attn'.now = l_attn.now /\ l_attn'.last = l_attn.now /\ l_attn.now \in L!Asks
    BY <1>y, <2>1 DEF AttnType
  <2>4. l_attn' \in AttnType
    <3>1. l_attn.now \in L!Asks
      BY <2>3
    <3> QED BY Zenon, <1>y, <2>1, <3>1 DEF AttnType
  <2>5. L!TypeOK'
    <3>1. l_heard' \in L!Asks \cup {"error"}
      BY <2>1, <2>3
    <3> QED BY <1>t, <2>1, <2>2, <2>4, <3>1 DEF L!TypeOK, CycleType, AttnType
  <2> QED BY <2>1, <2>3, <2>5 DEF LastHeard, NowTold, AttentionInv
<1>4. CASE L!CycleAsks
  <2>1. /\ l_cycle.at = "ask" /\ l_cycle' = [l_cycle EXCEPT !.at = "off"]
        /\ \/ l_pending' = [stage |-> IF l_shot.kind = "picker" THEN "choose" ELSE "open",
                            of |-> l_shot.n, key |-> "none"]
           \/ UNCHANGED l_pending
        /\ UNCHANGED <<l_screen, l_shot, l_scr, l_auto, l_attn, l_audio, l_heard, l_typed, l_spent>>
    BY <1>4 DEF L!CycleAsks
  <2>2. l_cycle' \in CycleType /\ l_cycle'.at = "off"
    BY <1>y, <2>1 DEF CycleType
  <2>3. l_pending' \in L!Choices
    <3>1. l_pending \in L!Choices /\ l_shot.n \in 0..MaxFrames
      BY <1>t, <1>y, AttentionTypes DEF L!Frames
    <3> QED BY <2>1, <3>1 DEF L!Choices
  <2> QED BY <1>t, <2>1, <2>2, <2>3 DEF L!TypeOK, CycleType, LastHeard, NowTold, AttentionInv
<1> QED BY <1>1, <1>2, <1>3, <1>4 DEF L!Cycle

\* The consumer touches the choice that is pending, and not what was told.
LEMMA OnlyChoices ==
  ASSUME AttentionInv, l_pending' \in L!Choices, l_audio' \in AudioType, l_typed' \in TypedType,
         l_spent' \in HeardType,
         UNCHANGED <<l_screen, l_shot, l_scr, l_auto, l_attn, l_cycle, l_heard>>
  PROVE  AttentionInv'
BY DEF AttentionInv, L!TypeOK, AudioType, TypedType, HeardType, LastHeard, NowTold

LEMMA ChoiceShape ==
  ASSUME NEW c \in L!Choices, NEW s \in {"none", "choose", "open", "confirm"},
         NEW k \in {"none", "1", "2", "free"}
  PROVE  [c EXCEPT !.stage = s, !.key = k] \in L!Choices
BY DEF L!Choices

LEMMA AudioMoves == AttentionInv /\ (L!HandleAudio \/ L!Audio) => AttentionInv'
<1> SUFFICES ASSUME AttentionInv, L!HandleAudio \/ L!Audio PROVE AttentionInv'
  OBVIOUS
<1> USE AttentionBounds
<1>t. /\ l_pending \in L!Choices /\ l_audio \in AudioType /\ l_typed \in TypedType
      /\ l_spent \in HeardType /\ l_screen \in L!Frames
      /\ L!NoChoice \in L!Choices
  BY AttentionTypes DEF AttentionInv, L!NoChoice, L!Choices
<1>r. l_audio.read \in L!Choices
  BY <1>t DEF AudioType
<1>q. L!Quiet \in AudioType
  BY <1>t DEF L!Quiet, AudioType
<1>1. CASE L!HandleAudio
  <2>1. /\ l_audio' = [l_audio EXCEPT !.at = "heard"] /\ l_spent.audios < MaxAudios
        /\ l_spent' = [l_spent EXCEPT !.audios = @ + 1]
        /\ UNCHANGED <<l_screen, l_shot, l_scr, l_auto, l_attn, l_cycle, l_pending, l_heard, l_typed>>
    BY <1>1 DEF L!HandleAudio
  <2>2. l_audio' \in AudioType /\ l_spent' \in HeardType
    BY <1>t, <2>1 DEF AudioType, HeardType
  <2> QED BY <1>t, <2>1, <2>2, OnlyChoices
<1>2. CASE L!ReadPending
  <2>1. /\ l_audio' = [at |-> IF l_pending = L!NoChoice THEN "type" ELSE "answer", read |-> l_pending]
        /\ UNCHANGED <<l_screen, l_shot, l_scr, l_auto, l_attn, l_cycle, l_pending, l_heard, l_typed, l_spent>>
    BY <1>2 DEF L!ReadPending
  <2>2. l_audio' \in AudioType
    BY <1>t, <2>1 DEF AudioType
  <2> QED BY <1>t, <2>1, <2>2, OnlyChoices
<1>3. CASE L!MaybeResolvePendingChoice
  <2>1. /\ UNCHANGED <<l_screen, l_shot, l_scr, l_auto, l_attn, l_cycle, l_heard, l_typed, l_spent>>
        /\ \E phrase \in L!Phrases :
             L!ResolveChoose(phrase) \/ L!ResolveOpen \/ L!ResolveConfirm(phrase)
    BY <1>3 DEF L!MaybeResolvePendingChoice
  <2>2. PICK phrase \in L!Phrases :
          L!ResolveChoose(phrase) \/ L!ResolveOpen \/ L!ResolveConfirm(phrase)
    BY <2>1
  <2>3. CASE L!ResolveChoose(phrase)
    <3>1. PICK key \in L!ClassifyChoice(phrase, L!Picker) :
            l_pending' = IF key = "none" THEN l_pending
                         ELSE [l_audio.read EXCEPT !.stage = "confirm", !.key = key]
      BY <2>3 DEF L!ResolveChoose
    <3>2. key \in {"1", "2", "none"}
      <4>1. L!ClassifyChoice(phrase, L!Picker) \subseteq {"1", "2"} \cup {"none"}
        BY <2>2, PickerOptions, Understood
      <4> QED BY <3>1, <4>1
    <3>3. l_pending' \in L!Choices
      BY <1>r, <1>t, <3>1, <3>2, ChoiceShape
    <3>4. l_audio' = L!Quiet
      BY <2>3 DEF L!ResolveChoose, L!Handled
    <3> QED BY <1>q, <1>t, <2>1, <3>3, <3>4, OnlyChoices
  <2>4. CASE L!ResolveOpen
    <3>1. l_pending' = [l_audio.read EXCEPT !.stage = "confirm", !.key = "free"] /\ l_audio' = L!Quiet
      BY <2>4 DEF L!ResolveOpen, L!Handled
    <3>2. l_pending' \in L!Choices
      BY <1>r, <3>1, ChoiceShape
    <3> QED BY <1>q, <1>t, <2>1, <3>1, <3>2, OnlyChoices
  <2>5. CASE L!ResolveConfirm(phrase)
    <3>1. PICK answer \in L!ClassifyChoice(phrase, L!ConfirmOptions) :
            CASE answer = "sim" -> l_pending' = L!NoChoice /\ l_audio' = [l_audio EXCEPT !.at = "type"]
              [] answer = "nao" -> /\ l_pending' = [l_audio.read EXCEPT
                                        !.stage = IF l_audio.read.key = "free" THEN "open" ELSE "choose",
                                        !.key = "none"]
                                   /\ l_audio' = L!Quiet
              [] OTHER -> l_audio' = L!Quiet /\ UNCHANGED l_pending
      BY <2>5 DEF L!ResolveConfirm, L!Handled
    <3>2. \/ l_pending' = L!NoChoice
          \/ l_pending' = [l_audio.read EXCEPT
                             !.stage = IF l_audio.read.key = "free" THEN "open" ELSE "choose",
                             !.key = "none"]
          \/ UNCHANGED l_pending
      BY <3>1
    <3>3. l_audio' = [l_audio EXCEPT !.at = "type"] \/ l_audio' = L!Quiet
      BY <3>1
    <3>4. l_pending' \in L!Choices
      BY <1>r, <1>t, <3>2, ChoiceShape
    <3>5. l_audio' \in AudioType
      <4>1. [l_audio EXCEPT !.at = "type"] \in AudioType
        BY <1>t DEF AudioType
      <4> QED BY <1>q, <3>3, <4>1
    <3> QED BY <1>t, <2>1, <3>4, <3>5, OnlyChoices
  <2> QED BY <2>2, <2>3, <2>4, <2>5
<1>4. CASE L!HandlerTypes
  <2>1. /\ l_typed' = IF l_audio.read = L!NoChoice THEN l_typed
                      ELSE [key |-> l_audio.read.key, of |-> l_audio.read.of, on |-> l_screen.n]
        /\ l_audio' = L!Quiet
        /\ UNCHANGED <<l_screen, l_shot, l_scr, l_auto, l_attn, l_cycle, l_pending, l_heard, l_spent>>
    BY <1>4 DEF L!HandlerTypes
  <2>2. l_typed' \in TypedType
    BY <1>r, <1>t, <2>1 DEF TypedType, L!Choices, L!Frames
  <2> QED BY <1>q, <1>t, <2>1, <2>2, OnlyChoices
<1> QED BY <1>1, <1>2, <1>3, <1>4 DEF L!Audio

LEMMA DiscoveryRestarts == AttentionInv /\ L!Crash => AttentionInv'
<1> SUFFICES ASSUME AttentionInv, L!Crash PROVE AttentionInv'
  OBVIOUS
<1> USE AttentionBounds
<1>t. L!TypeOK /\ l_spent \in HeardType /\ l_audio \in AudioType
  BY AttentionTypes DEF AttentionInv
<1>1. /\ l_spent.crashes < MaxCrashes /\ l_spent' = [l_spent EXCEPT !.crashes = @ + 1]
      /\ l_scr' = [n |-> L!Unseen, looks |-> 0]
      /\ l_auto' = [n |-> L!Unseen, looks |-> 0, count |-> 0, done |-> L!Unseen]
      /\ l_cycle' = [at |-> "off", was |-> "none"]
      /\ l_audio' = IF l_audio.at = "off" THEN l_audio ELSE [L!Quiet EXCEPT !.at = "heard"]
      /\ UNCHANGED <<l_screen, l_shot, l_pending, l_heard, l_typed>>
  BY DEF L!Crash
<1>2. l_attn' = [now |-> "none", last |-> "none", recent |-> FALSE]
  BY DEF L!Crash
<1>3. l_scr' \in [n : Seen, looks : 0..2] /\ l_auto' \in AutoType
  BY <1>1 DEF Seen, AutoType, L!Unseen
<1>4. l_spent' \in HeardType
  BY <1>1, <1>t DEF HeardType
<1>5. l_audio' \in AudioType
  <2>1. [L!Quiet EXCEPT !.at = "heard"] \in AudioType
    BY DEF AudioType, L!Quiet, L!NoChoice, L!Choices
  <2> QED BY <1>1, <1>t, <2>1
<1>6. l_attn' \in AttnType /\ l_cycle' \in CycleType
  <2>1. "none" \in L!Asks
    BY DEF L!Asks
  <2>2. l_attn' \in AttnType
    BY Zenon, <1>2, <2>1 DEF AttnType
  <2> QED BY <1>1, <2>1, <2>2 DEF CycleType
<1>7. L!TypeOK'
  BY <1>1, <1>3, <1>4, <1>5, <1>6, <1>t
     DEF L!TypeOK, AttnType, CycleType, AutoType, AudioType, HeardType, Seen
<1>8. LastHeard' /\ NowTold'
  BY <1>1, <1>2 DEF LastHeard, NowTold
<1> QED BY <1>7, <1>8 DEF AttentionInv

LEMMA AttentionStep == AttentionInv /\ [L!Next]_attentionVars => AttentionInv'
<1> SUFFICES ASSUME AttentionInv, [L!Next]_attentionVars PROVE AttentionInv'
  OBVIOUS
<1>1. CASE UNCHANGED attentionVars
  BY <1>1 DEF attentionVars, AttentionInv, L!TypeOK, LastHeard, NowTold
<1>2. CASE L!Next
  BY <1>2, ScreenMoves, DiscoveryLooks, CycleMoves, AudioMoves, DiscoveryRestarts DEF L!Next
<1> QED BY <1>1, <1>2

LEMMA Knows == AttentionInv => L!UserKnows
BY DEF AttentionInv, LastHeard, NowTold, L!UserKnows
-----------------------------------------------------------------------------
(* What is said of the sessions. *)

Awaited == q_mic.at \in {"asking", "on"} /\ ~q_mic.stray

RecordsMade == "at" \in DOMAIN q_audio /\ "at" \in DOMAIN q_mic /\ "stray" \in DOMAIN q_mic
SilentWhenMuted == q_muters # {} => q_audio.at = "idle"
AwaitedMutes == Awaited => "audio-recorder" \in q_muters
CallMutes == q_call => "voice-call" \in q_muters

QuietInv == RecordsMade /\ SilentWhenMuted /\ AwaitedMutes /\ CallMutes

----------------------------------------------------------------------------
\* What the methods of the player leave of it: with a reason to be silent it is
\* idle, if it was.
LEMMA PlayNextIdle ==
  ASSUME NEW a, NEW m, "at" \in DOMAIN a
  PROVE  /\ "at" \in DOMAIN Q!PlayNext(a, m)
         /\ m # {} => Q!PlayNext(a, m).at = "idle"
  BY DEF Q!PlayNext

LEMMA EnqueueIdle ==
  ASSUME NEW a, NEW f, NEW m, "at" \in DOMAIN a
  PROVE  /\ "at" \in DOMAIN Q!Enqueue(a, f, m)
         /\ m # {} /\ a.at = "idle" => Q!Enqueue(a, f, m).at = "idle"
  BY PlayNextIdle DEF Q!Enqueue

LEMMA SuppressedIdle ==
  ASSUME NEW a, NEW m, "at" \in DOMAIN a, m # {} => a.at = "idle"
  PROVE  "at" \in DOMAIN Q!Suppressed(a, m) /\ Q!Suppressed(a, m).at = "idle"
  BY DEF Q!Suppressed

LEMMA ReleasedIdle ==
  ASSUME NEW a, NEW m, "at" \in DOMAIN a
  PROVE  /\ "at" \in DOMAIN Q!Released(a, m)
         /\ m # {} /\ a.at = "idle" => Q!Released(a, m).at = "idle"
  BY PlayNextIdle DEF Q!Released

LEMMA ViewedIdle ==
  ASSUME NEW a, NEW s, NEW m, "at" \in DOMAIN a
  PROVE  /\ "at" \in DOMAIN Q!Viewed(a, s, m)
         /\ m # {} /\ a.at = "idle" => Q!Viewed(a, s, m).at = "idle"
  BY PlayNextIdle DEF Q!Viewed

----------------------------------------------------------------------------
Player == "at" \in DOMAIN q_audio /\ SilentWhenMuted
Recorder == "at" \in DOMAIN q_mic /\ "stray" \in DOMAIN q_mic

LEMMA Parts == QuietInv <=> Player /\ Recorder /\ AwaitedMutes /\ CallMutes
  BY DEF QuietInv, RecordsMade, Player, Recorder

LEMMA QuietInit == Q!Init => QuietInv
<1> SUFFICES ASSUME Q!Init PROVE QuietInv
  OBVIOUS
<1>1. RecordsMade
  BY DEF Q!Init, RecordsMade, Q!Off
<1>2. q_mic.at = "off" /\ q_muters = {}
  BY DEF Q!Init, Q!Off
<1>3. ~q_call
  BY Zenon DEF Q!Init
<1> QED BY <1>1, <1>2, <1>3 DEF QuietInv, SilentWhenMuted, AwaitedMutes, Awaited, CallMutes

\* A reason more to be silent, and one less.
LEMMA Silences ==
  ASSUME Player, NEW r, q_muters' = q_muters \cup {r}, q_audio' = Q!Suppressed(q_audio, q_muters)
  PROVE  Player'
  BY SuppressedIdle DEF Player, SilentWhenMuted

LEMMA Releases ==
  ASSUME Player, NEW r, q_muters' = Q!Without(r), q_audio' = Q!Released(q_audio, q_muters')
  PROVE  Player' /\ \A x \in q_muters : x # r => x \in q_muters'
<1>1. q_muters' \subseteq q_muters /\ \A x \in q_muters : x # r => x \in q_muters'
  BY DEF Q!Without
<1>2. q_muters' # {} => q_audio.at = "idle"
  BY <1>1 DEF Player, SilentWhenMuted
<1> QED BY <1>1, <1>2, ReleasedIdle DEF Player, SilentWhenMuted

\* What the player is given to play, with the reasons as they are.
LEMMA Plays ==
  ASSUME Player, UNCHANGED q_muters, NEW f, NEW s,
         \/ q_audio' = Q!Enqueue(q_audio, f, q_muters) \/ q_audio' = Q!Viewed(q_audio, s, q_muters)
         \/ UNCHANGED q_audio
  PROVE  Player'
  BY EnqueueIdle, ViewedIdle DEF Player, SilentWhenMuted

\* The recorder stands as it did, or nobody waits for it.
LEMMA Rests ==
  ASSUME AwaitedMutes, Recorder, q_muters \subseteq q_muters',
         \/ UNCHANGED q_mic
         \/ q_mic' = Q!Off
         \/ q_mic' = [q_mic EXCEPT !.at = "stopping"]
         \/ q_mic.at = "asking" /\ q_mic' = [q_mic EXCEPT !.at = "on"]
  PROVE  AwaitedMutes' /\ Recorder'
<1>1. CASE UNCHANGED q_mic
  BY <1>1 DEF AwaitedMutes, Recorder, Awaited
<1>2. CASE q_mic' = Q!Off
  BY <1>2 DEF AwaitedMutes, Recorder, Awaited, Q!Off
<1>3. CASE q_mic' = [q_mic EXCEPT !.at = "stopping"]
  BY <1>3 DEF AwaitedMutes, Recorder, Awaited
<1>4. CASE q_mic.at = "asking" /\ q_mic' = [q_mic EXCEPT !.at = "on"]
  <2>1. q_mic'.at = "on" /\ q_mic'.stray = q_mic.stray /\ Recorder'
    BY <1>4 DEF Recorder
  <2> QED BY <1>4, <2>1 DEF AwaitedMutes, Awaited
<1> QED BY <1>1, <1>2, <1>3, <1>4

\* Nobody waits for a recorder that was stopped or cancelled.
LEMMA GivenUp ==
  ASSUME Recorder, \/ q_mic' = Q!Off \/ q_mic' = Q!Cancelled
                   \/ q_mic' = Q!Unawaited /\ q_mic.at # "on"
                   \/ q_mic' = [q_mic EXCEPT !.at = "stopping"]
  PROVE  Recorder' /\ ~Awaited'
<1>1. CASE q_mic' = Q!Off
  BY <1>1 DEF Q!Off, Recorder, Awaited
<1>2. CASE q_mic' = Q!Unawaited /\ q_mic.at # "on"
  BY <1>2 DEF Q!Unawaited, Recorder, Awaited
<1>3. CASE q_mic' = Q!Cancelled
  BY <1>3, <1>1, <1>2 DEF Q!Cancelled
<1>4. CASE q_mic' = [q_mic EXCEPT !.at = "stopping"]
  BY <1>4 DEF Recorder, Awaited
<1> QED BY <1>1, <1>2, <1>3, <1>4

LEMMA StartedRecorder == Recorder /\ q_mic' = Q!Started => Recorder'
  BY DEF Recorder, Q!Started

\* A call is among the reasons as long as it is not taken out of them.
LEMMA CallKept ==
  ASSUME CallMutes, UNCHANGED q_call,
         \A x \in q_muters : x # "audio-recorder" => x \in q_muters'
  PROVE  CallMutes'
  BY DEF CallMutes

----------------------------------------------------------------------------
\* The reasons and the recorder as they are: only the player has moved.
LEMMA OnlyPlays ==
  ASSUME QuietInv, UNCHANGED <<q_muters, q_mic, q_call>>, Player'
  PROVE  QuietInv'
<1>1. AwaitedMutes' /\ Recorder'
  BY Parts, Rests
<1>2. CallMutes'
  BY Parts, CallKept
<1> QED BY <1>1, <1>2 DEF QuietInv, RecordsMade, Player, Recorder

\* One of the two users of the recorder begins: it is among the reasons first.
LEMMA Begins ==
  ASSUME QuietInv, UNCHANGED q_call, q_muters' = q_muters \cup {"audio-recorder"},
         q_mic' = Q!Started, Player'
  PROVE  QuietInv'
<1>1. Recorder'
  BY Parts, StartedRecorder
<1>2. AwaitedMutes'
  BY DEF AwaitedMutes
<1>3. CallMutes'
  BY Parts, CallKept
<1> QED BY <1>1, <1>2, <1>3 DEF QuietInv, RecordsMade, Player, Recorder

\* It ends, and takes its reason back only when nobody waits for it.
LEMMA Ends ==
  ASSUME QuietInv, UNCHANGED q_call, q_muters' = Q!Without("audio-recorder"),
         q_audio' = Q!Released(q_audio, q_muters'), Recorder', ~Awaited'
  PROVE  QuietInv'
<1>1. Player' /\ \A x \in q_muters : x # "audio-recorder" => x \in q_muters'
  BY Parts, Releases
<1>2. CallMutes'
  BY <1>1, Parts, CallKept
<1>3. AwaitedMutes'
  BY DEF AwaitedMutes
<1> QED BY <1>1, <1>2, <1>3 DEF QuietInv, RecordsMade, Player, Recorder

\* A recorder that is given up with the reasons as they are.
LEMMA Stops ==
  ASSUME QuietInv, UNCHANGED <<q_call, q_muters, q_audio>>, Recorder', ~Awaited'
  PROVE  QuietInv'
<1>1. Player'
  BY Parts DEF Player, SilentWhenMuted
<1>2. CallMutes'
  BY Parts, CallKept
<1>3. AwaitedMutes'
  BY DEF AwaitedMutes
<1> QED BY <1>1, <1>2, <1>3 DEF QuietInv, RecordsMade, Player, Recorder

\* A question is listened to with a player that is as silent as it has to be.
LEMMA Listens ==
  ASSUME QuietInv, UNCHANGED q_call, NEW a, "at" \in DOMAIN a, q_muters # {} => a.at = "idle",
         Q!StartListening(a)
  PROVE  QuietInv'
<1>1. CASE q_audio' = a /\ UNCHANGED <<q_choice, q_muters, q_mic, q_cut>>
  <2>1. Player'
    BY <1>1 DEF Player, SilentWhenMuted
  <2> QED BY <1>1, <2>1, OnlyPlays
<1>2. CASE /\ q_muters' = q_muters \cup {"audio-recorder"}
           /\ q_audio' = Q!Suppressed(a, q_muters)
           /\ q_mic' = Q!Started
  <2>1. Player'
    BY <1>2, SuppressedIdle DEF Player, SilentWhenMuted
  <2> QED BY <1>2, <2>1, Begins
<1>3. QED BY <1>1, <1>2 DEF Q!StartListening

----------------------------------------------------------------------------
\* The clips.
LEMMA ClipsInv == QuietInv /\ (Q!ClipEnds \/ Q!RepeatPlays) => QuietInv'
<1> SUFFICES ASSUME QuietInv, Q!ClipEnds \/ Q!RepeatPlays PROVE QuietInv'
  OBVIOUS
<1>1. q_muters = {}
  BY Parts DEF Player, SilentWhenMuted, Q!ClipEnds, Q!RepeatPlays
<1>2. "at" \in DOMAIN q_audio
  BY Parts DEF Player
<1>3. CASE Q!RepeatPlays
  <2>1. Player'
    BY <1>1, <1>2, <1>3 DEF Q!RepeatPlays, Player, SilentWhenMuted
  <2> QED BY <1>3, <2>1, OnlyPlays DEF Q!RepeatPlays
<1>4. CASE Q!ClipEnds
  <2>1. UNCHANGED q_call
    BY <1>4 DEF Q!ClipEnds
  <2>2. CASE Q!QuestionSpoken
    <3>1. Q!StartListening(Q!PlayNext(q_audio, q_muters))
      BY <2>2 DEF Q!QuestionSpoken
    <3> QED BY <1>1, <1>2, <2>1, <3>1, PlayNextIdle, Listens
  <2>3. CASE /\ q_audio' = IF q_audio.clip.question \/ q_audio.again THEN Q!PlayNext(q_audio, q_muters)
                         ELSE [q_audio EXCEPT !.at = "gap", !.again = TRUE]
             /\ UNCHANGED <<q_choice, q_muters, q_mic, q_window, q_cut>>
    <3>1. \/ q_audio' = Q!PlayNext(q_audio, q_muters)
          \/ q_audio' = [q_audio EXCEPT !.at = "gap", !.again = TRUE]
      BY <2>3
    <3>2. "at" \in DOMAIN q_audio'
      BY <1>2, <3>1, PlayNextIdle
    <3>3. Player'
      BY <1>1, <2>3, <3>2 DEF Player, SilentWhenMuted
    <3> QED BY <2>1, <2>3, <3>3, OnlyPlays
  <2> QED BY <1>4, <2>2, <2>3 DEF Q!ClipEnds
<1> QED BY <1>3, <1>4

\* What comes to the page.
LEMMA ArrivalsInv ==
  QuietInv /\ (Q!FrameArrives \/ \E f \in q_lists : Q!ListAnswers(f) \/ Q!ListFails(f)) => QuietInv'
<1> SUFFICES ASSUME QuietInv, Q!FrameArrives \/ \E f \in q_lists : Q!ListAnswers(f) \/ Q!ListFails(f)
             PROVE  QuietInv'
  OBVIOUS
<1>1. UNCHANGED <<q_muters, q_mic, q_call>>
  BY DEF Q!FrameArrives, Q!ListAnswers, Q!ListFails
<1>2. CASE Q!FrameArrives
  <2>1. UNCHANGED q_audio \/ q_audio' = Q!Enqueue(q_audio, Head(q_frames), q_muters)
    BY <1>2 DEF Q!FrameArrives
  <2>2. Player'
    BY <1>1, <2>1, Parts, Plays
  <2> QED BY <1>1, <2>2, OnlyPlays
<1>3. CASE \E f \in q_lists : Q!ListAnswers(f) \/ Q!ListFails(f)
  <2>1. PICK f \in q_lists : Q!ListAnswers(f) \/ Q!ListFails(f)
    BY <1>3
  <2>2. UNCHANGED q_audio \/ q_audio' = Q!Enqueue(q_audio, f, q_muters)
    BY <2>1 DEF Q!ListAnswers, Q!ListFails
  <2>3. Player'
    BY <1>1, <2>2, Parts, Plays
  <2> QED BY <1>1, <2>3, OnlyPlays
<1> QED BY <1>2, <1>3

\* The recorder, and the end of what a question listens to.
LEMMA MicInv == QuietInv /\ (Q!MicOpens \/ Q!MicRefused \/ Q!SendsRecording) => QuietInv'
<1> SUFFICES ASSUME QuietInv, Q!MicOpens \/ Q!MicRefused \/ Q!SendsRecording PROVE QuietInv'
  OBVIOUS
<1>1. UNCHANGED <<q_call, q_muters, q_audio>>
  BY DEF Q!MicOpens, Q!MicRefused, Q!SendsRecording
<1>2. \/ q_mic' = Q!Off
      \/ q_mic' = [q_mic EXCEPT !.at = "stopping"]
      \/ q_mic.at = "asking" /\ q_mic' = [q_mic EXCEPT !.at = "on"]
  BY DEF Q!MicOpens, Q!MicRefused, Q!SendsRecording
<1>3. AwaitedMutes' /\ Recorder'
  BY <1>1, <1>2, Parts, Rests
<1>4. Player'
  BY <1>1, Parts DEF Player, SilentWhenMuted
<1>5. CallMutes'
  BY <1>1, Parts, CallKept
<1> QED BY <1>3, <1>4, <1>5 DEF QuietInv, RecordsMade, Player, Recorder

LEMMA ListenedInv == QuietInv /\ Q!ListenedEnough => QuietInv'
<1> SUFFICES ASSUME QuietInv, Q!ListenedEnough PROVE QuietInv'
  OBVIOUS
<1>1. /\ UNCHANGED q_call
      /\ q_muters' = Q!Without("audio-recorder")
      /\ q_audio' = Q!Released(q_audio, q_muters')
  BY DEF Q!ListenedEnough
<1>2. \/ q_mic' = [q_mic EXCEPT !.at = "stopping"]
      \/ q_mic' = Q!Unawaited /\ q_mic.at # "on"
  BY DEF Q!ListenedEnough
<1>3. Recorder' /\ ~Awaited'
  BY <1>2, Parts, GivenUp
<1> QED BY <1>1, <1>3, Ends

LEMMA StoppedInv == QuietInv /\ Q!Stopped => QuietInv'
<1> SUFFICES ASSUME QuietInv, Q!Stopped PROVE QuietInv'
  OBVIOUS
<1>1. UNCHANGED q_call /\ q_mic' = Q!Off
  BY DEF Q!Stopped
<1>2. Recorder' /\ ~Awaited'
  BY <1>1, Parts, GivenUp
<1>3. CASE "button" \in q_ending
  <2>1. q_muters' = Q!Without("audio-recorder") /\ q_audio' = Q!Released(q_audio, q_muters')
    BY <1>3 DEF Q!Stopped
  <2> QED BY <1>1, <1>2, <2>1, Ends
<1>4. CASE "button" \notin q_ending
  <2>1. UNCHANGED <<q_muters, q_audio>>
    BY <1>4 DEF Q!Stopped
  <2> QED BY <1>1, <1>2, <2>1, Stops
<1> QED BY <1>3, <1>4

----------------------------------------------------------------------------
\* The user at the window and at the recorder.
LEMMA WindowInv ==
  QuietInv /\ (Q!ComesBack \/ Q!GoesAway \/ \E s \in Sessions, n \in BOOLEAN : Q!Opens(s, n)) => QuietInv'
<1> SUFFICES ASSUME QuietInv, Q!ComesBack \/ Q!GoesAway
                         \/ \E s \in Sessions, n \in BOOLEAN : Q!Opens(s, n)
             PROVE  QuietInv'
  OBVIOUS
<1>1. CASE Q!ComesBack
  <2>1. UNCHANGED q_call /\ Q!StartListening(q_audio)
    BY <1>1 DEF Q!ComesBack
  <2>2. "at" \in DOMAIN q_audio /\ (q_muters # {} => q_audio.at = "idle")
    BY Parts DEF Player, SilentWhenMuted
  <2> QED BY <2>1, <2>2, Listens
<1>2. CASE Q!GoesAway
  <2>1. UNCHANGED <<q_muters, q_mic, q_call, q_audio>>
    BY <1>2 DEF Q!GoesAway
  <2>2. Player'
    BY <2>1, Parts DEF Player, SilentWhenMuted
  <2> QED BY <2>1, <2>2, OnlyPlays
<1>3. ASSUME NEW s \in Sessions, NEW n \in BOOLEAN, Q!Opens(s, n) PROVE QuietInv'
  <2>1. UNCHANGED <<q_muters, q_mic, q_call>>
    BY <1>3 DEF Q!Opens
  <2>2. q_audio' = Q!Viewed(q_audio, s, q_muters) \/ UNCHANGED q_audio
    BY <1>3 DEF Q!Opens
  <2>3. Player'
    BY <2>1, <2>2, Parts, Plays
  <2> QED BY <2>1, <2>3, OnlyPlays
<1> QED BY <1>1, <1>2, <1>3

LEMMA ClosesInv == QuietInv /\ Q!Closes => QuietInv'
<1> SUFFICES ASSUME QuietInv, Q!Closes PROVE QuietInv'
  OBVIOUS
<1>1. UNCHANGED q_call
  BY DEF Q!Closes
<1>2. CASE /\ q_muters' = Q!Without("audio-recorder")
           /\ q_audio' = Q!Released(q_audio, q_muters')
           /\ q_mic' = Q!Cancelled
  <2>1. Recorder' /\ ~Awaited'
    BY <1>2, Parts, GivenUp
  <2> QED BY <1>1, <1>2, <2>1, Ends
<1>3. CASE UNCHANGED <<q_muters, q_audio, q_mic>>
  <2>1. Player'
    BY <1>3, Parts DEF Player, SilentWhenMuted
  <2> QED BY <1>1, <1>3, <2>1, OnlyPlays
<1> QED BY <1>2, <1>3 DEF Q!Closes

LEMMA ButtonInv == QuietInv /\ (Q!Records \/ Q!CancelsRecording) => QuietInv'
<1> SUFFICES ASSUME QuietInv, Q!Records \/ Q!CancelsRecording PROVE QuietInv'
  OBVIOUS
<1>1. CASE Q!Records
  <2>1. /\ UNCHANGED q_call /\ q_mic' = Q!Started
        /\ q_muters' = q_muters \cup {"audio-recorder"}
        /\ q_audio' = Q!Suppressed(q_audio, q_muters)
    BY <1>1 DEF Q!Records
  <2>2. Player'
    BY <2>1, Parts, Silences
  <2> QED BY <2>1, <2>2, Begins
<1>2. CASE Q!CancelsRecording
  <2>1. /\ UNCHANGED q_call /\ q_mic' = Q!Cancelled
        /\ q_muters' = Q!Without("audio-recorder")
        /\ q_audio' = Q!Released(q_audio, q_muters')
    BY <1>2 DEF Q!CancelsRecording
  <2>2. Recorder' /\ ~Awaited'
    BY <2>1, Parts, GivenUp
  <2> QED BY <2>1, <2>2, Ends
<1> QED BY <1>1, <1>2

\* Calls, which come and go whatever the recorder does, and the sound.
LEMMA CallsInv == QuietInv /\ (Q!CallStarts \/ Q!CallEnds \/ Q!SoundOff) => QuietInv'
<1> SUFFICES ASSUME QuietInv, Q!CallStarts \/ Q!CallEnds \/ Q!SoundOff PROVE QuietInv'
  OBVIOUS
<1>1. UNCHANGED q_mic
  BY DEF Q!CallStarts, Q!CallEnds, Q!SoundOff
<1>2. Recorder'
  BY <1>1, Parts DEF Recorder
<1>3. CASE Q!CallStarts
  <2>1. q_muters' = q_muters \cup {"voice-call"} /\ q_audio' = Q!Suppressed(q_audio, q_muters)
    BY <1>3 DEF Q!CallStarts
  <2>2. Player'
    BY <2>1, Parts, Silences
  <2>3. AwaitedMutes'
    BY <1>1, <2>1, Parts, Rests
  <2>4. CallMutes'
    BY <2>1 DEF CallMutes
  <2> QED BY <1>2, <2>2, <2>3, <2>4 DEF QuietInv, RecordsMade, Player, Recorder
<1>4. CASE Q!CallEnds
  <2>1. q_muters' = Q!Without("voice-call") /\ q_audio' = Q!Released(q_audio, q_muters')
    BY <1>4 DEF Q!CallEnds
  <2>2. Player' /\ \A x \in q_muters : x # "voice-call" => x \in q_muters'
    BY <2>1, Parts, Releases
  <2>3. AwaitedMutes'
    BY <1>1, <2>2, Parts DEF AwaitedMutes, Awaited
  <2>4. ~q_call'
    BY <1>4, Zenon DEF Q!CallEnds
  <2>5. CallMutes'
    BY <2>4 DEF CallMutes
  <2> QED BY <1>2, <2>2, <2>3, <2>5 DEF QuietInv, RecordsMade, Player, Recorder
<1>5. CASE Q!SoundOff
  <2>1. UNCHANGED <<q_muters, q_call>>
    BY <1>5 DEF Q!SoundOff
  <2>2. "at" \in DOMAIN q_audio' /\ q_audio'.at = "idle"
    BY <1>5, Parts DEF Q!SoundOff, Player
  <2>3. Player'
    BY <2>2 DEF Player, SilentWhenMuted
  <2> QED BY <1>1, <2>1, <2>3, OnlyPlays
<1> QED BY <1>3, <1>4, <1>5

----------------------------------------------------------------------------
\* The tasks of the worker and the settings do not touch the page.
LEMMA PageKept == QuietInv /\ UNCHANGED Q!page => QuietInv'
<1> SUFFICES ASSUME QuietInv, UNCHANGED Q!page PROVE QuietInv'
  OBVIOUS
<1>1. UNCHANGED <<q_audio, q_muters, q_mic, q_call>>
  BY DEF Q!page
<1>2. Player'
  BY <1>1, Parts DEF Player, SilentWhenMuted
<1> QED BY <1>1, <1>2, OnlyPlays

LEMMA TasksKeep == \A n : Q!Task(n) => UNCHANGED Q!page
<1>1. ASSUME NEW n, NEW passes, Q!Gate(n, passes) PROVE UNCHANGED Q!page
  BY <1>1 DEF Q!Gate
<1>2. ASSUME NEW n, Q!Task(n) PROVE UNCHANGED Q!page
  <2>1. Q!SynthPublishes(n) => UNCHANGED Q!page
    BY DEF Q!SynthPublishes
  <2> QED BY <1>1, <1>2, <2>1
        DEF Q!Task, Q!MaybeSpeak, Q!MaybeAskChoice, Q!MaybeAskOpen, Q!ReaskOpen, Q!MaybeConfirmChoice
<1> QED BY <1>2

LEMMA QuietStep == QuietInv /\ [Q!Next]_questionsVars => QuietInv'
<1> SUFFICES ASSUME QuietInv, [Q!Next]_questionsVars PROVE QuietInv'
  OBVIOUS
<1>1. CASE \E k \in Q!Kinds, s \in Sessions : Q!NoticeBegins(k, s)
  BY <1>1, PageKept DEF Q!NoticeBegins
<1>2. CASE \E n \in 1..MaxNotices : Q!Task(n)
  BY <1>2, PageKept, TasksKeep
<1>3. CASE Q!Browser
  BY <1>3, ArrivalsInv, ClipsInv, MicInv, ListenedInv, StoppedInv DEF Q!Browser
<1>4. CASE Q!MicRefused
  BY <1>4, MicInv
<1>5. CASE \E f \in q_lists : Q!ListFails(f)
  BY <1>5, ArrivalsInv
<1>6. CASE Q!User
  <2>1. ASSUME NEW s \in Sessions, Q!SetJarvis(s) PROVE QuietInv'
    BY <2>1, PageKept DEF Q!SetJarvis
  <2>2. ASSUME NEW s \in Sessions, NEW m \in Q!Modes, Q!SetJarvisMode(s, m) PROVE QuietInv'
    BY <2>2, PageKept DEF Q!SetJarvisMode
  <2>3. ASSUME NEW every \in BOOLEAN, NEW full \in BOOLEAN, Q!PutSettings(every, full) PROVE QuietInv'
    BY <2>3, PageKept DEF Q!PutSettings
  <2>4. ASSUME NEW s \in Sessions, NEW named \in BOOLEAN, Q!Opens(s, named) PROVE QuietInv'
    BY <2>4, WindowInv
  <2>5. CASE Q!ComesBack \/ Q!GoesAway
    BY <2>5, WindowInv
  <2>6. CASE Q!Closes \/ Q!Records \/ Q!CancelsRecording \/ Q!SendsRecording
    BY <2>6, ClosesInv, ButtonInv, MicInv
  <2>7. CASE Q!CallStarts \/ Q!CallEnds \/ Q!SoundOff
    BY <2>7, CallsInv
  <2> QED BY Zenon, <1>6, <2>1, <2>2, <2>3, <2>4, <2>5, <2>6, <2>7 DEF Q!User
<1>7. CASE UNCHANGED questionsVars
  BY <1>7, PageKept DEF questionsVars, Q!page
<1> QED BY <1>1, <1>2, <1>3, <1>4, <1>5, <1>6, <1>7 DEF Q!Next

-----------------------------------------------------------------------------
(* Types of what is said of the sessions. *)

ClipsType == [queue : Seq(Q!Frames), clip : Q!Frames \cup {Q!Silence},
              at : {"idle", "playing", "gap"}, again : BOOLEAN]
ChoiceType == [queue : Seq(Q!Frames), active : Q!Frames \cup {Q!Silence},
               target : Q!Places, listening : BOOLEAN]
MicType == [at : {"off", "asking", "on", "stopping"}, stray : BOOLEAN]
NoticeType == [at : {"gate", "voice", "over"}, kind : Q!Kinds \cup {"question"},
               session : Q!Places]

\* The clip that plays is one; a question that waits does so behind another.
PlaysOne(a) == a \in ClipsType /\ (a.at # "idle" => a.clip # Q!Silence)
Settled(c) == c \in ChoiceType /\ (c.active = Q!Silence => c.queue = <<>>)

TasksType == /\ q_mode \in [Sessions -> [jarvis : BOOLEAN, jarvis_mode : Q!Modes]]
             /\ q_everywhere \in [all : BOOLEAN, full : BOOLEAN]
             /\ q_notices \in [1..MaxNotices -> NoticeType]
             /\ \A n \in 1..MaxNotices : q_notices[n].at # "over" => q_notices[n].session \in Sessions
FramesType == q_frames \in Seq(Q!Frames)
PlayerType == PlaysOne(q_audio) /\ q_muters \subseteq {"audio-recorder", "voice-call"}
AskedType == Settled(q_choice) /\ q_lists \subseteq Q!Frames
RecorderType == /\ q_mic \in MicType /\ q_ending \subseteq {"question", "button"}
                /\ q_ending # {} <=> q_mic.at = "stopping"
WindowType == q_window \in [front : BOOLEAN, page : Q!Places, named : BOOLEAN]
BellsType == q_call \in BOOLEAN /\ q_cut \in BOOLEAN
ActsType == q_spent \in [notices : 0..MaxNotices, acts : 0..MaxActs, faults : 0..MaxErrors]

QuestionTypes == /\ TasksType /\ FramesType /\ PlayerType /\ AskedType
                 /\ RecorderType /\ WindowType /\ BellsType /\ ActsType

LEMMA QuestionBounds == MaxNotices \in Nat /\ MaxActs \in Nat /\ MaxErrors \in Nat
BY PartsAssumption

LEMMA LeastNat ==
  ASSUME NEW S, S \subseteq Nat, S # {}
  PROVE  \E x \in S : \A y \in S : x <= y
<1> DEFINE Less == {pair \in Nat \X Nat : pair[1] < pair[2]}
<1>1. IsWellFoundedOn(Less, Nat)
  BY NatLessThanWellFounded DEF OpToRel
<1>2. \E x \in S : \A y \in S : <<y, x>> \notin Less
  <2> HIDE DEF Less
  <2> QED BY <1>1, WFMin
<1>3. \A x, y \in Nat : y < x => <<y, x>> \in Less
  OBVIOUS
<1>4. PICK x \in S : \A y \in S : <<y, x>> \notin Less
  BY <1>2
<1> HIDE DEF Less
<1>5. \A y \in S : ~(y < x)
  BY <1>3, <1>4
<1> QED BY <1>4, <1>5

\* Others is defined by recursion along the queue: there is such a function, for
\* each length, and what it holds are queues.
Rest(i, f, queue, s) ==
  IF i = 0 THEN <<>>
  ELSE IF queue[i].session = s THEN f[i - 1] ELSE Append(f[i - 1], queue[i])

LEMMA RestExists ==
  ASSUME NEW queue \in Seq(Q!Frames), NEW s
  PROVE  \E f : f = [i \in 0..Len(queue) |-> Rest(i, f, queue, s)]
<1> DEFINE Has(n) == \E f : f = [i \in 0..n |-> Rest(i, f, queue, s)]
           Missing == {n \in Nat : ~Has(n)}
<1>1. SUFFICES ASSUME Missing # {} PROVE FALSE
  <2>1. Len(queue) \in Nat
    OBVIOUS
  <2> QED BY <2>1
<1>2. PICK n \in Missing : \A k \in Missing : n <= k
  <2>1. Missing \subseteq Nat
    OBVIOUS
  <2> HIDE DEF Missing
  <2> QED BY <1>1, <2>1, LeastNat
<1>3. n \in Nat /\ ~Has(n)
  OBVIOUS
<1>4. CASE n = 0
  <2> DEFINE f == [i \in 0..0 |-> <<>>]
  <2>1. f = [i \in 0..0 |-> Rest(i, f, queue, s)]
    BY DEF Rest
  <2> QED BY <1>3, <1>4, <2>1
<1>5. CASE n # 0
  <2>1. n - 1 \in Nat /\ ~(n <= n - 1)
    BY <1>3, <1>5
  <2>2. Has(n - 1)
    BY <1>2, <2>1
  <2>3. PICK f : f = [i \in 0..n - 1 |-> Rest(i, f, queue, s)]
    BY <2>2
  <2> DEFINE g == [i \in 0..n |-> IF i = n THEN Rest(n, f, queue, s) ELSE f[i]]
  <2>4. ASSUME NEW i \in 0..n PROVE g[i] = Rest(i, g, queue, s)
    <3>1. CASE i = n
      <4>1. g[i] = Rest(n, f, queue, s) /\ g[n - 1] = f[n - 1]
        BY <1>3, <2>1, <3>1
      <4> HIDE DEF g
      <4> QED BY <1>5, <3>1, <4>1 DEF Rest
    <3>2. CASE i # n
      <4>1. i \in 0..n - 1 /\ (i # 0 => i - 1 \in 0..n /\ i - 1 # n)
        BY <1>3, <3>2
      <4>2. g[i] = f[i] /\ (i # 0 => g[i - 1] = f[i - 1])
        BY <3>2, <4>1
      <4>3. f[i] = Rest(i, f, queue, s)
        BY <2>3, <4>1
      <4> HIDE DEF g
      <4> QED BY <4>2, <4>3 DEF Rest
    <3> QED BY <3>1, <3>2
  <2>5. g = [i \in 0..n |-> g[i]]
    OBVIOUS
  <2>6. g = [i \in 0..n |-> Rest(i, g, queue, s)]
    <3> HIDE DEF g
    <3> QED BY <2>4, <2>5
  <2> HIDE DEF g
  <2> QED BY <1>3, <2>6
<1> QED BY <1>4, <1>5

LEMMA OthersType ==
  ASSUME NEW queue \in Seq(Q!Frames), NEW s
  PROVE  Q!Others(queue, s) \in Seq(Q!Frames)
<1> DEFINE left == CHOOSE f : f = [i \in 0..Len(queue) |-> Rest(i, f, queue, s)]
           Wrong == {i \in 0..Len(queue) : left[i] \notin Seq(Q!Frames)}
<1>1. left = [i \in 0..Len(queue) |-> Rest(i, left, queue, s)]
  BY RestExists
<1>2. Q!Others(queue, s) = left[Len(queue)]
  BY DEF Q!Others, Rest
<1> HIDE DEF left
<1>3. Len(queue) \in Nat /\ \A i \in 1..Len(queue) : queue[i] \in Q!Frames
  BY Elements
<1>4. ASSUME Wrong # {} PROVE FALSE
  <2>1. PICK i \in Wrong : \A k \in Wrong : i <= k
    <3>1. Wrong \subseteq Nat
      OBVIOUS
    <3> HIDE DEF Wrong
    <3> QED BY <1>4, <3>1, LeastNat
  <2>2. i \in 0..Len(queue) /\ left[i] \notin Seq(Q!Frames)
    OBVIOUS
  <2>3. left[i] = Rest(i, left, queue, s)
    BY <1>1, <2>2
  <2>4. CASE i = 0
    BY <2>2, <2>3, <2>4 DEF Rest
  <2>5. CASE i # 0
    <3>1. i - 1 \in 0..Len(queue) /\ ~(i <= i - 1) /\ i \in 1..Len(queue)
      BY <1>3, <2>2, <2>5
    <3>2. left[i - 1] \in Seq(Q!Frames)
      BY <2>1, <3>1
    <3>3. queue[i] \in Q!Frames
      BY <1>3, <3>1
    <3>4. Append(left[i - 1], queue[i]) \in Seq(Q!Frames)
      BY <3>2, <3>3
    <3> QED BY <2>2, <2>3, <2>5, <3>2, <3>4 DEF Rest
  <2> QED BY <2>4, <2>5
<1>5. Len(queue) \in 0..Len(queue)
  BY <1>3
<1> QED BY <1>2, <1>4, <1>5

LEMMA SilenceIsNone == Q!Silence \notin Q!Frames
BY DEF Q!Silence, Q!Frames

\* What the player's methods do to the record of its clips.
LEMMA ClipShape ==
  ASSUME NEW a \in ClipsType
  PROVE  /\ a.queue \in Seq(Q!Frames) /\ a.clip \in Q!Frames \cup {Q!Silence}
         /\ a.at \in {"idle", "playing", "gap"} /\ a.again \in BOOLEAN
BY Zenon DEF ClipsType

LEMMA ClipMade ==
  ASSUME NEW q \in Seq(Q!Frames), NEW c \in Q!Frames \cup {Q!Silence},
         NEW t \in {"idle", "playing", "gap"}, NEW b \in BOOLEAN
  PROVE  [queue |-> q, clip |-> c, at |-> t, again |-> b] \in ClipsType
BY Zenon DEF ClipsType

LEMMA ClipStops ==
  ASSUME NEW a \in ClipsType
  PROVE  /\ [a EXCEPT !.clip = Q!Silence, !.at = "idle", !.again = FALSE] \in ClipsType
         /\ [a EXCEPT !.clip = Q!Silence, !.at = "idle", !.again = FALSE].at = "idle"
BY Zenon DEF ClipsType

LEMMA ClipTurns ==
  ASSUME NEW a \in ClipsType, NEW t \in {"idle", "playing", "gap"}, NEW b \in BOOLEAN
  PROVE  /\ [a EXCEPT !.at = t, !.again = b] \in ClipsType
         /\ [a EXCEPT !.at = t] \in ClipsType
         /\ [a EXCEPT !.at = t, !.again = b].at = t
         /\ [a EXCEPT !.at = t, !.again = b].clip = a.clip
         /\ [a EXCEPT !.at = t].clip = a.clip
BY Zenon DEF ClipsType

LEMMA ClipQueues ==
  ASSUME NEW a \in ClipsType, NEW q \in Seq(Q!Frames)
  PROVE  /\ [a EXCEPT !.queue = q] \in ClipsType
         /\ [a EXCEPT !.queue = q].at = a.at
         /\ [a EXCEPT !.queue = q].clip = a.clip
BY Zenon DEF ClipsType

LEMMA ClipEmpties ==
  ASSUME NEW a \in ClipsType, NEW q \in Seq(Q!Frames)
  PROVE  /\ [a EXCEPT !.queue = q, !.at = "idle", !.again = FALSE] \in ClipsType
         /\ [a EXCEPT !.queue = q, !.at = "idle", !.again = FALSE].at = "idle"
BY Zenon DEF ClipsType

\* The player plays clips, whatever its methods do.
LEMMA PlayNextType ==
  ASSUME NEW a \in ClipsType, NEW m
  PROVE  PlaysOne(Q!PlayNext(a, m))
<1>1. CASE m # {} \/ a.queue = <<>>
  <2>1. Q!PlayNext(a, m) = [a EXCEPT !.clip = Q!Silence, !.at = "idle", !.again = FALSE]
    BY <1>1 DEF Q!PlayNext
  <2> QED BY <2>1, ClipStops DEF PlaysOne
<1>2. CASE ~(m # {} \/ a.queue = <<>>)
  <2>1. Q!PlayNext(a, m) = [queue |-> Tail(a.queue), clip |-> Head(a.queue), at |-> "playing",
                            again |-> FALSE]
    BY <1>2 DEF Q!PlayNext
  <2>2. Head(a.queue) \in Q!Frames /\ Tail(a.queue) \in Seq(Q!Frames)
    <3>1. a.queue \in Seq(Q!Frames) /\ a.queue # <<>>
      BY <1>2, ClipShape
    <3> QED BY <3>1
  <2>3. [queue |-> Tail(a.queue), clip |-> Head(a.queue), at |-> "playing", again |-> FALSE]
          \in ClipsType
    <3>1. Head(a.queue) \in Q!Frames \cup {Q!Silence} /\ FALSE \in BOOLEAN
      BY <2>2
    <3> QED BY Zenon, <2>2, <3>1 DEF ClipsType
  <2>4. Q!PlayNext(a, m).clip = Head(a.queue)
    BY <2>1
  <2> QED BY <2>1, <2>2, <2>3, <2>4, SilenceIsNone DEF PlaysOne
<1> QED BY <1>1, <1>2

LEMMA QueueType ==
  ASSUME NEW a, PlaysOne(a), NEW q \in Seq(Q!Frames)
  PROVE  PlaysOne([a EXCEPT !.queue = q]) /\ [a EXCEPT !.queue = q] \in ClipsType
BY ClipQueues DEF PlaysOne

LEMMA EnqueueType ==
  ASSUME NEW a, PlaysOne(a), NEW f \in Q!Frames, NEW m
  PROVE  PlaysOne(Q!Enqueue(a, f, m))
<1> DEFINE b == [a EXCEPT !.queue = Append(@, f)]
<1>1. a.queue \in Seq(Q!Frames)
  BY ClipShape DEF PlaysOne
<1>2. Append(a.queue, f) \in Seq(Q!Frames)
  BY <1>1
<1>3. PlaysOne(b) /\ b \in ClipsType
  BY <1>2, QueueType
<1>4. Q!Enqueue(a, f, m) = IF a.at = "idle" /\ m = {} THEN Q!PlayNext(b, m) ELSE b
  BY DEF Q!Enqueue
<1> HIDE DEF b
<1> QED BY <1>3, <1>4, PlayNextType

LEMMA ViewedType ==
  ASSUME NEW a, PlaysOne(a), NEW s, NEW m
  PROVE  PlaysOne(Q!Viewed(a, s, m))
<1> DEFINE b == [a EXCEPT !.queue = Q!Others(@, s)]
<1>1. a.queue \in Seq(Q!Frames)
  BY ClipShape DEF PlaysOne
<1>2. Q!Others(a.queue, s) \in Seq(Q!Frames)
  BY <1>1, OthersType
<1>3. PlaysOne(b) /\ b \in ClipsType
  BY <1>2, QueueType
<1>4. Q!Viewed(a, s, m) = IF b.clip.session = s THEN Q!PlayNext(b, m) ELSE b
  BY DEF Q!Viewed
<1> HIDE DEF b
<1> QED BY <1>3, <1>4, PlayNextType

LEMMA SuppressedType ==
  ASSUME NEW a, PlaysOne(a), NEW m
  PROVE  PlaysOne(Q!Suppressed(a, m))
<1>1. CASE m = {}
  <2>1. Q!Suppressed(a, m) = [a EXCEPT !.at = "idle", !.again = FALSE]
    BY <1>1 DEF Q!Suppressed
  <2>2. [a EXCEPT !.at = "idle", !.again = FALSE] \in ClipsType
    BY Zenon, ClipTurns DEF PlaysOne
  <2>3. [a EXCEPT !.at = "idle", !.again = FALSE].at = "idle"
    BY Zenon, ClipTurns DEF PlaysOne
  <2> QED BY <2>1, <2>2, <2>3 DEF PlaysOne
<1>2. CASE m # {}
  BY <1>2 DEF Q!Suppressed
<1> QED BY <1>1, <1>2

LEMMA ReleasedType ==
  ASSUME NEW a, PlaysOne(a), NEW m
  PROVE  PlaysOne(Q!Released(a, m))
BY PlayNextType DEF Q!Released, PlaysOne

LEMMA RepeatedType ==
  ASSUME NEW a, PlaysOne(a), a.at # "idle"
  PROVE  PlaysOne([a EXCEPT !.at = "gap", !.again = TRUE]) /\ PlaysOne([a EXCEPT !.at = "playing"])
BY ClipTurns DEF PlaysOne

LEMMA HushedType ==
  ASSUME NEW a, PlaysOne(a)
  PROVE  PlaysOne([a EXCEPT !.queue = <<>>, !.at = "idle", !.again = FALSE])
<1>1. <<>> \in Seq(Q!Frames)
  OBVIOUS
<1> QED BY <1>1, ClipEmpties DEF PlaysOne

-----------------------------------------------------------------------------
\* The questions, of which one is active when others wait.
LEMMA ChoiceShaped ==
  ASSUME NEW c \in ChoiceType
  PROVE  /\ c.queue \in Seq(Q!Frames) /\ c.active \in Q!Frames \cup {Q!Silence}
         /\ c.target \in Q!Places /\ c.listening \in BOOLEAN
BY Zenon DEF ChoiceType

LEMMA ChoicePumped ==
  ASSUME NEW c \in ChoiceType, NEW q \in Seq(Q!Frames), NEW f \in Q!Frames \cup {Q!Silence},
         NEW t \in Q!Places
  PROVE  /\ [c EXCEPT !.active = f, !.queue = q, !.target = t] \in ChoiceType
         /\ [c EXCEPT !.active = f, !.queue = q, !.target = t].active = f
BY Zenon DEF ChoiceType

LEMMA ChoiceEnded ==
  ASSUME NEW c \in ChoiceType, NEW f \in Q!Frames \cup {Q!Silence}, NEW t \in Q!Places
  PROVE  [c EXCEPT !.active = f, !.target = t] \in ChoiceType
BY Zenon DEF ChoiceType

LEMMA ChoiceQueued ==
  ASSUME NEW c \in ChoiceType, NEW q \in Seq(Q!Frames)
  PROVE  [c EXCEPT !.queue = q] \in ChoiceType
BY Zenon DEF ChoiceType

LEMMA ChoiceAimed ==
  ASSUME NEW c \in ChoiceType, NEW t \in Q!Places
  PROVE  /\ [c EXCEPT !.target = t] \in ChoiceType
         /\ [c EXCEPT !.target = t].active = c.active
         /\ [c EXCEPT !.target = t].queue = c.queue
BY Zenon DEF ChoiceType

LEMMA ChoiceHeard ==
  ASSUME NEW c \in ChoiceType, NEW b \in BOOLEAN
  PROVE  /\ [c EXCEPT !.listening = b] \in ChoiceType
         /\ [c EXCEPT !.listening = b].active = c.active
         /\ [c EXCEPT !.listening = b].queue = c.queue
BY Zenon DEF ChoiceType

LEMMA NowhereIsAPlace == Nowhere \in Q!Places
BY DEF Q!Places

LEMMA PumpType ==
  ASSUME NEW c \in ChoiceType
  PROVE  Settled(Q!Pump(c))
<1>1. CASE c.active # Q!Silence \/ c.queue = <<>>
  BY <1>1 DEF Q!Pump, Settled
<1>2. CASE ~(c.active # Q!Silence \/ c.queue = <<>>)
  <2>1. PICK f \in Q!Frames, q \in Seq(Q!Frames) : f = Head(c.queue) /\ q = Tail(c.queue)
    <3>1. c.queue \in Seq(Q!Frames) /\ c.queue # <<>>
      BY <1>2, ChoiceShaped
    <3>2. Head(c.queue) \in Q!Frames /\ Tail(c.queue) \in Seq(Q!Frames)
      BY <3>1
    <3> QED BY <3>2
  <2>2. Q!Pump(c) = [c EXCEPT !.active = f, !.queue = q, !.target = Nowhere]
    BY <1>2, <2>1 DEF Q!Pump
  <2>3. f \in Q!Frames \cup {Q!Silence}
    BY <2>1
  <2>4. /\ [c EXCEPT !.active = f, !.queue = q, !.target = Nowhere] \in ChoiceType
        /\ [c EXCEPT !.active = f, !.queue = q, !.target = Nowhere].active = f
    BY Zenon, <2>1, <2>3, NowhereIsAPlace DEF ChoiceType
  <2>5. f # Q!Silence
    BY <2>1, SilenceIsNone
  <2> QED BY <2>2, <2>4, <2>5 DEF Settled
<1> QED BY <1>1, <1>2

LEMMA FinishType ==
  ASSUME NEW c \in ChoiceType
  PROVE  Settled(Q!Finish(c))
<1>1. Q!Silence \in Q!Frames \cup {Q!Silence}
  OBVIOUS
<1>2. [c EXCEPT !.active = Q!Silence, !.target = Nowhere] \in ChoiceType
  BY <1>1, ChoiceEnded, NowhereIsAPlace
<1> QED BY <1>2, PumpType DEF Q!Finish

LEMMA WaitsType ==
  ASSUME NEW c \in ChoiceType, NEW f \in Q!Frames
  PROVE  Settled(Q!Pump([c EXCEPT !.queue = Append(@, f)]))
<1>1. c.queue \in Seq(Q!Frames)
  BY ChoiceShaped
<1>2. Append(c.queue, f) \in Seq(Q!Frames)
  BY <1>1
<1>3. [c EXCEPT !.queue = Append(@, f)] \in ChoiceType
  BY <1>2, ChoiceQueued
<1> QED BY <1>3, PumpType

LEMMA ListeningType ==
  ASSUME NEW c, Settled(c), NEW b \in BOOLEAN
  PROVE  Settled([c EXCEPT !.listening = b]) /\ [c EXCEPT !.listening = b] \in ChoiceType
BY ChoiceHeard DEF Settled

LEMMA TargetType ==
  ASSUME NEW c, Settled(c), NEW t \in Q!Places
  PROVE  Settled([c EXCEPT !.target = t])
BY ChoiceAimed DEF Settled

LEMMA ChoosesType ==
  ASSUME NEW c, Settled(c), NEW old, old \subseteq Q!Frames, Q!Chooses(c, old)
  PROVE  AskedType' /\ q_cut' \in BOOLEAN
<1>1. q_choice' = c /\ q_lists' = old \cup ({c.active} \ {Q!Silence, q_choice.active})
  BY DEF Q!Chooses
<1>2. c.active \in Q!Frames \cup {Q!Silence}
  BY ChoiceShaped DEF Settled
<1>3. q_lists' \subseteq Q!Frames
  BY <1>1, <1>2
<1>4. q_cut' \in BOOLEAN
  BY Zenon DEF Q!Chooses
<1> QED BY <1>1, <1>3, <1>4 DEF AskedType

-----------------------------------------------------------------------------
\* What a step leaves alone keeps its type.
LEMMA TypesKept ==
  ASSUME QuestionTypes
  PROVE  /\ UNCHANGED Q!worker => TasksType'
         /\ UNCHANGED q_frames => FramesType'
         /\ UNCHANGED <<q_audio, q_muters>> => PlayerType'
         /\ UNCHANGED <<q_choice, q_lists>> => AskedType'
         /\ UNCHANGED <<q_mic, q_ending>> => RecorderType'
         /\ UNCHANGED q_window => WindowType'
         /\ UNCHANGED <<q_call, q_cut>> => BellsType'
         /\ UNCHANGED q_spent => ActsType'
<1>1. UNCHANGED Q!worker => TasksType'
  BY DEF QuestionTypes, TasksType, Q!worker
<1>2. UNCHANGED q_frames => FramesType'
  BY DEF QuestionTypes, FramesType
<1>3. UNCHANGED <<q_audio, q_muters>> => PlayerType'
  BY DEF QuestionTypes, PlayerType
<1>4. UNCHANGED <<q_choice, q_lists>> => AskedType'
  BY DEF QuestionTypes, AskedType
<1>5. UNCHANGED <<q_mic, q_ending>> => RecorderType'
  BY DEF QuestionTypes, RecorderType
<1>6. UNCHANGED q_window => WindowType'
  BY DEF QuestionTypes, WindowType
<1>7. UNCHANGED <<q_call, q_cut>> => BellsType'
  BY Zenon DEF QuestionTypes, BellsType
<1>8. UNCHANGED q_spent => ActsType'
  BY DEF QuestionTypes, ActsType
<1> QED BY <1>1, <1>2, <1>3, <1>4, <1>5, <1>6, <1>7, <1>8

LEMMA ActsKept == ActsType /\ Q!Act => ActsType'
BY QuestionBounds DEF ActsType, Q!Act

LEMMA FaultsKept ==
  ActsType /\ q_spent.faults < MaxErrors /\ q_spent' = [q_spent EXCEPT !.faults = @ + 1]
    => ActsType'
BY QuestionBounds DEF ActsType

LEMMA BellRings ==
  ASSUME NEW a, NEW b, q_cut' = (a \/ b)
  PROVE  q_cut' \in BOOLEAN
BY Zenon

\* The recorder.
LEMMA MicShape ==
  ASSUME NEW m \in MicType
  PROVE  /\ m.at \in {"off", "asking", "on", "stopping"} /\ m.stray \in BOOLEAN
         /\ [m EXCEPT !.at = "on"] \in MicType /\ [m EXCEPT !.at = "on"].at = "on"
         /\ [m EXCEPT !.at = "stopping"] \in MicType
         /\ [m EXCEPT !.at = "stopping"].at = "stopping"
         /\ [m EXCEPT !.stray = TRUE] \in MicType /\ [m EXCEPT !.stray = TRUE].at = m.at
BY Zenon DEF MicType

LEMMA MicMade ==
  ASSUME NEW t \in {"off", "asking", "on", "stopping"}
  PROVE  [at |-> t, stray |-> FALSE] \in MicType
BY Zenon DEF MicType

LEMMA RecorderMoves ==
  ASSUME RecorderType, UNCHANGED q_ending,
         \/ q_mic' = Q!Started \/ q_mic' = Q!Cancelled \/ q_mic' = Q!Unawaited
         \/ q_mic.at = "asking" /\ q_mic' = [q_mic EXCEPT !.at = "on"]
         \/ q_mic.at = "asking" /\ q_mic' = Q!Off
  PROVE  RecorderType'
<1>1. q_mic \in MicType /\ q_mic.at \in {"off", "asking", "on", "stopping"}
  BY MicShape DEF RecorderType
<1>2. Q!Off \in MicType /\ Q!Off.at = "off"
  BY MicMade DEF Q!Off
<1>3. CASE q_mic' = Q!Started
  <2> DEFINE t == IF q_mic.at \in {"on", "stopping"} THEN q_mic.at ELSE "asking"
  <2>1. t \in {"off", "asking", "on", "stopping"} /\ (t = "stopping" <=> q_mic.at = "stopping")
    BY <1>1
  <2>2. q_mic' = [at |-> t, stray |-> FALSE]
    BY <1>3 DEF Q!Started
  <2> HIDE DEF t
  <2>3. q_mic' \in MicType /\ q_mic'.at = t
    BY <2>1, <2>2, MicMade
  <2> QED BY <2>1, <2>3 DEF RecorderType
<1>4. CASE q_mic' = Q!Unawaited
  <2>1. q_mic' \in MicType /\ q_mic'.at = q_mic.at
    BY <1>1, <1>4, MicShape DEF Q!Unawaited
  <2> QED BY <2>1 DEF RecorderType
<1>5. CASE q_mic' = Q!Cancelled
  <2>1. CASE q_mic.at = "on"
    BY <1>2, <1>5, <2>1 DEF Q!Cancelled, RecorderType
  <2>2. CASE q_mic.at # "on"
    BY <1>4, <1>5, <2>2 DEF Q!Cancelled
  <2> QED BY <2>1, <2>2
<1>6. CASE q_mic.at = "asking" /\ q_mic' = [q_mic EXCEPT !.at = "on"]
  <2>1. q_mic' \in MicType /\ q_mic'.at = "on"
    BY <1>1, <1>6, MicShape
  <2> QED BY <1>6, <2>1 DEF RecorderType
<1>7. CASE q_mic.at = "asking" /\ q_mic' = Q!Off
  BY <1>2, <1>7 DEF RecorderType
<1> QED BY <1>3, <1>4, <1>5, <1>6, <1>7

LEMMA RecorderStops ==
  ASSUME RecorderType, NEW who \in {"question", "button"},
         q_mic' = [q_mic EXCEPT !.at = "stopping"], q_ending' = q_ending \cup {who}
  PROVE  RecorderType'
<1>1. q_mic' \in MicType /\ q_mic'.at = "stopping"
  BY MicShape DEF RecorderType
<1>2. q_ending' \subseteq {"question", "button"} /\ q_ending' # {}
  BY DEF RecorderType
<1> QED BY <1>1, <1>2 DEF RecorderType

LEMMA RecorderEnds == q_mic' = Q!Off /\ q_ending' = {} => RecorderType'
BY MicMade DEF Q!Off, RecorderType

\* What the reasons to be silent become.
LEMMA PlayerMoves ==
  ASSUME PlayerType,
         \/ q_muters' = q_muters \cup {"audio-recorder"}
         \/ q_muters' = q_muters \cup {"voice-call"}
         \/ \E r : q_muters' = Q!Without(r)
         \/ UNCHANGED q_muters,
         PlaysOne(q_audio')
  PROVE  PlayerType'
BY DEF PlayerType, Q!Without

LEMMA ListensType ==
  ASSUME QuestionTypes, UNCHANGED <<q_lists, q_ending>>, NEW a, PlaysOne(a), Q!StartListening(a)
  PROVE  PlayerType' /\ AskedType' /\ RecorderType' /\ q_cut' \in BOOLEAN
<1>1. q_cut \in BOOLEAN /\ PlayerType /\ AskedType /\ RecorderType
  BY DEF QuestionTypes, BellsType
<1>2. CASE q_audio' = a /\ UNCHANGED <<q_choice, q_muters, q_mic, q_cut>>
  <2>1. PlaysOne(q_audio')
    BY <1>2
  <2>2. PlayerType' /\ q_cut' \in BOOLEAN
    BY <1>1, <1>2, <2>1, PlayerMoves
  <2> QED BY <1>2, <2>2, TypesKept
<1>3. CASE /\ q_choice' = [q_choice EXCEPT !.listening = TRUE]
           /\ q_muters' = q_muters \cup {"audio-recorder"}
           /\ q_audio' = Q!Suppressed(a, q_muters)
           /\ q_mic' = Q!Started
           /\ UNCHANGED q_cut
  <2>1. PlaysOne(q_audio')
    BY <1>3, SuppressedType
  <2>2. PlayerType'
    BY <1>1, <1>3, <2>1, PlayerMoves
  <2>3. RecorderType'
    BY <1>1, <1>3, RecorderMoves
  <2>4. Settled(q_choice')
    BY <1>1, <1>3, ListeningType DEF AskedType
  <2> QED BY <1>1, <1>3, <2>2, <2>3, <2>4 DEF AskedType
<1> QED BY <1>2, <1>3 DEF Q!StartListening

-----------------------------------------------------------------------------
\* The tasks of the worker: one that asks or is to be heard is of a session.
LEMMA NoticeMade ==
  ASSUME NEW t \in {"gate", "voice", "over"}, NEW k \in Q!Kinds \cup {"question"},
         NEW s \in Q!Places
  PROVE  /\ [at |-> t, kind |-> k, session |-> s] \in NoticeType
         /\ [at |-> t, kind |-> k, session |-> s].at = t
         /\ [at |-> t, kind |-> k, session |-> s].session = s
BY Zenon DEF NoticeType

LEMMA NoticeShape ==
  ASSUME NEW r \in NoticeType
  PROVE  /\ r.at \in {"gate", "voice", "over"} /\ r.kind \in Q!Kinds \cup {"question"}
         /\ r.session \in Q!Places
BY Zenon DEF NoticeType

LEMMA NoTaskType == Q!NoTask \in NoticeType /\ Q!NoTask.at = "over"
<1>1. "over" \in {"gate", "voice", "over"} /\ "summary" \in Q!Kinds \cup {"question"}
  BY DEF Q!Kinds
<1> QED BY Zenon, <1>1, NoticeMade, NowhereIsAPlace DEF Q!NoTask

LEMMA NoticesWritten ==
  ASSUME TasksType, NEW n \in 1..MaxNotices, NEW r \in NoticeType,
         r.at # "over" => r.session \in Sessions,
         q_notices' = [q_notices EXCEPT ![n] = r], UNCHANGED <<q_mode, q_everywhere>>
  PROVE  TasksType'
BY DEF TasksType

LEMMA NoticeBeginsType ==
  ASSUME QuestionTypes, NEW k \in Q!Kinds, NEW s \in Sessions, Q!NoticeBegins(k, s)
  PROVE  QuestionTypes'
<1>1. /\ q_spent.notices \in Nat /\ q_spent.notices + 1 \in 1..MaxNotices
      /\ q_spent' = [q_spent EXCEPT !.notices = @ + 1]
  BY QuestionBounds DEF Q!NoticeBegins, QuestionTypes, ActsType
<1>2. ActsType'
  BY <1>1, QuestionBounds DEF QuestionTypes, ActsType
<1> DEFINE r == [at |-> "gate", kind |-> k, session |-> s]
<1>3. s \in Q!Places /\ k \in Q!Kinds \cup {"question"} /\ "gate" \in {"gate", "voice", "over"}
  BY DEF Q!Places
<1>4. r \in NoticeType /\ r.session = s
  BY <1>3, NoticeMade
<1>5. q_notices' = [q_notices EXCEPT ![q_spent.notices + 1] = r]
  BY DEF Q!NoticeBegins
<1>6. UNCHANGED <<q_mode, q_everywhere, q_frames, q_audio, q_muters, q_choice, q_lists, q_mic,
                  q_ending, q_window, q_call, q_cut>>
  BY DEF Q!NoticeBegins, Q!page
<1> HIDE DEF r
<1>7. TasksType'
  BY <1>1, <1>4, <1>5, <1>6, NoticesWritten DEF QuestionTypes
<1> QED BY <1>2, <1>6, <1>7, TypesKept DEF QuestionTypes

LEMMA GateType ==
  ASSUME QuestionTypes, NEW n \in 1..MaxNotices, NEW passes, Q!Gate(n, passes)
  PROVE  QuestionTypes'
<1>1. UNCHANGED <<q_mode, q_everywhere, q_frames, q_audio, q_muters, q_choice, q_lists, q_mic,
                  q_ending, q_window, q_call, q_cut, q_spent>>
  BY DEF Q!Gate, Q!page
<1>2. q_notices[n] \in NoticeType /\ q_notices[n].at = "gate" /\ q_notices[n].session \in Sessions
  BY DEF Q!Gate, QuestionTypes, TasksType
<1>3. CASE q_notices' = [q_notices EXCEPT ![n] = Q!NoTask]
  <2>1. TasksType'
    BY <1>1, <1>3, NoTaskType, NoticesWritten DEF QuestionTypes
  <2> QED BY <1>1, <2>1, TypesKept DEF QuestionTypes
<1>4. CASE q_notices' = [q_notices EXCEPT ![n].at = "voice",
                          ![n].kind = IF @ = "summary" THEN @ ELSE "question"]
  <2> DEFINE k == IF q_notices[n].kind = "summary" THEN q_notices[n].kind ELSE "question"
             r == [q_notices[n] EXCEPT !.at = "voice", !.kind = k]
  <2>1. k \in Q!Kinds \cup {"question"}
    BY <1>2, NoticeShape
  <2>2. q_notices' = [q_notices EXCEPT ![n] = r]
    BY <1>4 DEF QuestionTypes, TasksType
  <2> HIDE DEF k
  <2>3. r \in NoticeType /\ r.session = q_notices[n].session
    BY Zenon, <1>2, <2>1 DEF NoticeType
  <2> HIDE DEF r
  <2>4. TasksType'
    BY <1>1, <1>2, <2>2, <2>3, NoticesWritten DEF QuestionTypes
  <2> QED BY <1>1, <2>4, TypesKept DEF QuestionTypes
<1> QED BY <1>3, <1>4 DEF Q!Gate

LEMMA SynthType ==
  ASSUME QuestionTypes, NEW n \in 1..MaxNotices, Q!SynthPublishes(n)
  PROVE  QuestionTypes'
<1>1. UNCHANGED <<q_mode, q_everywhere, q_audio, q_muters, q_choice, q_lists, q_mic,
                  q_ending, q_window, q_call, q_cut, q_spent>>
  BY DEF Q!SynthPublishes, Q!page
<1>2. q_notices[n].session \in Sessions
  BY DEF Q!SynthPublishes, QuestionTypes, TasksType
<1>3. Q!Frame(n) \in Q!Frames
  <2>1. (q_notices[n].kind = "question") \in BOOLEAN
    BY Zenon
  <2> QED BY Zenon, <1>2, <2>1 DEF Q!Frame, Q!Frames
<1>4. TasksType'
  <2>1. q_notices' = [q_notices EXCEPT ![n] = Q!NoTask]
    BY DEF Q!SynthPublishes
  <2> QED BY <1>1, <2>1, NoTaskType, NoticesWritten DEF QuestionTypes
<1>5. FramesType'
  <2>1. q_frames' = Append(q_frames, Q!Frame(n)) \/ q_frames' = q_frames
    BY DEF Q!SynthPublishes
  <2> QED BY <1>3, <2>1 DEF QuestionTypes, FramesType
<1> QED BY <1>1, <1>4, <1>5, TypesKept DEF QuestionTypes

LEMMA TasksKeepTypes ==
  ASSUME QuestionTypes, NEW n \in 1..MaxNotices, Q!Task(n)
  PROVE  QuestionTypes'
<1>1. Q!SynthPublishes(n) \/ \E passes : Q!Gate(n, passes)
  BY DEF Q!Task, Q!MaybeSpeak, Q!MaybeAskChoice, Q!MaybeAskOpen, Q!ReaskOpen, Q!MaybeConfirmChoice
<1> QED BY <1>1, GateType, SynthType

\* The settings, and the modes of the sessions.
LEMMA SettingsType ==
  ASSUME QuestionTypes,
         \/ \E s \in Sessions : Q!SetJarvis(s)
         \/ \E s \in Sessions, m \in Q!Modes : Q!SetJarvisMode(s, m)
         \/ \E every, full \in BOOLEAN : Q!PutSettings(every, full)
  PROVE  QuestionTypes'
<1>1. /\ UNCHANGED <<q_notices, q_frames, q_audio, q_muters, q_choice, q_lists, q_mic, q_ending,
                     q_window, q_call, q_cut>>
      /\ Q!Act
  BY DEF Q!SetJarvis, Q!SetJarvisMode, Q!PutSettings, Q!page
<1>2. ActsType'
  BY <1>1, ActsKept DEF QuestionTypes
<1> DEFINE ModeType == [jarvis : BOOLEAN, jarvis_mode : Q!Modes]
<1>3. q_mode \in [Sessions -> ModeType] /\ q_everywhere \in [all : BOOLEAN, full : BOOLEAN]
  BY DEF QuestionTypes, TasksType
<1>4. ASSUME NEW r \in ModeType PROVE r.jarvis \in BOOLEAN /\ r.jarvis_mode \in Q!Modes
  BY Zenon, <1>4
<1>5. ASSUME NEW b \in BOOLEAN, NEW m \in Q!Modes PROVE [jarvis |-> b, jarvis_mode |-> m] \in ModeType
  BY Zenon
<1>6. q_mode' \in [Sessions -> ModeType] /\ q_everywhere' \in [all : BOOLEAN, full : BOOLEAN]
  <2>1. ASSUME NEW s \in Sessions, Q!SetJarvis(s)
        PROVE  q_mode' \in [Sessions -> ModeType] /\ UNCHANGED q_everywhere
    <3>1. q_mode' = [q_mode EXCEPT ![s] = [q_mode[s] EXCEPT !.jarvis = ~q_mode[s].jarvis]]
      BY <2>1, <1>3 DEF Q!SetJarvis
    <3>2. q_mode[s] \in ModeType
      BY <1>3
    <3>3. [q_mode[s] EXCEPT !.jarvis = ~q_mode[s].jarvis] \in ModeType
      BY Zenon, <3>2
    <3> HIDE DEF ModeType
    <3>4. UNCHANGED q_everywhere
      BY <2>1 DEF Q!SetJarvis
    <3> QED BY <1>3, <3>1, <3>3, <3>4
  <2>2. ASSUME NEW s \in Sessions, NEW m \in Q!Modes, Q!SetJarvisMode(s, m)
        PROVE  q_mode' \in [Sessions -> ModeType] /\ UNCHANGED q_everywhere
    <3>1. /\ q_mode' = [q_mode EXCEPT ![s] = [jarvis |-> m # "off", jarvis_mode |-> m]]
          /\ UNCHANGED q_everywhere
      BY <2>2 DEF Q!SetJarvisMode
    <3>2. (m # "off") \in BOOLEAN
      BY Zenon
    <3>3. [jarvis |-> m # "off", jarvis_mode |-> m] \in ModeType
      BY Zenon, <3>2, <1>5
    <3> HIDE DEF ModeType
    <3> QED BY <1>3, <3>1, <3>3
  <2>3. ASSUME NEW every \in BOOLEAN, NEW full \in BOOLEAN, Q!PutSettings(every, full)
        PROVE  /\ q_mode' \in [Sessions -> ModeType]
               /\ q_everywhere' \in [all : BOOLEAN, full : BOOLEAN]
    <3> DEFINE b(s) == q_mode[s].jarvis /\ every
               m(s) == IF q_mode[s].jarvis_mode = "full" /\ ~full THEN "speaker"
                       ELSE q_mode[s].jarvis_mode
    <3>1. ASSUME NEW s \in Sessions PROVE b(s) \in BOOLEAN /\ m(s) \in Q!Modes
      <4>1. q_mode[s] \in ModeType
        BY <1>3
      <4>2. q_mode[s].jarvis_mode \in Q!Modes
        BY <4>1, <1>4
      <4>3. m(s) \in Q!Modes
        BY <4>2 DEF Q!Modes
      <4>4. b(s) \in BOOLEAN
        BY Zenon
      <4> QED BY <4>3, <4>4
    <3>2. q_mode' = [s \in Sessions |-> [jarvis |-> b(s), jarvis_mode |-> m(s)]]
      BY Zenon, <2>3 DEF Q!PutSettings
    <3>3. q_everywhere' \in [all : BOOLEAN, full : BOOLEAN]
      BY Zenon, <2>3 DEF Q!PutSettings
    <3> HIDE DEF b, m, ModeType
    <3> QED BY <1>5, <3>1, <3>2, <3>3
  <2> HIDE DEF ModeType
  <2> QED BY <1>3, <2>1, <2>2, <2>3
<1>7. TasksType'
  BY <1>1, <1>6 DEF QuestionTypes, TasksType
<1> QED BY <1>1, <1>2, <1>7, TypesKept DEF QuestionTypes

-----------------------------------------------------------------------------
\* What comes to the page.
LEMMA FrameArrivesType == QuestionTypes /\ Q!FrameArrives => QuestionTypes'
<1> SUFFICES ASSUME QuestionTypes, Q!FrameArrives PROVE QuestionTypes'
  OBVIOUS
<1>1. UNCHANGED <<q_mode, q_everywhere, q_notices, q_muters, q_mic, q_ending, q_window, q_call,
                  q_spent>>
  BY DEF Q!FrameArrives, Q!worker
<1>2. q_frames \in Seq(Q!Frames) /\ q_frames # <<>> /\ q_frames' = Tail(q_frames)
  BY DEF Q!FrameArrives, QuestionTypes, FramesType
<1>3. Head(q_frames) \in Q!Frames /\ q_frames' \in Seq(Q!Frames)
  BY <1>2
<1>4. PICK f \in Q!Frames : f = Head(q_frames)
  BY <1>3
<1>5. AskedType /\ PlayerType /\ q_cut \in BOOLEAN
  BY DEF QuestionTypes, BellsType
<1>6. CASE /\ Q!Chooses(Q!Pump([q_choice EXCEPT !.queue = Append(@, f)]), q_lists)
           /\ UNCHANGED q_audio
  <2>1. AskedType' /\ q_cut' \in BOOLEAN
    BY <1>5, <1>6, WaitsType, ChoosesType DEF AskedType, Settled
  <2>2. BellsType'
    BY Zenon, <1>1, <2>1 DEF QuestionTypes, BellsType
  <2>3. FramesType'
    BY <1>3 DEF FramesType
  <2> QED BY <1>1, <1>6, <2>1, <2>2, <2>3, TypesKept DEF QuestionTypes, Q!worker
<1>7. CASE /\ q_audio' = q_audio \/ q_audio' = Q!Enqueue(q_audio, f, q_muters)
           /\ UNCHANGED <<q_choice, q_lists, q_cut>>
  <2>1. PlaysOne(q_audio')
    BY <1>5, <1>7, EnqueueType DEF PlayerType
  <2>2. PlayerType'
    BY <1>1, <1>5, <2>1, PlayerMoves
  <2>3. FramesType'
    BY <1>3 DEF FramesType
  <2> QED BY <1>1, <1>7, <2>2, <2>3, TypesKept DEF QuestionTypes, Q!worker
<1>8. \/ /\ Q!Chooses(Q!Pump([q_choice EXCEPT !.queue = Append(@, f)]), q_lists)
         /\ UNCHANGED q_audio
      \/ /\ q_audio' = q_audio \/ q_audio' = Q!Enqueue(q_audio, f, q_muters)
         /\ UNCHANGED <<q_choice, q_lists, q_cut>>
  BY <1>4 DEF Q!FrameArrives
<1> QED BY <1>6, <1>7, <1>8

LEMMA ListsType ==
  ASSUME QuestionTypes, NEW f \in q_lists, Q!ListAnswers(f) \/ Q!ListFails(f)
  PROVE  QuestionTypes'
<1>1. UNCHANGED <<q_mode, q_everywhere, q_notices, q_frames, q_muters, q_mic, q_ending, q_window,
                  q_call>>
  BY DEF Q!ListAnswers, Q!ListFails, Q!worker
<1>2. AskedType /\ PlayerType /\ q_cut \in BOOLEAN /\ f \in Q!Frames /\ ActsType
  BY DEF QuestionTypes, BellsType, AskedType
<1>3. f.session \in Q!Places
  <2>1. f.session \in Sessions
    BY Zenon, <1>2 DEF Q!Frames
  <2> QED BY <2>1 DEF Q!Places
<1>4. ActsType'
  <2>1. UNCHANGED q_spent \/ /\ q_spent.faults < MaxErrors
                             /\ q_spent' = [q_spent EXCEPT !.faults = @ + 1]
    BY DEF Q!ListAnswers, Q!ListFails
  <2> QED BY <1>2, <2>1, FaultsKept DEF ActsType
<1>5. CASE /\ q_choice' = [q_choice EXCEPT !.target = f.session]
           /\ q_audio' = Q!Enqueue(q_audio, f, q_muters)
           /\ q_lists' = q_lists \ {f}
           /\ UNCHANGED q_cut
  <2>1. AskedType'
    <3>1. Settled(q_choice')
      BY <1>2, <1>3, <1>5, TargetType DEF AskedType
    <3> QED BY <1>2, <1>5, <3>1 DEF AskedType
  <2>2. PlayerType'
    <3>1. PlaysOne(q_audio')
      BY <1>2, <1>5, EnqueueType DEF PlayerType
    <3> QED BY <1>1, <1>2, <3>1, PlayerMoves
  <2> QED BY <1>1, <1>4, <1>5, <2>1, <2>2, TypesKept DEF QuestionTypes, Q!worker
<1>6. CASE Q!Chooses(Q!Finish(q_choice), q_lists \ {f}) /\ UNCHANGED q_audio
  <2>1. q_lists \ {f} \subseteq Q!Frames /\ Settled(Q!Finish(q_choice))
    BY <1>2, FinishType DEF AskedType, Settled
  <2>2. AskedType' /\ q_cut' \in BOOLEAN
    BY <1>6, <2>1, ChoosesType
  <2>3. BellsType'
    BY Zenon, <1>1, <2>2 DEF QuestionTypes, BellsType
  <2> QED BY <1>1, <1>4, <1>6, <2>2, <2>3, TypesKept DEF QuestionTypes, Q!worker
<1> QED BY <1>5, <1>6 DEF Q!ListAnswers, Q!ListFails

\* The clips.
LEMMA ClipsKeepTypes == QuestionTypes /\ (Q!ClipEnds \/ Q!RepeatPlays) => QuestionTypes'
<1> SUFFICES ASSUME QuestionTypes, Q!ClipEnds \/ Q!RepeatPlays PROVE QuestionTypes'
  OBVIOUS
<1>1. /\ UNCHANGED <<q_mode, q_everywhere, q_notices, q_frames, q_lists, q_ending, q_call, q_spent>>
      /\ q_audio.at # "idle"
  BY DEF Q!ClipEnds, Q!RepeatPlays, Q!worker
<1>2. PlayerType /\ AskedType /\ q_cut \in BOOLEAN /\ PlaysOne(q_audio) /\ q_audio \in ClipsType
  BY DEF QuestionTypes, BellsType, PlayerType, PlaysOne
<1>3. CASE Q!QuestionSpoken
  <2>1. PlayerType' /\ AskedType' /\ RecorderType' /\ q_cut' \in BOOLEAN
    <3>1. /\ PlaysOne(Q!PlayNext(q_audio, q_muters))
          /\ Q!StartListening(Q!PlayNext(q_audio, q_muters))
      BY <1>2, <1>3, PlayNextType DEF Q!QuestionSpoken
    <3> QED BY <1>1, <3>1, ListensType
  <2>2. WindowType'
    <3>1. q_window' = [q_window EXCEPT !.page = q_choice.target, !.named = FALSE]
      BY <1>3 DEF Q!QuestionSpoken
    <3>2. q_choice.target \in Q!Places
      BY <1>2, ChoiceShaped DEF AskedType, Settled
    <3> QED BY Zenon, <3>1, <3>2 DEF QuestionTypes, WindowType
  <2>3. BellsType'
    BY Zenon, <1>1, <2>1 DEF QuestionTypes, BellsType
  <2> QED BY <1>1, <2>1, <2>2, <2>3, TypesKept DEF QuestionTypes, Q!worker
<1>4. CASE /\ UNCHANGED <<q_choice, q_muters, q_mic, q_window, q_cut>>
           /\ \/ q_audio' = Q!PlayNext(q_audio, q_muters)
              \/ q_audio' = [q_audio EXCEPT !.at = "gap", !.again = TRUE]
              \/ q_audio' = [q_audio EXCEPT !.at = "playing"]
  <2>1. PlaysOne(q_audio')
    BY <1>1, <1>2, <1>4, PlayNextType, RepeatedType
  <2>2. PlayerType'
    BY <1>2, <1>4, <2>1, PlayerMoves
  <2> QED BY <1>1, <1>4, <2>2, TypesKept DEF QuestionTypes, Q!worker
<1>5. CASE Q!ClipEnds
  BY <1>3, <1>4, <1>5 DEF Q!ClipEnds
<1>6. CASE Q!RepeatPlays
  BY <1>4, <1>6 DEF Q!RepeatPlays
<1> QED BY <1>5, <1>6

\* The recorder, and the end of what a question listens to.
LEMMA MicKeepsTypes ==
  QuestionTypes /\ (Q!MicOpens \/ Q!MicRefused \/ Q!SendsRecording) => QuestionTypes'
<1> SUFFICES ASSUME QuestionTypes, Q!MicOpens \/ Q!MicRefused \/ Q!SendsRecording
             PROVE  QuestionTypes'
  OBVIOUS
<1>1. UNCHANGED <<q_mode, q_everywhere, q_notices, q_frames, q_audio, q_muters, q_choice, q_lists,
                  q_window, q_call, q_cut>>
  BY DEF Q!MicOpens, Q!MicRefused, Q!SendsRecording, Q!worker
<1>2. RecorderType /\ ActsType
  BY DEF QuestionTypes
<1>3. RecorderType'
  <2>1. CASE Q!MicOpens \/ Q!MicRefused
    BY <1>2, <2>1, RecorderMoves DEF Q!MicOpens, Q!MicRefused
  <2>2. CASE Q!SendsRecording
    BY <1>2, <2>2, RecorderStops DEF Q!SendsRecording
  <2> QED BY <2>1, <2>2
<1>4. ActsType'
  <2>1. CASE Q!MicOpens
    BY <1>2, <2>1 DEF Q!MicOpens, ActsType
  <2>2. CASE Q!MicRefused
    BY <1>2, <2>2, FaultsKept DEF Q!MicRefused
  <2>3. CASE Q!SendsRecording
    BY <1>2, <2>3, ActsKept DEF Q!SendsRecording
  <2> QED BY <2>1, <2>2, <2>3
<1> QED BY <1>1, <1>3, <1>4, TypesKept DEF QuestionTypes, Q!worker

LEMMA ListenedType == QuestionTypes /\ Q!ListenedEnough => QuestionTypes'
<1> SUFFICES ASSUME QuestionTypes, Q!ListenedEnough PROVE QuestionTypes'
  OBVIOUS
<1>1. UNCHANGED <<q_mode, q_everywhere, q_notices, q_frames, q_window, q_call, q_spent>>
  BY DEF Q!ListenedEnough, Q!worker
<1>2. PlayerType /\ AskedType /\ RecorderType /\ q_cut \in BOOLEAN /\ Settled(q_choice)
  BY DEF QuestionTypes, BellsType, AskedType
<1>3. PlayerType'
  <2>1. /\ q_muters' = Q!Without("audio-recorder")
        /\ q_audio' = Q!Released(q_audio, q_muters')
    BY DEF Q!ListenedEnough
  <2>2. PlaysOne(q_audio')
    BY <1>2, <2>1, ReleasedType DEF PlayerType
  <2> QED BY <1>2, <2>1, <2>2, PlayerMoves
<1>4. CASE /\ q_mic' = [q_mic EXCEPT !.at = "stopping"]
           /\ q_ending' = q_ending \cup {"question"}
           /\ q_choice' = [q_choice EXCEPT !.listening = FALSE]
           /\ UNCHANGED <<q_lists, q_cut>>
  <2>1. RecorderType'
    BY <1>2, <1>4, RecorderStops
  <2>2. Settled(q_choice')
    BY <1>2, <1>4, ListeningType
  <2>3. AskedType'
    BY <1>2, <1>4, <2>2 DEF AskedType
  <2> QED BY <1>1, <1>3, <1>4, <2>1, <2>3, TypesKept DEF QuestionTypes, Q!worker
<1>5. CASE /\ Q!Chooses(Q!Finish([q_choice EXCEPT !.listening = FALSE]), q_lists)
           /\ q_mic' = Q!Unawaited
           /\ UNCHANGED q_ending
  <2>1. RecorderType'
    BY <1>2, <1>5, RecorderMoves
  <2>2. Settled(Q!Finish([q_choice EXCEPT !.listening = FALSE]))
    BY <1>2, ListeningType, FinishType
  <2>3. AskedType' /\ q_cut' \in BOOLEAN
    BY <1>2, <1>5, <2>2, ChoosesType DEF AskedType
  <2>4. BellsType'
    BY Zenon, <1>1, <2>3 DEF QuestionTypes, BellsType
  <2> QED BY <1>1, <1>3, <2>1, <2>3, <2>4, TypesKept DEF QuestionTypes, Q!worker
<1> QED BY <1>4, <1>5 DEF Q!ListenedEnough

LEMMA StoppedType == QuestionTypes /\ Q!Stopped => QuestionTypes'
<1> SUFFICES ASSUME QuestionTypes, Q!Stopped PROVE QuestionTypes'
  OBVIOUS
<1>1. UNCHANGED <<q_mode, q_everywhere, q_notices, q_frames, q_window, q_call, q_spent>>
  BY DEF Q!Stopped, Q!worker
<1>2. PlayerType /\ AskedType /\ q_cut \in BOOLEAN /\ Settled(q_choice)
  BY DEF QuestionTypes, BellsType, AskedType
<1>3. RecorderType'
  BY RecorderEnds DEF Q!Stopped
<1>4. AskedType' /\ q_cut' \in BOOLEAN
  <2>1. CASE Q!Chooses(Q!Finish(q_choice), q_lists)
    <3>1. Settled(Q!Finish(q_choice))
      BY <1>2, FinishType DEF Settled
    <3> QED BY <1>2, <2>1, <3>1, ChoosesType DEF AskedType
  <2>2. CASE UNCHANGED <<q_choice, q_lists, q_cut>>
    BY <1>2, <2>2, TypesKept
  <2> QED BY <2>1, <2>2 DEF Q!Stopped
<1>5. BellsType'
  BY Zenon, <1>1, <1>4 DEF QuestionTypes, BellsType
<1>6. PlayerType'
  <2>1. \/ /\ q_muters' = Q!Without("audio-recorder")
           /\ q_audio' = Q!Released(q_audio, q_muters')
        \/ UNCHANGED <<q_muters, q_audio>>
    BY DEF Q!Stopped
  <2>2. PlaysOne(q_audio')
    BY <1>2, <2>1, ReleasedType DEF PlayerType
  <2> QED BY <1>2, <2>1, <2>2, PlayerMoves
<1> QED BY <1>1, <1>3, <1>4, <1>5, <1>6, TypesKept DEF QuestionTypes, Q!worker

-----------------------------------------------------------------------------
\* The user at the window, at the banner of a question, and at the recorder.
LEMMA ComesBackType == QuestionTypes /\ Q!ComesBack => QuestionTypes'
<1> SUFFICES ASSUME QuestionTypes, Q!ComesBack PROVE QuestionTypes'
  OBVIOUS
<1>1. UNCHANGED <<q_mode, q_everywhere, q_notices, q_frames, q_lists, q_ending, q_call>> /\ Q!Act
  BY DEF Q!ComesBack, Q!worker
<1>2. PlaysOne(q_audio) /\ Q!StartListening(q_audio)
  BY DEF QuestionTypes, PlayerType, Q!ComesBack
<1>3. PlayerType' /\ AskedType' /\ RecorderType' /\ q_cut' \in BOOLEAN
  BY <1>1, <1>2, ListensType
<1>4. WindowType'
  <2>1. q_window' = [q_window EXCEPT !.front = TRUE]
    BY DEF Q!ComesBack
  <2> QED BY Zenon, <2>1 DEF QuestionTypes, WindowType
<1>5. BellsType'
  BY Zenon, <1>1, <1>3 DEF QuestionTypes, BellsType
<1>6. ActsType'
  BY <1>1, ActsKept DEF QuestionTypes
<1> QED BY <1>1, <1>3, <1>4, <1>5, <1>6, TypesKept DEF QuestionTypes, Q!worker

LEMMA GoesAwayType == QuestionTypes /\ Q!GoesAway => QuestionTypes'
<1> SUFFICES ASSUME QuestionTypes, Q!GoesAway PROVE QuestionTypes'
  OBVIOUS
<1>1. /\ UNCHANGED <<q_mode, q_everywhere, q_notices, q_frames, q_audio, q_muters, q_choice,
                     q_lists, q_mic, q_ending, q_call, q_cut>>
      /\ Q!Act
  BY DEF Q!GoesAway, Q!worker
<1>2. WindowType'
  <2>1. q_window' = [q_window EXCEPT !.front = FALSE]
    BY DEF Q!GoesAway
  <2> QED BY Zenon, <2>1 DEF QuestionTypes, WindowType
<1>3. ActsType'
  BY <1>1, ActsKept DEF QuestionTypes
<1> QED BY <1>1, <1>2, <1>3, TypesKept DEF QuestionTypes, Q!worker

LEMMA OpensType ==
  ASSUME QuestionTypes, NEW s \in Sessions, NEW named \in BOOLEAN, Q!Opens(s, named)
  PROVE  QuestionTypes'
<1>1. /\ UNCHANGED <<q_mode, q_everywhere, q_notices, q_frames, q_muters, q_choice, q_lists, q_mic,
                     q_ending, q_call>>
      /\ Q!Act
  BY DEF Q!Opens, Q!worker
<1>2. WindowType'
  <2>1. q_window' = [q_window EXCEPT !.page = s, !.named = named] /\ s \in Q!Places
    BY DEF Q!Opens, Q!Places
  <2> QED BY Zenon, <2>1 DEF QuestionTypes, WindowType
<1>3. PlayerType'
  <2>1. PlayerType /\ (q_audio' = Q!Viewed(q_audio, s, q_muters) \/ q_audio' = q_audio)
    BY DEF Q!Opens, QuestionTypes
  <2>2. PlaysOne(q_audio')
    BY <2>1, ViewedType DEF PlayerType
  <2> QED BY <1>1, <2>1, <2>2, PlayerMoves
<1>4. q_cut' \in BOOLEAN
  BY Zenon, BellRings DEF Q!Opens
<1>5. BellsType'
  BY Zenon, <1>1, <1>4 DEF QuestionTypes, BellsType
<1>6. ActsType'
  BY <1>1, ActsKept DEF QuestionTypes
<1> QED BY <1>1, <1>2, <1>3, <1>5, <1>6, TypesKept DEF QuestionTypes, Q!worker

LEMMA ClosesType == QuestionTypes /\ Q!Closes => QuestionTypes'
<1> SUFFICES ASSUME QuestionTypes, Q!Closes PROVE QuestionTypes'
  OBVIOUS
<1>1. UNCHANGED <<q_mode, q_everywhere, q_notices, q_frames, q_ending, q_window, q_call>> /\ Q!Act
  BY DEF Q!Closes, Q!worker
<1>2. PlayerType /\ AskedType /\ RecorderType /\ Settled(q_choice)
  BY DEF QuestionTypes, AskedType
<1>3. PlayerType' /\ RecorderType'
  <2>1. CASE /\ q_muters' = Q!Without("audio-recorder")
             /\ q_audio' = Q!Released(q_audio, q_muters')
             /\ q_mic' = Q!Cancelled
    <3>1. PlaysOne(q_audio')
      BY <1>2, <2>1, ReleasedType DEF PlayerType
    <3> QED BY <1>1, <1>2, <2>1, <3>1, PlayerMoves, RecorderMoves
  <2>2. CASE UNCHANGED <<q_muters, q_audio, q_mic>>
    BY <1>1, <2>2, TypesKept
  <2> QED BY <2>1, <2>2 DEF Q!Closes
<1>4. AskedType' /\ q_cut' \in BOOLEAN
  <2>1. Settled(Q!Finish([q_choice EXCEPT !.listening = FALSE]))
    BY <1>2, ListeningType, FinishType
  <2>2. Q!Chooses(Q!Finish([q_choice EXCEPT !.listening = FALSE]), q_lists)
    BY DEF Q!Closes
  <2> QED BY <1>2, <2>1, <2>2, ChoosesType DEF AskedType
<1>5. BellsType'
  BY Zenon, <1>1, <1>4 DEF QuestionTypes, BellsType
<1>6. ActsType'
  BY <1>1, ActsKept DEF QuestionTypes
<1> QED BY <1>1, <1>3, <1>4, <1>5, <1>6, TypesKept DEF QuestionTypes, Q!worker

LEMMA ButtonType == QuestionTypes /\ (Q!Records \/ Q!CancelsRecording) => QuestionTypes'
<1> SUFFICES ASSUME QuestionTypes, Q!Records \/ Q!CancelsRecording PROVE QuestionTypes'
  OBVIOUS
<1>1. /\ UNCHANGED <<q_mode, q_everywhere, q_notices, q_frames, q_choice, q_lists, q_ending,
                     q_window, q_call>>
      /\ Q!Act
  BY DEF Q!Records, Q!CancelsRecording, Q!worker
<1>2. PlayerType /\ RecorderType
  BY DEF QuestionTypes
<1>3. RecorderType'
  BY <1>1, <1>2, RecorderMoves DEF Q!Records, Q!CancelsRecording
<1>4. PlayerType'
  <2>1. \/ /\ q_muters' = q_muters \cup {"audio-recorder"}
           /\ q_audio' = Q!Suppressed(q_audio, q_muters)
        \/ /\ q_muters' = Q!Without("audio-recorder")
           /\ q_audio' = Q!Released(q_audio, q_muters')
    BY DEF Q!Records, Q!CancelsRecording
  <2>2. PlaysOne(q_audio')
    BY <1>2, <2>1, SuppressedType, ReleasedType DEF PlayerType
  <2> QED BY <1>2, <2>1, <2>2, PlayerMoves
<1>5. q_cut' \in BOOLEAN
  <2>1. CASE Q!Records
    BY Zenon, <2>1, BellRings DEF Q!Records
  <2>2. CASE Q!CancelsRecording
    BY Zenon, <2>2 DEF Q!CancelsRecording, QuestionTypes, BellsType
  <2> QED BY <2>1, <2>2
<1>6. BellsType'
  BY Zenon, <1>1, <1>5 DEF QuestionTypes, BellsType
<1>7. ActsType'
  BY <1>1, ActsKept DEF QuestionTypes
<1> QED BY <1>1, <1>3, <1>4, <1>6, <1>7, TypesKept DEF QuestionTypes, Q!worker

\* Calls, and the sound.
LEMMA CallsType == QuestionTypes /\ (Q!CallStarts \/ Q!CallEnds \/ Q!SoundOff) => QuestionTypes'
<1> SUFFICES ASSUME QuestionTypes, Q!CallStarts \/ Q!CallEnds \/ Q!SoundOff PROVE QuestionTypes'
  OBVIOUS
<1>1. /\ UNCHANGED <<q_mode, q_everywhere, q_notices, q_frames, q_choice, q_lists, q_mic, q_ending,
                     q_window>>
      /\ Q!Act \/ UNCHANGED q_spent
  BY DEF Q!CallStarts, Q!CallEnds, Q!SoundOff, Q!worker
<1>2. PlayerType /\ ActsType
  BY DEF QuestionTypes
<1>3. PlayerType'
  <2>1. \/ /\ q_muters' = q_muters \cup {"voice-call"}
           /\ q_audio' = Q!Suppressed(q_audio, q_muters)
        \/ /\ q_muters' = Q!Without("voice-call")
           /\ q_audio' = Q!Released(q_audio, q_muters')
        \/ /\ UNCHANGED q_muters
           /\ q_audio' = [q_audio EXCEPT !.queue = <<>>, !.at = "idle", !.again = FALSE]
    BY DEF Q!CallStarts, Q!CallEnds, Q!SoundOff
  <2>2. PlaysOne(q_audio')
    BY <1>2, <2>1, SuppressedType, ReleasedType, HushedType DEF PlayerType
  <2> QED BY <1>2, <2>1, <2>2, PlayerMoves
<1>4. BellsType'
  <2>1. CASE Q!CallStarts
    BY Zenon, <2>1 DEF Q!CallStarts, BellsType
  <2>2. CASE Q!CallEnds
    BY Zenon, <2>2 DEF Q!CallEnds, QuestionTypes, BellsType
  <2>3. CASE Q!SoundOff
    BY Zenon, <2>3 DEF Q!SoundOff, QuestionTypes, BellsType
  <2> QED BY <2>1, <2>2, <2>3
<1>5. ActsType'
  <2>1. CASE Q!Act
    BY <1>2, <2>1, ActsKept
  <2>2. CASE UNCHANGED q_spent
    BY <2>2, TypesKept
  <2> QED BY <1>1, <2>1, <2>2
<1> QED BY <1>1, <1>3, <1>4, <1>5, TypesKept DEF QuestionTypes, Q!worker

LEMMA QuestionsInit == Q!Init => QuestionTypes
<1> SUFFICES ASSUME Q!Init PROVE QuestionTypes
  OBVIOUS
<1>1. TasksType
  <2>1. \A n \in 1..MaxNotices : q_notices[n] = Q!NoTask
    BY DEF Q!Init
  <2>2. q_notices \in [1..MaxNotices -> NoticeType]
    BY NoTaskType DEF Q!Init
  <2>3. q_mode \in [Sessions -> [jarvis : BOOLEAN, jarvis_mode : Q!Modes]]
    <3>1. TRUE \in BOOLEAN /\ "full" \in Q!Modes
      BY DEF Q!Modes
    <3>2. [jarvis |-> TRUE, jarvis_mode |-> "full"] \in [jarvis : BOOLEAN, jarvis_mode : Q!Modes]
      BY Zenon, <3>1
    <3> QED BY <3>2 DEF Q!Init
  <2>4. q_everywhere \in [all : BOOLEAN, full : BOOLEAN]
    BY Zenon DEF Q!Init
  <2> QED BY <2>1, <2>2, <2>3, <2>4, NoTaskType DEF TasksType
<1>2. FramesType
  BY DEF Q!Init, FramesType
<1>3. PlayerType
  <2>1. q_audio = [queue |-> <<>>, clip |-> Q!Silence, at |-> "idle", again |-> FALSE]
        /\ q_muters = {}
    BY DEF Q!Init
  <2>2. <<>> \in Seq(Q!Frames) /\ Q!Silence \in Q!Frames \cup {Q!Silence}
    OBVIOUS
  <2>3. [queue |-> <<>>, clip |-> Q!Silence, at |-> "idle", again |-> FALSE] \in ClipsType
    BY Zenon, <2>2 DEF ClipsType
  <2>4. q_audio.at = "idle"
    BY <2>1
  <2> QED BY <2>1, <2>3, <2>4 DEF PlayerType, PlaysOne
<1>4. AskedType
  <2>1. q_choice = [queue |-> <<>>, active |-> Q!Silence, target |-> Nowhere, listening |-> FALSE]
        /\ q_lists = {}
    BY DEF Q!Init
  <2>2. <<>> \in Seq(Q!Frames) /\ Q!Silence \in Q!Frames \cup {Q!Silence}
    OBVIOUS
  <2>3. [queue |-> <<>>, active |-> Q!Silence, target |-> Nowhere, listening |-> FALSE]
          \in ChoiceType
    BY Zenon, <2>2, NowhereIsAPlace DEF ChoiceType
  <2>4. q_choice.queue = <<>>
    BY <2>1
  <2> QED BY <2>1, <2>3, <2>4 DEF AskedType, Settled
<1>5. RecorderType
  BY MicMade DEF Q!Init, Q!Off, RecorderType
<1>6. WindowType
  BY Zenon, NowhereIsAPlace DEF Q!Init, WindowType
<1>7. BellsType
  BY Zenon DEF Q!Init, BellsType
<1>8. ActsType
  BY QuestionBounds DEF Q!Init, ActsType
<1> QED BY <1>1, <1>2, <1>3, <1>4, <1>5, <1>6, <1>7, <1>8 DEF QuestionTypes

LEMMA QuestionsStep == QuestionTypes /\ [Q!Next]_questionsVars => QuestionTypes'
<1> SUFFICES ASSUME QuestionTypes, [Q!Next]_questionsVars PROVE QuestionTypes'
  OBVIOUS
<1>1. CASE \E k \in Q!Kinds, s \in Sessions : Q!NoticeBegins(k, s)
  BY <1>1, NoticeBeginsType
<1>2. CASE \E n \in 1..MaxNotices : Q!Task(n)
  BY <1>2, TasksKeepTypes
<1>3. CASE Q!Browser
  BY <1>3, FrameArrivesType, ListsType, ClipsKeepTypes, MicKeepsTypes, ListenedType, StoppedType
     DEF Q!Browser
<1>4. CASE Q!MicRefused
  BY <1>4, MicKeepsTypes
<1>5. CASE \E f \in q_lists : Q!ListFails(f)
  BY <1>5, ListsType
<1>6. CASE Q!User
  <2>1. ASSUME NEW s \in Sessions, Q!SetJarvis(s) PROVE QuestionTypes'
    BY <2>1, SettingsType
  <2>2. ASSUME NEW s \in Sessions, NEW m \in Q!Modes, Q!SetJarvisMode(s, m) PROVE QuestionTypes'
    BY <2>2, SettingsType
  <2>3. ASSUME NEW every \in BOOLEAN, NEW full \in BOOLEAN, Q!PutSettings(every, full)
        PROVE  QuestionTypes'
    BY <2>3, SettingsType
  <2>4. ASSUME NEW s \in Sessions, NEW named \in BOOLEAN, Q!Opens(s, named) PROVE QuestionTypes'
    BY <2>4, OpensType
  <2>5. CASE Q!ComesBack \/ Q!GoesAway
    BY <2>5, ComesBackType, GoesAwayType
  <2>6. CASE Q!Closes \/ Q!Records \/ Q!CancelsRecording \/ Q!SendsRecording
    BY <2>6, ClosesType, ButtonType, MicKeepsTypes
  <2>7. CASE Q!CallStarts \/ Q!CallEnds \/ Q!SoundOff
    BY <2>7, CallsType
  <2> QED BY Zenon, <1>6, <2>1, <2>2, <2>3, <2>4, <2>5, <2>6, <2>7 DEF Q!User
<1>7. CASE UNCHANGED questionsVars
  BY <1>7, TypesKept DEF questionsVars, QuestionTypes, Q!worker
<1> QED BY <1>1, <1>2, <1>3, <1>4, <1>5, <1>6, <1>7 DEF Q!Next

\* With the player that stands idle while anything silences it, this is the type
\* invariant of the module.
LEMMA QuestionsTyped == QuestionTypes /\ QuietInv => Q!TypeOK
<1> SUFFICES ASSUME QuestionTypes, QuietInv PROVE Q!TypeOK
  OBVIOUS
<1>1. /\ q_mode \in [Sessions -> [jarvis : BOOLEAN, jarvis_mode : Q!Modes]]
      /\ q_everywhere \in [all : BOOLEAN, full : BOOLEAN]
      /\ q_notices \in [1..MaxNotices -> [at : {"gate", "voice", "over"},
                                          kind : Q!Kinds \cup {"question"}, session : Q!Places]]
      /\ q_frames \in Seq(Q!Frames)
  BY DEF QuestionTypes, TasksType, NoticeType, FramesType
<1>2. /\ q_audio.queue \in Seq(Q!Frames) /\ q_audio.clip \in Q!Frames \cup {Q!Silence}
      /\ q_audio.at \in {"idle", "playing", "gap"} /\ q_audio.again \in BOOLEAN
      /\ q_audio.at # "idle" => q_audio.clip # Q!Silence
      /\ q_muters \subseteq {"audio-recorder", "voice-call"}
  BY ClipShape DEF QuestionTypes, PlayerType, PlaysOne
<1>3. q_audio.at # "idle" => q_muters = {}
  BY DEF QuietInv, SilentWhenMuted
<1>4. /\ q_choice.queue \in Seq(Q!Frames) /\ q_choice.active \in Q!Frames \cup {Q!Silence}
      /\ q_choice.target \in Q!Places /\ q_choice.listening \in BOOLEAN
      /\ q_choice.active = Q!Silence => q_choice.queue = <<>>
      /\ q_lists \subseteq Q!Frames
  BY ChoiceShaped DEF QuestionTypes, AskedType, Settled
<1>5. /\ q_mic \in [at : {"off", "asking", "on", "stopping"}, stray : BOOLEAN]
      /\ q_ending \subseteq {"question", "button"}
      /\ q_ending # {} <=> q_mic.at = "stopping"
  BY DEF QuestionTypes, RecorderType, MicType
<1>6. /\ q_window \in [front : BOOLEAN, page : Q!Places, named : BOOLEAN]
      /\ q_call \in BOOLEAN /\ q_cut \in BOOLEAN
      /\ q_spent \in [notices : 0..MaxNotices, acts : 0..MaxActs, faults : 0..MaxErrors]
  BY DEF QuestionTypes, WindowType, BellsType, ActsType
<1> QED BY Zenon, <1>1, <1>2, <1>3, <1>4, <1>5, <1>6 DEF Q!TypeOK

-----------------------------------------------------------------------------
(* The theorems. *)

\* A step of a behaviour is one of a part, and the others stand.
LEMMA PartSteps ==
  [Nexts]_all => /\ [Next]_vars
                 /\ [O!Next]_outputVars
                 /\ [K!Next]_milestonesVars
                 /\ [L!Next]_attentionVars
                 /\ [Q!Next]_questionsVars
<1> SUFFICES ASSUME [Nexts]_all
             PROVE  /\ [Next]_vars
                    /\ [O!Next]_outputVars
                    /\ [K!Next]_milestonesVars
                    /\ [L!Next]_attentionVars
                    /\ [Q!Next]_questionsVars
  OBVIOUS
<1>1. CASE UNCHANGED all
  BY <1>1 DEF all
<1>2. CASE Of("call", Next)
  BY <1>2 DEF Of
<1>3. CASE Of("output", O!Next)
  BY <1>3 DEF Of
<1>4. CASE Of("milestones", K!Next)
  BY <1>4 DEF Of
<1>5. CASE Of("attention", L!Next)
  BY <1>5 DEF Of
<1>6. CASE Of("questions", Q!Next)
  BY <1>6 DEF Of
<1> QED BY Zenon, <1>1, <1>2, <1>3, <1>4, <1>5, <1>6
        DEF Nexts, Call, Output, Milestones, Attention, Questions

\* What VoiceCall_proofs shows of Spec holds of a call among the other parts.
LEMMA CallsAreTheirs == Behaviour => Spec
<1>1. Inits => Init
  BY DEF Inits
<1>2. [Nexts]_all => [Next]_vars
  BY PartSteps
<1> QED BY <1>1, <1>2, PTL DEF Behaviour, Spec

LEMMA OutputKeeps == Behaviour => []OutputInv
<1>1. Inits => OutputInv
  BY OutputInit DEF Inits
<1>2. OutputInv /\ [Nexts]_all => OutputInv'
  BY PartSteps, OutputStep
<1> QED BY <1>1, <1>2, PTL DEF Behaviour

LEMMA MilestonesKeep == Behaviour => []MilestonesInv
<1>1. Inits => MilestonesInv
  BY MilestonesInit DEF Inits
<1>2. MilestonesInv /\ [Nexts]_all => MilestonesInv'
  BY PartSteps, MilestonesStep
<1> QED BY <1>1, <1>2, PTL DEF Behaviour

LEMMA AttentionKeeps == Behaviour => []AttentionInv
<1>1. Inits => AttentionInv
  BY AttentionInit DEF Inits
<1>2. AttentionInv /\ [Nexts]_all => AttentionInv'
  BY PartSteps, AttentionStep
<1> QED BY <1>1, <1>2, PTL DEF Behaviour

LEMMA QuestionsKeep == Behaviour => [](QuestionTypes /\ QuietInv)
<1>1. Inits => QuestionTypes /\ QuietInv
  BY QuestionsInit, QuietInit DEF Inits
<1>2. QuestionTypes /\ QuietInv /\ [Nexts]_all => QuestionTypes' /\ QuietInv'
  BY PartSteps, QuestionsStep, QuietStep
<1> QED BY <1>1, <1>2, PTL DEF Behaviour

\* Every part keeps to its types, whichever of them moves.
THEOREM VoiceKeepsItsTypes == Behaviour => []PartsTypeOK
<1>1. /\ TypeOK /\ OutputInv /\ MilestonesInv /\ AttentionInv /\ QuestionTypes /\ QuietInv
      => PartsTypeOK
  BY OutputTyped, MilestonesTyped, QuestionsTyped DEF AttentionInv, PartsTypeOK
<1> QED BY <1>1, CallsAreTheirs, TypeCorrect, OutputKeeps, MilestonesKeep, AttentionKeeps,
           QuestionsKeep, PTL

\* The safety half of OutputIsWhole: the numbers of what is stored rise, and each
\* pipe's lines are stored in the order of their printing, none of them twice, across
\* restarts of the worker, sessions stopped and resumed, inserts that fail and the
\* ring that forgets.
THEOREM OutputInOrder == Behaviour => []O!StoredInOrder
<1>1. OutputInv => O!StoredInOrder
  BY DEF OutputInv
<1> QED BY <1>1, OutputKeeps, PTL

\* The safety half of MilestonesShow: a milestone is announced no more often than it
\* came to be done, though passes of the worker overlap writes of the agent and
\* deletions of the user, and may end anywhere.
THEOREM MilestonesToldOnce == Behaviour => []K!ToldOncePerDone
<1>1. MilestonesInv => K!ToldOncePerDone
  BY MilestonesTyped
<1> QED BY <1>1, MilestonesKeep, PTL

\* The safety half of NothingGoesUnheard: between cycles of discovery the last thing
\* the user was told is what the session asks for, or that an error persists.
THEOREM LastNewsIsTrue == Behaviour => []L!UserKnows
<1>1. AttentionInv => L!UserKnows
  BY Knows
<1> QED BY <1>1, AttentionKeeps, PTL

\* Whoever waits for the microphone, has it, or is in a call is a reason to be
\* silent, and with a reason nothing plays nor is about to be repeated.
THEOREM PlayerKnowsWhoListens == Behaviour => []QuietInv
BY QuestionsKeep, PTL

\* The safety half of QuestionsAreHeard, as the run checks it: nothing is played
\* into a microphone that somebody opened, nor into a call.
THEOREM QuietWhileListening ==
  Behaviour => [](q_call \/ (q_mic.at = "on" /\ ~q_mic.stray) => q_audio.at # "playing")
<1>1. QuietInv => (q_call \/ (q_mic.at = "on" /\ ~q_mic.stray) => q_audio.at # "playing")
  BY DEF QuietInv, SilentWhenMuted, AwaitedMutes, Awaited, CallMutes
<1> QED BY <1>1, PlayerKnowsWhoListens, PTL
=============================================================================
