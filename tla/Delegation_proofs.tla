-------------------------- MODULE Delegation_proofs --------------------------
(***************************************************************************)
(* Proofs about Delegation: the types, and the inductive invariant that    *)
(* bounds the notices and the nudges of a child, for any children, hosts,  *)
(* requests, stalls and faults.                                            *)
(***************************************************************************)
EXTENDS Delegation, TLAPS

----------------------------------------------------------------------------
(* Types: TypeOK by the variables that a step changes together. *)

AgentsOK == agent \in [Sessions -> {"none", "shell"} \cup Moods]
DocsOK ==
  /\ doc \in [Sessions -> Document]
  /\ \A c \in Children : doc[c].born <= round[c] /\ (doc[c].made <=> doc[c].born > 0)
FilesOK ==
  /\ file \in [Children -> [round : Nat, ripe : BOOLEAN]]
  /\ \A c \in Children : file[c].round <= round[c]
RoundsOK == round \in [Children -> Nat]
QueuesOK ==
  /\ queue \in [Hosts -> Seq(Command)]
  /\ \A h \in Hosts : \A i \in 1..Len(queue[h]) :
       /\ HostOf[queue[h][i].to] = h
       /\ queue[h][i].type = "create" => queue[h][i].to \in Children
PassIs(pass, r) ==
  \A h \in Hosts :
    /\ pass[h].step = "idle" <=> pass[h].todo = {}
    /\ \A s \in pass[h].todo : HostOf[s.child] = h /\ s.born \in 1..r[s.child]
    /\ \A s, t \in pass[h].todo : s.child = t.child => s = t
NotifySteps == {"idle", "look", "publish", "mark"}
WatchSteps == {"idle", "look", "publish", "write"}
PassTyped(pass, r, S, D) == pass \in [Hosts -> [step : S, todo : SUBSET D]] /\ PassIs(pass, r)
NotifyOK == PassTyped(notify, round, NotifySteps, Listings)
WatchOK == PassTyped(watch, round, WatchSteps, Watchings)
At_(pass, h, step, todo) == [pass EXCEPT ![h] = [step |-> step, todo |-> todo]]
HistoryOK ==
  /\ output \in [Children -> Nat]
  /\ sent \in [Children -> [notices : Nat, dropped : BOOLEAN, own : BOOLEAN]]
  /\ pokes \in [Children -> Nat]
WorkersOK == worker \in [Hosts -> {"up", "down"}]
SpentOK ==
  spent \in [requests : 0..MaxRequests, stalls : 0..MaxStalls, faults : 0..MaxFaults]

LEMMA TypeParts ==
  TypeOK <=> /\ AgentsOK /\ DocsOK /\ FilesOK /\ RoundsOK /\ QueuesOK
             /\ NotifyOK /\ WatchOK /\ HistoryOK /\ WorkersOK /\ SpentOK
BY DEF TypeOK, PassOK, AgentsOK, DocsOK, FilesOK, RoundsOK, QueuesOK, PassIs, PassTyped, NotifySteps,
   WatchSteps, NotifyOK, WatchOK, HistoryOK, WorkersOK, SpentOK

\* What the assumption on the constants gives.
LEMMA Bounds ==
  /\ Parent \notin Children /\ HostOf \in [Sessions -> Hosts]
  /\ Children \subseteq Sessions /\ Parent \in Sessions /\ Sessions = Children \cup {Parent}
  /\ MaxNudges \in Nat /\ MaxStalls \in Nat /\ MaxRequests \in Nat /\ MaxFaults \in Nat
BY DelegationAssumption DEF Sessions

LEMMA DocFields ==
  ASSUME NEW d \in Document
  PROVE  /\ d.made \in BOOLEAN /\ d.born \in Nat /\ d.age \in Ages
         /\ d.status \in {"alive", "detached", "stopped"} /\ d.mood \in Moods
         /\ d.progress \in BOOLEAN /\ d.notified \in BOOLEAN /\ d.nudges \in 0..MaxNudges
         /\ d.cooled \in BOOLEAN /\ d.escalated \in BOOLEAN
BY DEF Document

\* The writes of fields that users, time, discovery and the loops make.
LEMMA DocWrites ==
  ASSUME NEW d \in Document
  PROVE  /\ \A x \in {"alive", "detached", "stopped"} :
              /\ [d EXCEPT !.status = x] \in Document
              /\ \A p \in BOOLEAN, m \in Moods :
                   [d EXCEPT !.status = x, !.progress = p, !.mood = m] \in Document
         /\ \A x \in Ages : [d EXCEPT !.age = x] \in Document
         /\ [d EXCEPT !.cooled = TRUE] \in Document
         /\ Marked(d) \in Document
         /\ \A n \in 0..MaxNudges, p, e \in BOOLEAN :
              [d EXCEPT !.nudges = n, !.cooled = p, !.escalated = e, !.progress = FALSE]
                \in Document
BY DEF Document, Marked

\* None of them touches what a document is of.
LEMMA DocKept ==
  ASSUME NEW d \in Document
  PROVE  /\ \A x : LET e == [d EXCEPT !.status = x] IN e.born = d.born /\ e.made = d.made
         /\ \A x, p, m : LET e == [d EXCEPT !.status = x, !.progress = p, !.mood = m]
                        IN e.born = d.born /\ e.made = d.made
         /\ \A x : LET e == [d EXCEPT !.age = x] IN e.born = d.born /\ e.made = d.made
         /\ LET e == [d EXCEPT !.cooled = TRUE] IN e.born = d.born /\ e.made = d.made
         /\ Marked(d).born = d.born /\ Marked(d).made = d.made
         /\ \A n, p, x : LET e == [d EXCEPT !.nudges = n, !.cooled = p, !.escalated = x,
                                           !.progress = FALSE]
                        IN e.born = d.born /\ e.made = d.made
BY DEF Document, Marked

LEMMA NoDocType ==
  NoDoc \in Document /\ ~NoDoc.made /\ NoDoc.born = 0 /\ NoDoc.nudges = 0
BY Bounds DEF NoDoc, Document, Ages, Moods

\* A document that keeps its round, or is purged, keeps the types.
LEMMA DocChanges ==
  ASSUME DocsOK, UNCHANGED round, NEW s \in Sessions, NEW e \in Document,
         doc' = [doc EXCEPT ![s] = e],
         (e.born = doc[s].born /\ e.made = doc[s].made) \/ e = NoDoc,
         RoundsOK
  PROVE  DocsOK'
BY NoDocType DEF DocsOK, RoundsOK

LEMMA QueueGrows ==
  ASSUME QueuesOK, NEW s \in Sessions, NEW c \in Children,
         NEW type \in {"create", "kill", "own", "notice", "nudge", "escalation"},
         type = "create" => s \in Children, Send(type, s, c)
  PROVE  QueuesOK'
<1> DEFINE m == [type |-> type, to |-> s, about |-> c]
           g == HostOf[s]
<1>1. m \in Command /\ m.to = s /\ m.type = type
  BY DEF Command
<1>2. g \in Hosts /\ queue' = [queue EXCEPT ![g] = Append(@, m)]
  BY Bounds DEF Send
<1> HIDE DEF m
<1>3. queue' \in [Hosts -> Seq(Command)]
  BY <1>1, <1>2 DEF QueuesOK
<1>4. ASSUME NEW h \in Hosts, NEW i \in 1..Len(queue'[h])
      PROVE  HostOf[queue'[h][i].to] = h /\ (queue'[h][i].type = "create" => queue'[h][i].to \in Children)
  <2>1. queue[h] \in Seq(Command)
    BY DEF QueuesOK
  <2>2. CASE h # g
    BY <1>2, <2>2 DEF QueuesOK
  <2>3. CASE h = g
    <3>1. queue'[h] = Append(queue[h], m)
      BY <1>2, <2>3 DEF QueuesOK
    <3>2. queue'[h][i] = IF i = Len(queue[h]) + 1 THEN m ELSE queue[h][i]
      BY <1>1, <2>1, <3>1
    <3>3. i = Len(queue[h]) + 1 \/ i \in 1..Len(queue[h])
      BY <1>1, <2>1, <3>1
    <3> QED BY <1>1, <2>3, <3>2, <3>3 DEF QueuesOK
  <2> QED BY <2>2, <2>3
<1> QED BY <1>3, <1>4 DEF QueuesOK

LEMMA QueueShrinks ==
  ASSUME QueuesOK, NEW h \in Hosts, queue[h] # <<>>, queue' = [queue EXCEPT ![h] = Tail(@)]
  PROVE  QueuesOK'
<1>1. queue[h] \in Seq(Command)
  BY DEF QueuesOK
<1>2. Tail(queue[h]) \in Seq(Command)
  BY <1>1
<1>3. queue' \in [Hosts -> Seq(Command)]
  BY <1>2 DEF QueuesOK
<1>4. ASSUME NEW g \in Hosts, NEW i \in 1..Len(queue'[g])
      PROVE  HostOf[queue'[g][i].to] = g /\ (queue'[g][i].type = "create" => queue'[g][i].to \in Children)
  <2>1. CASE g # h
    BY <2>1 DEF QueuesOK
  <2>2. CASE g = h
    <3>1. queue'[g] = Tail(queue[h])
      BY <2>2 DEF QueuesOK
    <3>2. Len(queue[h]) \in Nat \ {0} /\ Len(Tail(queue[h])) = Len(queue[h]) - 1
      BY <1>1
    <3>3. i \in 1..(Len(queue[h]) - 1)
      BY <3>1, <3>2
    <3>5. i + 1 \in 1..Len(queue[h])
      <4> DEFINE n == Len(queue[h])
      <4>1. n \in Nat /\ i \in 1..(n - 1)
        BY <3>2, <3>3
      <4> HIDE DEF n
      <4>2. i + 1 \in 1..n
        BY <4>1
      <4> QED BY <4>2 DEF n
    <3>4. Tail(queue[h])[i] = queue[h][i + 1]
      BY <1>1, <3>2, <3>3, <3>5
    <3> QED BY <2>2, <3>1, <3>4, <3>5 DEF QueuesOK
  <2> QED BY <2>1, <2>2
<1> QED BY <1>3, <1>4 DEF QueuesOK

\* What a consumer takes is for a session of its host.
LEMMA HeadFacts ==
  ASSUME QueuesOK, NEW h \in Hosts, queue[h] # <<>>
  PROVE  /\ Cmd(h).to \in Sessions /\ HostOf[Cmd(h).to] = h /\ Cmd(h).about \in Children
         /\ Cmd(h).type = "create" => Cmd(h).to \in Children
<1>1. queue[h] \in Seq(Command) /\ Len(queue[h]) > 0
  BY DEF QueuesOK
<1>2. Cmd(h) = queue[h][1] /\ 1 \in 1..Len(queue[h])
  BY <1>1 DEF Cmd
<1>3. queue[h][1] \in Command
  BY <1>1, <1>2
<1> QED BY <1>2, <1>3 DEF QueuesOK, Command

\* The child that a pass is at is one that it listed.
LEMMA NowListed ==
  ASSUME NEW pass, NEW r, NEW h \in Hosts, PassIs(pass, r), pass[h].step # "idle"
  PROVE  Now(pass[h]) \in pass[h].todo
BY DEF PassIs, Now

\* A pass goes on with what it has, or with less; it rests when nothing is left.
LEMMA PassGoesOn ==
  ASSUME NEW p, NEW r, NEW S, NEW D, PassTyped(p, r, S, D), NEW h \in Hosts,
         NEW step \in S, NEW todo \in SUBSET p[h].todo, step = "idle" <=> todo = {}
  PROVE  PassTyped(At_(p, h, step, todo), r, S, D)
<1> DEFINE q == At_(p, h, step, todo)
<1>1. p \in [Hosts -> [step : S, todo : SUBSET D]] /\ p[h].todo \in SUBSET D
  BY DEF PassTyped
<1>2. [step |-> step, todo |-> todo] \in [step : S, todo : SUBSET D]
  BY <1>1
<1>3. q \in [Hosts -> [step : S, todo : SUBSET D]]
  BY <1>1, <1>2 DEF At_
<1>4. ASSUME NEW g \in Hosts
      PROVE  /\ q[g].step = "idle" <=> q[g].todo = {}
             /\ q[g].todo \subseteq p[g].todo
  <2>1. CASE g = h
    BY <1>1, <2>1 DEF At_
  <2>2. CASE g # h
    BY <1>1, <2>2 DEF PassTyped, PassIs, At_
  <2> QED BY <2>1, <2>2
<1> HIDE DEF q
<1>5. PassIs(p, r)
  BY DEF PassTyped
<1>6. PassIs(q, r)
  BY <1>4, <1>5 DEF PassIs
<1>7. PassTyped(q, r, S, D)
  BY <1>3, <1>6 DEF PassTyped
<1> QED BY <1>7 DEF q

\* Rounds that go up leave what a pass has listed in the past.
LEMMA PassOutlives ==
  ASSUME NEW r \in [Children -> Nat], NEW r2 \in [Children -> Nat],
         \A c \in Children : r[c] <= r2[c],
         NEW D, \A s \in D : s.child \in Children, NEW S, NEW p, PassTyped(p, r, S, D)
  PROVE  PassTyped(p, r2, S, D)
<1>1. ASSUME NEW h \in Hosts, NEW s \in p[h].todo PROVE s.born \in 1..r2[s.child]
  <2>1. s \in D
    BY DEF PassTyped
  <2>2. s.born \in 1..r[s.child] /\ r[s.child] \in Nat /\ r2[s.child] \in Nat
    BY <2>1 DEF PassIs, PassTyped
  <2> QED BY <2>1, <2>2
<1> QED BY <1>1 DEF PassIs, PassTyped

LEMMA NextTypeParts ==
  /\ AgentsOK' /\ DocsOK' /\ FilesOK' /\ RoundsOK' /\ QueuesOK'
  /\ NotifyOK' /\ WatchOK' /\ HistoryOK' /\ WorkersOK' /\ SpentOK'
  => TypeOK'
BY DEF TypeOK, PassOK, AgentsOK, DocsOK, FilesOK, RoundsOK, QueuesOK, PassIs, PassTyped,
   NotifySteps, WatchSteps, NotifyOK, WatchOK, HistoryOK, WorkersOK, SpentOK

\* What a step leaves alone keeps its type.
LEMMA TypeFrames ==
  ASSUME TypeOK
  PROVE  /\ UNCHANGED agent => AgentsOK'
         /\ UNCHANGED <<doc, round>> => DocsOK'
         /\ UNCHANGED <<file, round>> => FilesOK'
         /\ UNCHANGED round => RoundsOK'
         /\ UNCHANGED queue => QueuesOK'
         /\ UNCHANGED <<notify, round>> => NotifyOK'
         /\ UNCHANGED <<watch, round>> => WatchOK'
         /\ UNCHANGED <<output, sent, pokes>> => HistoryOK'
         /\ UNCHANGED worker => WorkersOK'
         /\ UNCHANGED spent => SpentOK'
<1>1. /\ AgentsOK /\ DocsOK /\ FilesOK /\ RoundsOK /\ QueuesOK
      /\ NotifyOK /\ WatchOK /\ HistoryOK /\ WorkersOK /\ SpentOK
  BY TypeParts
<1>2. UNCHANGED agent => AgentsOK'
  BY <1>1 DEF AgentsOK
<1>3. UNCHANGED <<doc, round>> => DocsOK'
  BY <1>1 DEF DocsOK
<1>4. UNCHANGED <<file, round>> => FilesOK'
  BY <1>1 DEF FilesOK
<1>5. UNCHANGED <<queue>> => QueuesOK'
  BY <1>1 DEF QueuesOK
<1>6. UNCHANGED <<notify, round>> => NotifyOK'
  BY <1>1 DEF NotifyOK, PassTyped, PassIs
<1>7. UNCHANGED <<watch, round>> => WatchOK'
  BY <1>1 DEF WatchOK, PassTyped, PassIs
<1>8. UNCHANGED <<output, sent, pokes>> => HistoryOK'
  BY <1>1 DEF HistoryOK
<1>9. (UNCHANGED round => RoundsOK') /\ (UNCHANGED worker => WorkersOK') /\ (UNCHANGED spent => SpentOK')
  BY <1>1 DEF RoundsOK, WorkersOK, SpentOK
<1> QED BY <1>2, <1>3, <1>4, <1>5, <1>6, <1>7, <1>8, <1>9

LEMMA NoRounds ==
  ASSUME doc \in [Sessions -> Document],
         \A c \in Children : doc[c].born = 0 /\ round[c] = 0 /\ ~doc[c].made
  PROVE  DocsOK
BY DEF DocsOK

LEMMA InitType == Init => TypeOK
<1> SUFFICES ASSUME Init PROVE TypeOK
  OBVIOUS
<1> USE DEF Init
<1>1. AgentsOK
  BY Bounds DEF AgentsOK, Moods
<1>2. DocsOK
  <2> DEFINE d == [NoDoc EXCEPT !.made = TRUE, !.status = "alive"]
  <2>1. d \in Document
    BY NoDocType DEF Document
  <2>2. doc = [s \in Sessions |-> IF s = Parent THEN d ELSE NoDoc]
    OBVIOUS
  <2> HIDE DEF d
  <2>3. doc \in [Sessions -> Document] /\ \A c \in Children : doc[c] = NoDoc
    BY <2>1, <2>2, NoDocType, Bounds
  <2>4. \A c \in Children : doc[c].born = 0 /\ round[c] = 0 /\ ~doc[c].made
    BY <2>3, NoDocType
  <2> QED BY <2>3, <2>4, NoRounds
<1>3. FilesOK /\ RoundsOK /\ HistoryOK /\ WorkersOK
  BY DEF FilesOK, RoundsOK, HistoryOK, WorkersOK
<1>4. QueuesOK
  BY DEF QueuesOK
<1>5. NotifyOK /\ WatchOK
  BY DEF NotifyOK, WatchOK, PassTyped, PassIs, NotifySteps, WatchSteps, Idle
<1>6. SpentOK
  BY Bounds DEF SpentOK
<1> QED BY <1>1, <1>2, <1>3, <1>4, <1>5, <1>6, TypeParts

LEMMA SpentGrows ==
  ASSUME SpentOK, Request \/ Fault PROVE SpentOK'
BY Bounds DEF SpentOK, Request, Fault

LEMMA NotifyGoesOn ==
  ASSUME NotifyOK, NEW h \in Hosts, UNCHANGED round, NEW step \in NotifySteps,
         NEW todo \in SUBSET notify[h].todo,
         Pass(h, step, todo), step = "idle" <=> todo = {}
  PROVE  NotifyOK'
<1>1. notify' = At_(notify, h, step, todo)
  BY DEF Pass, At_
<1>2. PassTyped(At_(notify, h, step, todo), round, NotifySteps, Listings)
  BY PassGoesOn DEF NotifyOK
<1> QED BY <1>1, <1>2 DEF NotifyOK, PassTyped, PassIs

LEMMA WatchGoesOn ==
  ASSUME WatchOK, NEW h \in Hosts, UNCHANGED round, NEW step \in WatchSteps,
         NEW todo \in SUBSET watch[h].todo,
         Watch_(h, step, todo), step = "idle" <=> todo = {}
  PROVE  WatchOK'
<1>1. watch' = At_(watch, h, step, todo)
  BY DEF Watch_, At_
<1>2. PassTyped(At_(watch, h, step, todo), round, WatchSteps, Watchings)
  BY PassGoesOn DEF WatchOK
<1> QED BY <1>1, <1>2 DEF WatchOK, PassTyped, PassIs

\* A pass starts with sessions of its host that exist, each once.
LEMMA PassStarts ==
  ASSUME NEW p, NEW r, NEW S, NEW D, PassTyped(p, r, S, D), NEW h \in Hosts,
         NEW step \in S, step # "idle", NEW todo \in SUBSET D, todo # {},
         \A s \in todo : HostOf[s.child] = h /\ s.born \in 1..r[s.child],
         \A s, t \in todo : s.child = t.child => s = t
  PROVE  PassTyped(At_(p, h, step, todo), r, S, D)
<1> DEFINE e == [step |-> step, todo |-> todo]
           q == At_(p, h, step, todo)
<1>1. e \in [step : S, todo : SUBSET D] /\ e.step = step /\ e.todo = todo
  OBVIOUS
<1> HIDE DEF e
<1>2. q \in [Hosts -> [step : S, todo : SUBSET D]]
      /\ \A g \in Hosts : q[g] = IF g = h THEN e ELSE p[g]
  BY <1>1 DEF PassTyped, At_, e
<1> HIDE DEF q
<1>3. ASSUME NEW g \in Hosts
      PROVE  /\ q[g].step = "idle" <=> q[g].todo = {}
             /\ \A s \in q[g].todo : HostOf[s.child] = g /\ s.born \in 1..r[s.child]
             /\ \A s, t \in q[g].todo : s.child = t.child => s = t
  <2>1. CASE g = h
    BY <2>1, <1>1, <1>2
  <2>2. CASE g # h
    BY <2>2, <1>2 DEF PassTyped, PassIs
  <2> QED BY <2>1, <2>2
<1>4. PassTyped(q, r, S, D)
  BY <1>2, <1>3 DEF PassTyped, PassIs
<1> QED BY <1>4 DEF q

\* What a child's listing holds of its document.
LEMMA ListedFacts ==
  ASSUME DocsOK, FilesOK, RoundsOK, NEW c \in Children, doc[c].made
  PROVE  /\ Listed(c) \in Listings /\ Listed(c).child = c /\ Listed(c).born = doc[c].born
         /\ Watched(c) \in Watchings /\ Watched(c).child = c /\ Watched(c).born = doc[c].born
         /\ Watched(c).nudges = doc[c].nudges /\ Watched(c).progress = doc[c].progress
         /\ doc[c].born \in 1..round[c]
<1>1. doc[c] \in Document
  BY Bounds DEF DocsOK
<1>2. doc[c].born \in 1..round[c]
  BY <1>1, DocFields DEF DocsOK, RoundsOK
<1>3. Listed(c) \in Listings
  BY <1>1, DocFields DEF Listed, Listings, Ages, FilesOK
<1>4. Watched(c) \in Watchings
  BY <1>1, DocFields DEF Watched, Watchings
<1> QED BY <1>2, <1>3, <1>4 DEF Listed, Watched

\* What users ask.
LEMMA TypeUser == ASSUME TypeOK, User PROVE TypeOK'
<1>1. /\ DocsOK /\ QueuesOK /\ RoundsOK /\ SpentOK
  BY TypeParts
<1>2. ASSUME NEW c \in Children, Delegate(c) PROVE TypeOK'
  <2>1. QueuesOK' /\ SpentOK'
    BY <1>1, <1>2, QueueGrows, SpentGrows, Bounds DEF Delegate
  <2> QED BY <1>2, <2>1, TypeFrames, NextTypeParts DEF Delegate
<1>3. ASSUME NEW s \in Sessions, Kill(s) PROVE TypeOK'
  <2>1. PICK c \in Children : Send("kill", s, c)
    BY <1>3 DEF Kill
  <2>2. QueuesOK' /\ SpentOK'
    BY <1>1, <1>3, <2>1, QueueGrows, SpentGrows DEF Kill
  <2> QED BY <1>3, <2>2, TypeFrames, NextTypeParts DEF Kill
<1>4. ASSUME NEW c \in Children, Purge(c) PROVE TypeOK'
  <2>1. QueuesOK' /\ SpentOK'
    BY <1>1, <1>4, QueueGrows, SpentGrows, Bounds DEF Purge
  <2>2. DocsOK'
    BY <1>1, <1>4, DocChanges, NoDocType, Bounds DEF Purge
  <2> QED BY <1>4, <2>1, <2>2, TypeFrames, NextTypeParts DEF Purge
<1> QED BY <1>2, <1>3, <1>4 DEF User

\* What agents do.
LEMMA TypeAgents == ASSUME TypeOK, Agents PROVE TypeOK'
<1>1. /\ AgentsOK /\ FilesOK /\ QueuesOK /\ RoundsOK /\ HistoryOK /\ SpentOK
  BY TypeParts
<1> PICK c \in Children : Stall(c) \/ Work(c) \/ Quit(c) \/ WriteHandoff(c) \/ TellParent(c)
  BY DEF Agents
<1>2. CASE Stall(c)
  <2>1. AgentsOK'
    BY <1>1, <1>2, Bounds DEF Stall, AgentsOK, Moods
  <2>2. SpentOK'
    BY <1>1, <1>2, Bounds DEF Stall, SpentOK
  <2> QED BY <1>2, <2>1, <2>2, TypeFrames, NextTypeParts DEF Stall
<1>3. CASE Work(c)
  <2>1. AgentsOK'
    BY <1>1, <1>3, Bounds DEF Work, AgentsOK, Moods
  <2> QED BY <1>3, <2>1, TypeFrames, NextTypeParts DEF Work
<1>4. CASE Quit(c)
  <2>1. AgentsOK'
    BY <1>1, <1>4, Bounds DEF Quit, AgentsOK
  <2> QED BY <1>4, <2>1, TypeFrames, NextTypeParts DEF Quit
<1>5. CASE WriteHandoff(c)
  <2>1. FilesOK'
    BY <1>1, <1>5 DEF WriteHandoff, FilesOK, RoundsOK
  <2> QED BY <1>5, <2>1, TypeFrames, NextTypeParts DEF WriteHandoff
<1>6. CASE TellParent(c)
  <2>1. QueuesOK'
    BY <1>1, <1>6, QueueGrows, Bounds DEF TellParent
  <2>2. HistoryOK'
    BY <1>1, <1>6 DEF TellParent, HistoryOK
  <2> QED BY <1>6, <2>1, <2>2, TypeFrames, NextTypeParts DEF TellParent
<1> QED BY <1>2, <1>3, <1>4, <1>5, <1>6

LEMMA TypeTime == ASSUME TypeOK, Time PROVE TypeOK'
<1>1. /\ DocsOK /\ FilesOK /\ RoundsOK
  BY TypeParts
<1> PICK c \in Children : Ripen(c) \/ Age(c) \/ Cool(c)
  BY DEF Time
<1>2. c \in Sessions /\ doc[c] \in Document
  BY <1>1, Bounds DEF DocsOK
<1>3. CASE Ripen(c)
  <2>1. FilesOK'
    BY <1>1, <1>3 DEF Ripen, FilesOK
  <2> QED BY <1>3, <2>1, TypeFrames, NextTypeParts DEF Ripen
<1>4. CASE Age(c)
  <2>1. doc[c].age \in {"young", "grown"}
    BY <1>2, <1>4, DocFields DEF Age, Ages
  <2>2. Older[doc[c].age] \in Ages
    BY <2>1 DEF Older, Ages
  <2> DEFINE e == [doc[c] EXCEPT !.age = Older[doc[c].age]]
  <2>3. e \in Document /\ e.born = doc[c].born /\ e.made = doc[c].made
    BY <1>2, <2>2, DocKept, DocWrites
  <2>4. doc' = [doc EXCEPT ![c] = e] /\ UNCHANGED round
    BY <1>1, <1>4, Bounds DEF Age, DocsOK
  <2> HIDE DEF e
  <2>5. DocsOK'
    BY <1>1, <1>2, <2>3, <2>4, DocChanges
  <2> QED BY <1>4, <2>5, TypeFrames, NextTypeParts DEF Age
<1>5. CASE Cool(c)
  <2> DEFINE e == [doc[c] EXCEPT !.cooled = TRUE]
  <2>3. e \in Document /\ e.born = doc[c].born /\ e.made = doc[c].made
    BY <1>2, DocKept, DocWrites
  <2>4. doc' = [doc EXCEPT ![c] = e] /\ UNCHANGED round
    BY <1>1, <1>5, Bounds DEF Cool, DocsOK
  <2> HIDE DEF e
  <2>5. DocsOK'
    BY <1>1, <1>2, <2>3, <2>4, DocChanges
  <2> QED BY <1>5, <2>5, TypeFrames, NextTypeParts DEF Cool
<1> QED BY <1>3, <1>4, <1>5

\* What a cycle of discovery writes.
LEMMA TypeDiscover ==
  ASSUME TypeOK, NEW s \in Sessions, Discover(s) \/ (s \in Children /\ DiscoverLate(s))
  PROVE  TypeOK'
<1>1. /\ AgentsOK /\ DocsOK /\ RoundsOK /\ HistoryOK
  BY TypeParts
<1>2. doc[s] \in Document /\ agent[s] \in {"none", "shell"} \cup Moods
  BY <1>1 DEF DocsOK, AgentsOK
<1>3. CASE Discover(s)
  <2>1. PICK p \in BOOLEAN :
          /\ doc' = [doc EXCEPT ![s].status = Observed(s), ![s].progress = p,
                                ![s].mood = IF Alive(s) THEN agent[s] ELSE @]
          /\ pokes' = IF p /\ ~doc[s].progress THEN [pokes EXCEPT ![s] = 0] ELSE pokes
    <3> DEFINE seen == IF Changed(s) /\ Marks(doc[s]) THEN {doc[s].progress, TRUE} ELSE {doc[s].progress}
               wrote(p) == /\ doc' = [doc EXCEPT ![s].status = Observed(s), ![s].progress = p,
                                                 ![s].mood = IF Alive(s) THEN agent[s] ELSE @]
                           /\ pokes' = IF p /\ ~doc[s].progress THEN [pokes EXCEPT ![s] = 0] ELSE pokes
    <3>1. doc[s].progress \in BOOLEAN
      BY <1>2, DocFields
    <3>2. seen \subseteq BOOLEAN
      BY <3>1
    <3>3. \E p \in seen : wrote(p)
      BY <1>3, Zenon DEF Discover
    <3> HIDE DEF seen, wrote
    <3>4. \E p \in BOOLEAN : wrote(p)
      BY <3>2, <3>3
    <3> QED BY <3>4, Zenon DEF wrote
  <2> DEFINE m == IF Alive(s) THEN agent[s] ELSE doc[s].mood
             e == [doc[s] EXCEPT !.status = Observed(s), !.progress = p, !.mood = m]
  <2>2. m \in Moods /\ Observed(s) \in {"alive", "detached", "stopped"}
    BY <1>2, DocFields DEF Alive, Observed
  <2> HIDE DEF m
  <2>7. e \in Document
    BY <1>2, <2>2, DocWrites
  <2>3. e \in Document /\ e.born = doc[s].born /\ e.made = doc[s].made
    BY <1>2, <2>7, DocKept
  <2>8. doc' = [doc EXCEPT ![s].status = Observed(s), ![s].progress = p, ![s].mood = m]
    BY <1>1, <2>1 DEF m, DocsOK
  <2>4. doc' = [doc EXCEPT ![s] = e] /\ UNCHANGED round
    BY <1>1, <1>3, <2>8 DEF Discover, DocsOK
  <2> HIDE DEF e
  <2>5. DocsOK'
    BY <1>1, <2>3, <2>4, DocChanges
  <2>6. HistoryOK'
    BY <1>1, <1>3, <2>1 DEF Discover, HistoryOK
  <2> QED BY <1>3, <2>5, <2>6, TypeFrames, NextTypeParts DEF Discover
<1>4. CASE s \in Children /\ DiscoverLate(s)
  <2> DEFINE e == [doc[s] EXCEPT !.status = "stopped"]
  <2>3. e \in Document /\ e.born = doc[s].born /\ e.made = doc[s].made
    BY <1>2, DocKept, DocWrites
  <2>4. doc' = [doc EXCEPT ![s] = e] /\ UNCHANGED round
    BY <1>1, <1>4 DEF DiscoverLate, DocsOK
  <2> HIDE DEF e
  <2>5. DocsOK'
    BY <1>1, <2>3, <2>4, DocChanges
  <2> QED BY <1>4, <2>5, TypeFrames, NextTypeParts DEF DiscoverLate
<1> QED BY <1>3, <1>4

\* The document that create writes: the one that was there, or the next round's.
LEMMA UpsertedType ==
  ASSUME DocsOK, RoundsOK, NEW c \in Children
  PROVE  /\ Upserted(c) \in Document /\ Upserted(c).made
         /\ doc[c].made => /\ Upserted(c).born = doc[c].born
                           /\ Upserted(c).notified = doc[c].notified
                           /\ Upserted(c).nudges = doc[c].nudges
                           /\ Upserted(c).progress = doc[c].progress
         /\ ~doc[c].made => /\ Upserted(c).born = round[c] + 1
                            /\ ~Upserted(c).notified
<1>1. doc[c] \in Document /\ round[c] \in Nat
  BY Bounds DEF DocsOK, RoundsOK
<1>2. CASE doc[c].made
  <2>1. Upserted(c) = [doc[c] EXCEPT !.status = "alive"]
    BY <1>2 DEF Upserted
  <2> QED BY <1>1, <1>2, <2>1 DEF Document
<1>3. CASE ~doc[c].made
  <2>1. Upserted(c) = [NoDoc EXCEPT !.made = TRUE, !.born = round[c] + 1, !.status = "alive"]
    BY <1>3 DEF Upserted
  <2>2. Upserted(c) \in Document
    <3>1. ASSUME NEW n \in Nat
          PROVE  [NoDoc EXCEPT !.made = TRUE, !.born = n, !.status = "alive"] \in Document
      BY NoDocType DEF Document
    <3>2. round[c] + 1 \in Nat
      BY <1>1
    <3> QED BY <2>1, <3>1, <3>2
  <2>3. Upserted(c).made /\ Upserted(c).born = round[c] + 1 /\ ~Upserted(c).notified
    BY <2>1 DEF NoDoc
  <2>4. doc[c].made => FALSE
    BY <1>3
  <2> HIDE DEF Upserted
  <2> QED BY <2>2, <2>3, <2>4
<1> QED BY <1>2, <1>3

LEMMA TypeCreate == ASSUME TypeOK, NEW h \in Hosts, Create(h) PROVE TypeOK'
<1> DEFINE c == Cmd(h).to
<1>1. /\ AgentsOK /\ DocsOK /\ FilesOK /\ RoundsOK /\ QueuesOK /\ NotifyOK /\ WatchOK /\ HistoryOK
  BY TypeParts
<1>2. queue[h] # <<>> /\ Cmd(h).type = "create" /\ queue' = [queue EXCEPT ![h] = Tail(@)]
  BY DEF Create, Taking
<1>3. QueuesOK'
  BY <1>1, <1>2, QueueShrinks
<1>4. c \in Children /\ c \in Sessions
  BY <1>1, <1>2, HeadFacts
<1>5. CASE ~Gone(c)
  BY <1>3, <1>5, TypeFrames, NextTypeParts DEF Create
<1>6. CASE Gone(c)
  <2>1. /\ agent' = [agent EXCEPT ![c] = "working"]
        /\ doc' = [doc EXCEPT ![c] = Upserted(c)]
        /\ round' = [round EXCEPT ![c] = @ + 1]
        /\ sent' = [sent EXCEPT ![c] = [notices |-> 0, dropped |-> FALSE, own |-> FALSE]]
        /\ pokes' = [pokes EXCEPT ![c] = 0]
        /\ UNCHANGED <<file, output, notify, watch, worker, spent>>
    BY <1>6 DEF Create
  <2> HIDE DEF c
  <2>2. AgentsOK' /\ HistoryOK'
    BY <1>1, <1>4, <2>1 DEF AgentsOK, HistoryOK, Moods
  <2>8. RoundsOK'
    <3>1. round \in [Children -> Nat] /\ round' = [round EXCEPT ![c] = round[c] + 1]
      BY <1>1, <2>1 DEF RoundsOK
    <3>2. round[c] + 1 \in Nat
      BY <1>4, <3>1
    <3> QED BY <3>1, <3>2 DEF RoundsOK
  <2>9. ASSUME NEW x \in Children PROVE round[x] <= round'[x]
    <3>1. round[x] \in Nat /\ round'[x] = IF x = c THEN round[x] + 1 ELSE round[x]
      BY <1>1, <2>1 DEF RoundsOK
    <3> QED BY <3>1
  <2>3. RoundsOK' /\ \A x \in Children : round[x] <= round'[x]
    BY <2>8, <2>9
  <2>4. FilesOK'
    BY <1>1, <2>1, <2>3 DEF FilesOK, RoundsOK
  <2>5. DocsOK'
    <3>1. Upserted(c) \in Document /\ Upserted(c).made /\ Upserted(c).born \in 1..round'[c]
      <4>1. Upserted(c) \in Document /\ Upserted(c).made
        BY <1>1, <1>4, UpsertedType
      <4>2. round'[c] = round[c] + 1 /\ round[c] \in Nat
        BY <1>1, <1>4, <2>1 DEF RoundsOK
      <4>3. CASE doc[c].made
        <5>1. doc[c].born \in 1..round[c]
          BY <1>1, <1>4, <4>3, ListedFacts
        <5> QED BY <1>1, <1>4, <4>2, <4>3, <5>1, UpsertedType
      <4>4. CASE ~doc[c].made
        BY <1>1, <1>4, <4>2, <4>4, UpsertedType
      <4> QED BY <4>1, <4>3, <4>4
    <3> DEFINE e == Upserted(c)
    <3>2. doc' = [doc EXCEPT ![c] = e]
      BY <2>1
    <3> HIDE DEF e
    <3>3. doc' \in [Sessions -> Document] /\ doc'[c] = e
      BY <1>1, <1>4, <3>1, <3>2 DEF DocsOK, e
    <3>4. ASSUME NEW x \in Children
          PROVE  doc'[x].born <= round'[x] /\ (doc'[x].made <=> doc'[x].born > 0)
      <4>1. CASE x = c
        BY <3>1, <3>3, <4>1 DEF e
      <4>2. CASE x # c
        <5>1. doc'[x] = doc[x] /\ round'[x] = round[x]
          BY <1>1, <2>1, <3>2, <4>2, Bounds DEF DocsOK, RoundsOK
        <5> QED BY <1>1, <5>1 DEF DocsOK
      <4> QED BY <4>1, <4>2
    <3> QED BY <3>3, <3>4 DEF DocsOK
  <2>6. NotifyOK'
    <3>1. PassTyped(notify, round', NotifySteps, Listings)
      BY <1>1, <2>3, PassOutlives DEF NotifyOK, RoundsOK, Listings
    <3> QED BY <2>1, <3>1 DEF NotifyOK
  <2>7. WatchOK'
    <3>1. PassTyped(watch, round', WatchSteps, Watchings)
      BY <1>1, <2>3, PassOutlives DEF WatchOK, RoundsOK, Watchings
    <3> QED BY <2>1, <3>1 DEF WatchOK
  <2> QED BY <1>3, <2>1, <2>2, <2>3, <2>4, <2>5, <2>6, <2>7, TypeFrames, NextTypeParts
<1> QED BY <1>5, <1>6

LEMMA TypeConsumer ==
  ASSUME TypeOK, NEW h \in Hosts, Stop(h) \/ Input(h) \/ Expire(h)
  PROVE  TypeOK'
<1> DEFINE s == Cmd(h).to
<1>1. /\ AgentsOK /\ DocsOK /\ RoundsOK /\ QueuesOK /\ HistoryOK /\ SpentOK
  BY TypeParts
<1>2. queue[h] # <<>> /\ queue' = [queue EXCEPT ![h] = Tail(@)]
  BY DEF Stop, Input, Expire, Taking
<1>3. QueuesOK'
  BY <1>1, <1>2, QueueShrinks
<1>4. s \in Sessions /\ Cmd(h).about \in Children
  BY <1>1, <1>2, HeadFacts
<1>5. doc[s] \in Document
  BY <1>1, <1>4 DEF DocsOK
<1>6. ASSUME NEW x \in {"alive", "stopped"}, UNCHANGED round, doc' = [doc EXCEPT ![s].status = x]
      PROVE  DocsOK'
  <2> DEFINE e == [doc[s] EXCEPT !.status = x]
  <2>1. e \in Document /\ e.born = doc[s].born /\ e.made = doc[s].made
    BY <1>5, DocKept, DocWrites
  <2>2. doc' = [doc EXCEPT ![s] = e]
    BY <1>1, <1>4, <1>6 DEF DocsOK
  <2> HIDE DEF e, s
  <2> QED BY <1>1, <1>4, <1>6, <2>1, <2>2, DocChanges
<1>7. CASE Stop(h)
  <2>1. DocsOK'
    BY <1>6, <1>7 DEF Stop
  <2>2. AgentsOK'
    BY <1>1, <1>4, <1>7 DEF Stop, AgentsOK
  <2> QED BY <1>3, <1>7, <2>1, <2>2, TypeFrames, NextTypeParts DEF Stop
<1>8. CASE Input(h)
  <2>1. HistoryOK'
    BY <1>1, <1>4, <1>8 DEF Input, Shown, HistoryOK, RoundsOK
  <2>2. DocsOK' /\ AgentsOK'
    <3>1. CASE UNCHANGED <<agent, doc>>
      BY <1>8, <3>1, TypeFrames DEF Input
    <3>2. CASE ~UNCHANGED <<agent, doc>>
      <4>1. agent' = [agent EXCEPT ![s] = "working"] /\ doc' = [doc EXCEPT ![s].status = "alive"]
            /\ UNCHANGED round
        BY <1>8, <3>2 DEF Input
      <4> QED BY <1>1, <1>4, <1>6, <4>1 DEF AgentsOK, Moods
    <3> QED BY <3>1, <3>2
  <2> QED BY <1>3, <1>8, <2>1, <2>2, TypeFrames, NextTypeParts DEF Input
<1>9. CASE Expire(h)
  <2>1. SpentOK'
    BY <1>1, <1>9, SpentGrows DEF Expire
  <2> QED BY <1>3, <1>9, <2>1, TypeFrames, NextTypeParts DEF Expire
<1> QED BY <1>7, <1>8, <1>9

\* A pass goes on with the rest once a child has had its turn.
LEMMA NotifyNext ==
  ASSUME NotifyOK, NEW h \in Hosts, UNCHANGED round, NEW x,
         Pass(h, Next_Child(notify[h].todo \ {x}), notify[h].todo \ {x})
  PROVE  NotifyOK'
<1> DEFINE rest == notify[h].todo \ {x}
           step == Next_Child(rest)
<1>1. /\ rest \in SUBSET notify[h].todo /\ step \in NotifySteps
      /\ step = "idle" <=> rest = {}
  <2>1. rest \in SUBSET notify[h].todo
    OBVIOUS
  <2> HIDE DEF rest
  <2> QED BY <2>1 DEF Next_Child, NotifySteps
<1>2. Pass(h, step, rest)
  OBVIOUS
<1> HIDE DEF rest, step
<1> QED BY <1>1, <1>2, NotifyGoesOn

LEMMA WatchNext ==
  ASSUME WatchOK, NEW h \in Hosts, UNCHANGED round, NEW x,
         Watch_(h, Next_Child(watch[h].todo \ {x}), watch[h].todo \ {x})
  PROVE  WatchOK'
<1> DEFINE rest == watch[h].todo \ {x}
           step == Next_Child(rest)
<1>1. /\ rest \in SUBSET watch[h].todo /\ step \in WatchSteps
      /\ step = "idle" <=> rest = {}
  <2>1. rest \in SUBSET watch[h].todo
    OBVIOUS
  <2> HIDE DEF rest
  <2> QED BY <2>1 DEF Next_Child, WatchSteps
<1>2. Watch_(h, step, rest)
  OBVIOUS
<1> HIDE DEF rest, step
<1> QED BY <1>1, <1>2, WatchGoesOn

LEMMA TypeNotify ==
  ASSUME TypeOK, NEW h \in Hosts, Notify(h) \/ NotifyFails(h)
  PROVE  TypeOK'
<1> DEFINE s == Now(notify[h])
<1>1. /\ DocsOK /\ FilesOK /\ QueuesOK /\ RoundsOK /\ NotifyOK /\ HistoryOK /\ SpentOK
  BY TypeParts
<1>2. /\ notify[h].step = "idle" <=> notify[h].todo = {}
      /\ notify[h].todo \subseteq Listings
      /\ notify[h].step # "idle" => s \in notify[h].todo /\ s.child \in Children
  <2>1. PassIs(notify, round) /\ notify[h] \in [step : NotifySteps, todo : SUBSET Listings]
    BY <1>1 DEF NotifyOK, PassTyped
  <2>2. notify[h].step # "idle" => s \in notify[h].todo
    BY <2>1, NowListed
  <2> QED BY <2>1, <2>2 DEF PassIs, Listings
<1>3. CASE NotifyList(h)
  <2> DEFINE todo == {Listed(c) : c \in Ripe(h)}
  <2>1. \A c \in Ripe(h) : c \in Children /\ HostOf[c] = h /\ doc[c].made
    BY DEF Ripe, Unnotified, Mine
  <2>2. \A c \in Ripe(h) : Listed(c) \in Listings /\ Listed(c).child = c /\ Listed(c).born \in 1..round[c]
    BY <1>1, <2>1, ListedFacts
  <2>3. Pass(h, "look", todo) /\ Ripe(h) # {} /\ UNCHANGED round
    BY <1>3 DEF NotifyList
  <2>4. /\ todo \in SUBSET Listings /\ todo # {}
        /\ \A x \in todo : HostOf[x.child] = h /\ x.born \in 1..round[x.child]
        /\ \A x, y \in todo : x.child = y.child => x = y
    BY <2>1, <2>2, <2>3
  <2> HIDE DEF todo
  <2>5. PassTyped(At_(notify, h, "look", todo), round, NotifySteps, Listings)
    BY <1>1, <2>4, PassStarts DEF NotifyOK, NotifySteps
  <2>6. NotifyOK'
    BY <2>3, <2>5 DEF NotifyOK, Pass, At_
  <2> QED BY <1>3, <2>6, TypeFrames, NextTypeParts DEF NotifyList
<1>4. CASE NotifyLook(h)
  <2>1. notify[h].step = "look" /\ notify[h].todo # {} /\ s.child \in Children /\ UNCHANGED round
    BY <1>2, <1>4 DEF NotifyLook, At
  <2>2. \/ Pass(h, Next_Child(notify[h].todo \ {s}), notify[h].todo \ {s})
        \/ Pass(h, "mark", notify[h].todo)
        \/ Pass(h, "publish", notify[h].todo)
    BY <1>4 DEF NotifyLook
  <2>3. NotifyOK'
    BY <1>1, <2>1, <2>2, NotifyGoesOn, NotifyNext DEF NotifySteps
  <2>4. HistoryOK'
    BY <1>1, <1>4, <2>1 DEF NotifyLook, HistoryOK
  <2> QED BY <1>4, <2>3, <2>4, TypeFrames, NextTypeParts DEF NotifyLook
<1>5. CASE NotifyPublish(h)
  <2>1. notify[h].todo # {} /\ s.child \in Children /\ UNCHANGED round
    BY <1>2, <1>5 DEF NotifyPublish, At
  <2>2. Send("notice", Parent, s.child) /\ Pass(h, "mark", notify[h].todo)
    BY <1>5 DEF NotifyPublish
  <2>3. NotifyOK' /\ QueuesOK'
    BY <1>1, <2>1, <2>2, NotifyGoesOn, QueueGrows, Bounds DEF NotifySteps
  <2>4. /\ \/ sent' = [sent EXCEPT ![s.child].notices = @ + 1]
           \/ UNCHANGED sent
        /\ UNCHANGED <<output, pokes>>
    BY <1>5 DEF NotifyPublish
  <2>5. HistoryOK'
    BY <1>1, <2>1, <2>4 DEF HistoryOK
  <2> QED BY <1>5, <2>3, <2>5, TypeFrames, NextTypeParts DEF NotifyPublish
<1>6. CASE NotifyMark(h)
  <2> DEFINE c == s.child
             e == Marked(doc[c])
  <2>1. c \in Children /\ c \in Sessions /\ UNCHANGED round /\ doc[c] \in Document
    BY <1>1, <1>2, <1>6, Bounds DEF NotifyMark, At, DocsOK
  <2>2. e \in Document /\ e.born = doc[c].born /\ e.made = doc[c].made
    BY <2>1, DocWrites, DocKept
  <2>3. doc' = [doc EXCEPT ![c] = e] \/ UNCHANGED doc
    BY <1>1, <1>6, <2>1 DEF NotifyMark, DocsOK
  <2>4. Pass(h, Next_Child(notify[h].todo \ {s}), notify[h].todo \ {s})
    BY <1>6 DEF NotifyMark
  <2>5. NotifyOK'
    BY <1>1, <2>1, <2>4, NotifyNext
  <2> HIDE DEF c, e
  <2>6. DocsOK'
    BY <1>1, <2>1, <2>2, <2>3, DocChanges, TypeFrames
  <2> QED BY <1>6, <2>5, <2>6, TypeFrames, NextTypeParts DEF NotifyMark
<1>7. CASE NotifyFails(h)
  <2>1. Pass(h, "idle", {}) /\ UNCHANGED round
    BY <1>7 DEF NotifyFails, AfterFailure
  <2>2. NotifyOK'
    BY <1>1, <2>1, NotifyGoesOn DEF NotifySteps
  <2>3. SpentOK'
    BY <1>1, <1>7, SpentGrows DEF NotifyFails
  <2> QED BY <1>7, <2>2, <2>3, TypeFrames, NextTypeParts DEF NotifyFails
<1> QED BY <1>3, <1>4, <1>5, <1>6, <1>7 DEF Notify

\* What a watchdog that nudges reads of the nudges so far.
LEMMA EffectiveFacts ==
  ASSUME NEW s \in Watchings
  PROVE  /\ Effective(s).nudges \in 0..MaxNudges /\ Effective(s).escalated \in BOOLEAN
         /\ Nudges(s) => Effective(s).nudges + 1 \in 0..MaxNudges
         /\ Effective(s).nudges = s.nudges \/ (s.progress /\ Effective(s).nudges = 0)
<1>1. s.nudges \in 0..MaxNudges /\ s.escalated \in BOOLEAN
  BY DEF Watchings
<1>2. CASE s.progress /\ s.mood # "idle"
  <2>1. Effective(s) = [nudges |-> 0, escalated |-> FALSE]
    BY <1>2 DEF Effective
  <2>2. Effective(s).nudges = 0 /\ Effective(s).escalated = FALSE
    BY <2>1
  <2>3. Nudges(s) => 0 < MaxNudges
    BY <2>2 DEF Nudges
  <2>4. s.progress
    BY <1>2
  <2>5. /\ Effective(s).nudges \in 0..MaxNudges
        /\ Nudges(s) => Effective(s).nudges + 1 \in 0..MaxNudges
    BY <2>2, <2>3, Bounds
  <2> QED BY <2>2, <2>4, <2>5
<1>3. CASE ~(s.progress /\ s.mood # "idle")
  <2>1. Effective(s) = [nudges |-> s.nudges, escalated |-> s.escalated]
    BY <1>3 DEF Effective
  <2>2. Effective(s).nudges = s.nudges /\ Effective(s).escalated = s.escalated
    BY <2>1
  <2>3. Nudges(s) => s.nudges < MaxNudges
    BY <2>2 DEF Nudges
  <2> QED BY <1>1, <2>2, <2>3, Bounds
<1> QED BY <1>2, <1>3

\* What the watchdog writes.
LEMMA WrittenFacts ==
  ASSUME NEW s \in Watchings, NEW d \in Document
  PROVE  /\ Written(s, d) \in Document /\ Written(s, d).born = d.born
         /\ Written(s, d).made = d.made
         /\ Written(s, d).nudges = IF Nudges(s) THEN Effective(s).nudges + 1 ELSE Effective(s).nudges
         /\ ~Written(s, d).progress
<1> DEFINE n == IF Nudges(s) THEN Effective(s).nudges + 1 ELSE Effective(s).nudges
           p == IF Nudges(s) THEN FALSE ELSE d.cooled
           x == IF Nudges(s) THEN Effective(s).escalated ELSE TRUE
<1>1. n \in 0..MaxNudges /\ x \in BOOLEAN
  BY EffectiveFacts
<1>2. p \in BOOLEAN
  BY DocFields
<1>3. Written(s, d) = [d EXCEPT !.nudges = n, !.cooled = p, !.escalated = x, !.progress = FALSE]
  BY DEF Written
<1> HIDE DEF n, p, x
<1>6. Written(s, d) \in Document
  BY <1>1, <1>2, <1>3 DEF Document
<1>4. Written(s, d) \in Document /\ Written(s, d).born = d.born /\ Written(s, d).made = d.made
  BY <1>3, <1>6, DocKept
<1>5. Written(s, d).nudges = n /\ ~Written(s, d).progress
  BY <1>3 DEF Document
<1> QED BY <1>4, <1>5 DEF n

LEMMA TypeWatch ==
  ASSUME TypeOK, NEW h \in Hosts, Watchdog(h) \/ WatchFails(h)
  PROVE  TypeOK'
<1> DEFINE s == Now(watch[h])
<1>1. /\ DocsOK /\ FilesOK /\ QueuesOK /\ RoundsOK /\ WatchOK /\ HistoryOK /\ SpentOK
  BY TypeParts
<1>2. /\ watch[h].step = "idle" <=> watch[h].todo = {}
      /\ watch[h].todo \subseteq Watchings
      /\ watch[h].step # "idle" => s \in watch[h].todo /\ s \in Watchings /\ s.child \in Children
  <2>1. PassIs(watch, round) /\ watch[h] \in [step : WatchSteps, todo : SUBSET Watchings]
    BY <1>1 DEF WatchOK, PassTyped
  <2>2. watch[h].step # "idle" => s \in watch[h].todo
    BY <2>1, NowListed
  <2> QED BY <2>1, <2>2 DEF PassIs, Watchings
<1>3. CASE WatchList(h)
  <2> DEFINE todo == {Watched(c) : c \in Stuck(h)}
  <2>1. \A c \in Stuck(h) : c \in Children /\ HostOf[c] = h /\ doc[c].made
    BY DEF Stuck, Unnotified, Mine
  <2>2. \A c \in Stuck(h) : Watched(c) \in Watchings /\ Watched(c).child = c /\ Watched(c).born \in 1..round[c]
    BY <1>1, <2>1, ListedFacts
  <2>3. Watch_(h, "look", todo) /\ Stuck(h) # {} /\ UNCHANGED round
    BY <1>3 DEF WatchList
  <2>4. /\ todo \in SUBSET Watchings /\ todo # {}
        /\ \A x \in todo : HostOf[x.child] = h /\ x.born \in 1..round[x.child]
        /\ \A x, y \in todo : x.child = y.child => x = y
    BY <2>1, <2>2, <2>3
  <2> HIDE DEF todo
  <2>5. PassTyped(At_(watch, h, "look", todo), round, WatchSteps, Watchings)
    BY <1>1, <2>4, PassStarts DEF WatchOK, WatchSteps
  <2>6. WatchOK'
    BY <2>3, <2>5 DEF WatchOK, Watch_, At_
  <2> QED BY <1>3, <2>6, TypeFrames, NextTypeParts DEF WatchList
<1>4. CASE WatchLook(h)
  <2>1. watch[h].todo # {} /\ UNCHANGED round
    BY <1>2, <1>4 DEF WatchLook, At
  <2>2. \/ Watch_(h, Next_Child(watch[h].todo \ {s}), watch[h].todo \ {s})
        \/ Watch_(h, "publish", watch[h].todo)
        \/ Watch_(h, "write", watch[h].todo)
    BY <1>4 DEF WatchLook
  <2>3. WatchOK'
    BY <1>1, <2>1, <2>2, WatchGoesOn, WatchNext DEF WatchSteps
  <2> QED BY <1>4, <2>3, TypeFrames, NextTypeParts DEF WatchLook
<1>5. CASE WatchPublish(h)
  <2>1. watch[h].todo # {} /\ s.child \in Children /\ UNCHANGED round
    BY <1>2, <1>5 DEF WatchPublish, At
  <2>2. Watch_(h, "write", watch[h].todo)
    BY <1>5 DEF WatchPublish
  <2>3. \/ Send("nudge", s.child, s.child) /\ pokes' = [pokes EXCEPT ![s.child] = @ + 1]
        \/ Send("escalation", Parent, s.child) /\ UNCHANGED pokes
    BY <1>5 DEF WatchPublish
  <2>4. WatchOK' /\ QueuesOK'
    BY <1>1, <2>1, <2>2, <2>3, WatchGoesOn, QueueGrows, Bounds DEF WatchSteps
  <2>5. HistoryOK'
    BY <1>1, <1>5, <2>1, <2>3 DEF HistoryOK, WatchPublish
  <2> QED BY <1>5, <2>4, <2>5, TypeFrames, NextTypeParts DEF WatchPublish
<1>6. CASE WatchWrite(h)
  <2> DEFINE c == s.child
             e == Written(s, doc[c])
  <2>1. c \in Children /\ c \in Sessions /\ UNCHANGED round /\ doc[c] \in Document
    BY <1>1, <1>2, <1>6, Bounds DEF WatchWrite, At, DocsOK
  <2>2. e \in Document /\ e.born = doc[c].born /\ e.made = doc[c].made
    BY <1>2, <1>6, <2>1, WrittenFacts DEF WatchWrite, At
  <2>3. doc' = [doc EXCEPT ![c] = e] \/ UNCHANGED doc
    BY <1>6 DEF WatchWrite
  <2>4. Watch_(h, Next_Child(watch[h].todo \ {s}), watch[h].todo \ {s})
    BY <1>6 DEF WatchWrite
  <2>5. WatchOK'
    BY <1>1, <2>1, <2>4, WatchNext
  <2> HIDE DEF c, e
  <2>6. DocsOK'
    BY <1>1, <2>1, <2>2, <2>3, DocChanges, TypeFrames
  <2> QED BY <1>6, <2>5, <2>6, TypeFrames, NextTypeParts DEF WatchWrite
<1>7. CASE WatchFails(h)
  <2>1. Watch_(h, "idle", {}) /\ UNCHANGED round
    BY <1>7 DEF WatchFails
  <2>2. WatchOK'
    BY <1>1, <2>1, WatchGoesOn DEF WatchSteps
  <2>3. SpentOK'
    BY <1>1, <1>7, SpentGrows DEF WatchFails
  <2> QED BY <1>7, <2>2, <2>3, TypeFrames, NextTypeParts DEF WatchFails
<1> QED BY <1>3, <1>4, <1>5, <1>6, <1>7 DEF Watchdog

LEMMA TypeWorkers ==
  ASSUME TypeOK, NEW h \in Hosts, Crash(h) \/ Restart(h)
  PROVE  TypeOK'
<1>1. /\ DocsOK /\ RoundsOK /\ WorkersOK /\ NotifyOK /\ WatchOK /\ SpentOK
  BY TypeParts
<1>2. CASE Crash(h)
  <2>1. Pass(h, "idle", {}) /\ Watch_(h, "idle", {}) /\ UNCHANGED round
    BY <1>2 DEF Crash, Idle, Pass, Watch_
  <2>2. NotifyOK' /\ WatchOK'
    BY <1>1, <2>1, NotifyGoesOn, WatchGoesOn DEF NotifySteps, WatchSteps
  <2>3. SpentOK' /\ WorkersOK'
    BY <1>1, <1>2, SpentGrows DEF Crash, WorkersOK
  <2> QED BY <1>2, <2>2, <2>3, TypeFrames, NextTypeParts DEF Crash
<1>3. CASE Restart(h)
  <2>1. /\ doc' = [s \in Sessions |-> IF HostOf[s] = h /\ Gone(s)
                                      THEN [doc[s] EXCEPT !.status = "stopped"] ELSE doc[s]]
        /\ UNCHANGED round
    BY <1>3 DEF Restart
  <2>2. ASSUME NEW s \in Sessions
        PROVE  doc'[s] \in Document /\ doc'[s].born = doc[s].born /\ doc'[s].made = doc[s].made
    <3>1. doc[s] \in Document
      BY <1>1 DEF DocsOK
    <3>2. doc'[s] = [doc[s] EXCEPT !.status = "stopped"] \/ doc'[s] = doc[s]
      BY <2>1
    <3>3. doc'[s] \in Document
      BY <3>1, <3>2, DocWrites
    <3>4. CASE doc'[s] = [doc[s] EXCEPT !.status = "stopped"]
      <4>1. [doc[s] EXCEPT !.status = "stopped"].born = doc[s].born
            /\ [doc[s] EXCEPT !.status = "stopped"].made = doc[s].made
        BY <3>1, DocKept
      <4> QED BY <3>3, <3>4, <4>1
    <3> QED BY <3>2, <3>3, <3>4
  <2>3. doc' \in [Sessions -> Document]
    BY <2>1, <2>2
  <2>4. DocsOK'
    BY <1>1, <2>1, <2>2, <2>3, Bounds DEF DocsOK
  <2>5. WorkersOK'
    BY <1>1, <1>3 DEF Restart, WorkersOK
  <2> QED BY <1>3, <2>4, <2>5, TypeFrames, NextTypeParts DEF Restart
<1> QED BY <1>2, <1>3

\* Every step of the system keeps the types.
LEMMA TypeStep == TypeOK /\ [Next]_vars => TypeOK'
<1> SUFFICES ASSUME TypeOK, [Next]_vars PROVE TypeOK'
  OBVIOUS
<1>1. CASE UNCHANGED vars
  BY <1>1, TypeFrames, NextTypeParts DEF vars
<1>2. CASE User \/ Agents \/ Time
  BY <1>2, TypeUser, TypeAgents, TypeTime
<1>3. ASSUME NEW s \in Sessions, Discover(s) PROVE TypeOK'
  BY <1>3, TypeDiscover
<1>4. ASSUME NEW c \in Children, DiscoverLate(c) PROVE TypeOK'
  BY <1>4, TypeDiscover, Bounds
<1>5. ASSUME NEW h \in Hosts, Handle(h) \/ Expire(h) PROVE TypeOK'
  BY <1>5, TypeCreate, TypeConsumer DEF Handle
<1>6. ASSUME NEW h \in Hosts, \/ Notify(h) \/ NotifyFails(h) \/ Watchdog(h) \/ WatchFails(h)
                              \/ Crash(h) \/ Restart(h)
      PROVE  TypeOK'
  BY <1>6, TypeNotify, TypeWatch, TypeWorkers
<1> QED BY <1>1, <1>2, <1>3, <1>4, <1>5, <1>6 DEF Next

\* No document or handoff is ahead of the rounds of its session, and what a worker
\* has listed or queued is of its own host and of a round that began.
THEOREM DelegationTypes == Spec => []TypeOK
<1>1. TypeOK /\ [Next]_vars => TypeOK'
  BY TypeStep
<1> QED BY InitType, <1>1, PTL DEF Spec

----------------------------------------------------------------------------
(* Frames: what a step that is not of the passes leaves of the counts.     *)

\* What the counts read of a document, its progress aside.
Same(d, e) == /\ e.made = d.made /\ e.born = d.born
              /\ e.notified = d.notified /\ e.nudges = d.nudges

LEMMA SameFields ==
  ASSUME NEW d \in Document
  PROVE  /\ \A x : LET e == [d EXCEPT !.status = x] IN Same(d, e) /\ e.progress = d.progress
         /\ \A x, p, m : LET e == [d EXCEPT !.status = x, !.progress = p, !.mood = m]
                         IN Same(d, e) /\ e.progress = p
         /\ \A x : LET e == [d EXCEPT !.age = x] IN Same(d, e) /\ e.progress = d.progress
         /\ LET e == [d EXCEPT !.cooled = TRUE] IN Same(d, e) /\ e.progress = d.progress
         /\ Same(d, d)
BY DEF Document, Same

\* What discovery, users, time and the consumer may do to the documents and the
\* counts of nudges: a document is purged, or stays but for progress, which starts
\* the count anew.
DocsStay ==
  \A c \in Children :
    /\ ~doc'[c].made \/ Same(doc[c], doc'[c])
    /\ \/ pokes'[c] = 0
       \/ pokes'[c] = pokes[c] /\ (~doc'[c].made \/ doc'[c].progress = doc[c].progress)

\* The part of it that the nudges depend on, and the part that the notices do.
CountsStay ==
  \A c \in Children :
    /\ \/ ~doc'[c].made
       \/ /\ doc'[c].made = doc[c].made /\ doc'[c].born = doc[c].born
          /\ doc'[c].nudges = doc[c].nudges
    /\ \/ pokes'[c] = 0
       \/ pokes'[c] = pokes[c] /\ (~doc'[c].made \/ doc'[c].progress = doc[c].progress)
MarksStay ==
  \A c \in Children :
    \/ ~doc'[c].made
    \/ /\ doc'[c].made = doc[c].made /\ doc'[c].born = doc[c].born
       /\ doc'[c].notified = doc[c].notified

LEMMA DocsStayBoth == ASSUME DocsStay PROVE CountsStay /\ MarksStay
<1>1. ASSUME NEW c \in Children, doc'[c].made
      PROVE  /\ doc'[c].made = doc[c].made /\ doc'[c].born = doc[c].born
             /\ doc'[c].nudges = doc[c].nudges /\ doc'[c].notified = doc[c].notified
  BY <1>1 DEF DocsStay, Same
<1>2. CountsStay
  BY <1>1 DEF DocsStay, CountsStay
<1>3. MarksStay
  BY <1>1 DEF MarksStay
<1> QED BY <1>2, <1>3

LEMMA SameDocs == ASSUME TypeOK, UNCHANGED <<doc, pokes>> PROVE DocsStay
<1>1. ASSUME NEW c \in Children PROVE Same(doc[c], doc'[c])
  BY <1>1 DEF Same
<1> QED BY <1>1 DEF DocsStay

\* One document rewritten.
LEMMA OneDoc ==
  ASSUME TypeOK, NEW s \in Sessions, NEW e, doc' = [doc EXCEPT ![s] = e], UNCHANGED pokes,
         Same(doc[s], e) /\ e.progress = doc[s].progress
  PROVE  DocsStay
<1>1. doc \in [Sessions -> Document]
  BY TypeParts DEF DocsOK
<1>2. ASSUME NEW c \in Children
      PROVE  Same(doc[c], doc'[c]) /\ doc'[c].progress = doc[c].progress
  <2>1. CASE c = s
    BY <1>1, <2>1
  <2>2. CASE c # s
    <3>1. doc'[c] = doc[c]
      BY <1>1, <2>2, Bounds
    <3> QED BY <3>1 DEF Same
  <2> QED BY <2>1, <2>2
<1> QED BY <1>2 DEF DocsStay

LEMMA OneStatus ==
  ASSUME TypeOK, NEW s \in Sessions, NEW x, doc' = [doc EXCEPT ![s].status = x], UNCHANGED pokes
  PROVE  DocsStay
<1>1. doc \in [Sessions -> Document]
  BY TypeParts DEF DocsOK
<1> DEFINE e == [doc[s] EXCEPT !.status = x]
<1>2. Same(doc[s], e) /\ e.progress = doc[s].progress
  BY <1>1, SameFields
<1>3. doc' = [doc EXCEPT ![s] = e]
  BY <1>1
<1> HIDE DEF e
<1> QED BY <1>2, <1>3, OneDoc

LEMMA StayUser == ASSUME TypeOK, User \/ Agents \/ Time PROVE DocsStay
<1>1. doc \in [Sessions -> Document]
  BY TypeParts DEF DocsOK
<1>2. ASSUME NEW c \in Children, Purge(c) PROVE DocsStay
  <2>1. doc' = [doc EXCEPT ![c] = NoDoc] /\ UNCHANGED pokes
    BY <1>2 DEF Purge
  <2>2. ASSUME NEW x \in Children
        PROVE  ~doc'[x].made \/ doc'[x] = doc[x]
    BY <1>1, <2>1, NoDocType, Bounds
  <2>3. ASSUME NEW x \in Children, doc'[x] = doc[x]
        PROVE  Same(doc[x], doc'[x]) /\ doc'[x].progress = doc[x].progress
    BY <2>3 DEF Same
  <2> QED BY <2>1, <2>2, <2>3 DEF DocsStay
<1>3. ASSUME NEW c \in Children, Age(c) PROVE DocsStay
  <2> DEFINE e == [doc[c] EXCEPT !.age = Older[doc[c].age]]
  <2>1. doc' = [doc EXCEPT ![c] = e] /\ UNCHANGED pokes
    BY <1>1, <1>3, Bounds DEF Age
  <2>2. Same(doc[c], e) /\ e.progress = doc[c].progress
    BY <1>1, SameFields, Bounds
  <2> HIDE DEF e
  <2> QED BY <2>1, <2>2, OneDoc, Bounds
<1>4. ASSUME NEW c \in Children, Cool(c) PROVE DocsStay
  <2> DEFINE e == [doc[c] EXCEPT !.cooled = TRUE]
  <2>1. doc' = [doc EXCEPT ![c] = e] /\ UNCHANGED pokes
    BY <1>1, <1>4, Bounds DEF Cool
  <2>2. Same(doc[c], e) /\ e.progress = doc[c].progress
    BY <1>1, SameFields, Bounds
  <2> HIDE DEF e
  <2> QED BY <2>1, <2>2, OneDoc, Bounds
<1>5. ASSUME NEW c \in Children, Delegate(c) PROVE DocsStay
  BY <1>5, SameDocs DEF Delegate
<1>6. ASSUME NEW s \in Sessions, Kill(s) PROVE DocsStay
  BY <1>6, SameDocs DEF Kill
<1>7. CASE Agents
  BY <1>7, SameDocs DEF Agents, Stall, Work, Quit, WriteHandoff, TellParent
<1>8. ASSUME NEW c \in Children, Ripen(c) PROVE DocsStay
  BY <1>8, SameDocs DEF Ripen
<1> QED BY <1>2, <1>3, <1>4, <1>5, <1>6, <1>7, <1>8 DEF User, Time

LEMMA StayDiscover ==
  ASSUME TypeOK, NEW s \in Sessions, Discover(s) \/ (s \in Children /\ DiscoverLate(s))
  PROVE  DocsStay
<1>1. doc \in [Sessions -> Document] /\ pokes \in [Children -> Nat]
  BY TypeParts DEF DocsOK, HistoryOK
<1>2. CASE s \in Children /\ DiscoverLate(s)
  BY <1>2, OneStatus DEF DiscoverLate
<1>3. CASE Discover(s)
  <2>1. PICK p \in BOOLEAN :
          /\ p = doc[s].progress \/ p
          /\ doc' = [doc EXCEPT ![s].status = Observed(s), ![s].progress = p,
                                ![s].mood = IF Alive(s) THEN agent[s] ELSE @]
          /\ pokes' = IF p /\ ~doc[s].progress THEN [pokes EXCEPT ![s] = 0] ELSE pokes
    <3>1. doc[s].progress \in BOOLEAN
      BY <1>1, DocFields
    <3> QED BY <1>3, <3>1, Zenon DEF Discover
  <2> DEFINE m == IF Alive(s) THEN agent[s] ELSE doc[s].mood
             e == [doc[s] EXCEPT !.status = Observed(s), !.progress = p, !.mood = m]
  <2>2. doc' = [doc EXCEPT ![s].status = Observed(s), ![s].progress = p, ![s].mood = m]
    BY <1>1, <2>1
  <2>3. doc' = [doc EXCEPT ![s] = e]
    BY <1>1, <2>2
  <2>4. Same(doc[s], e) /\ e.progress = p
    <3>1. doc[s] \in Document
      BY <1>1
    <3> DEFINE o == Observed(s)
    <3>2. \A x, y, z : LET d == [doc[s] EXCEPT !.status = x, !.progress = y, !.mood = z]
                       IN Same(doc[s], d) /\ d.progress = y
      BY <3>1, SameFields
    <3>3. LET d == [doc[s] EXCEPT !.status = o, !.progress = p, !.mood = m]
          IN Same(doc[s], d) /\ d.progress = p
      <4> HIDE DEF o, m
      <4> QED BY <3>2, Zenon
    <3> QED BY <3>3, Zenon
  <2> HIDE DEF e
  <2>5. ASSUME NEW c \in Children
        PROVE  /\ Same(doc[c], doc'[c])
               /\ pokes'[c] = 0 \/ (pokes'[c] = pokes[c] /\ doc'[c].progress = doc[c].progress)
    <3>1. CASE c = s
      <4>1. doc'[c] = e
        BY <1>1, <2>3, <3>1
      <4>2. doc[s].progress \in BOOLEAN
        BY <1>1, DocFields
      <4>3. CASE p /\ ~doc[s].progress
        BY <1>1, <2>1, <2>4, <3>1, <4>1, <4>3
      <4>4. CASE ~(p /\ ~doc[s].progress)
        <5>1. pokes' = pokes /\ p = doc[s].progress
          BY <2>1, <4>2, <4>4, Zenon
        <5> QED BY <2>4, <3>1, <4>1, <5>1
      <4> QED BY <4>3, <4>4
    <3>2. CASE c # s
      <4>1. doc'[c] = doc[c] /\ pokes'[c] = pokes[c]
        BY <1>1, <2>1, <2>3, <3>2, Bounds
      <4> QED BY <4>1 DEF Same
    <3> QED BY <3>1, <3>2
  <2> QED BY <2>5 DEF DocsStay
<1> QED BY <1>2, <1>3

LEMMA StayConsumer ==
  ASSUME TypeOK, NEW h \in Hosts,
         Stop(h) \/ Input(h) \/ Expire(h) \/ (Create(h) /\ ~Gone(Cmd(h).to))
  PROVE  DocsStay
<1>1. queue[h] # <<>> /\ QueuesOK
  BY TypeParts DEF Create, Stop, Input, Expire, Taking
<1>2. Cmd(h).to \in Sessions
  BY <1>1, HeadFacts
<1>3. CASE Stop(h)
  BY <1>2, <1>3, OneStatus DEF Stop
<1>4. CASE Input(h)
  <2>1. UNCHANGED pokes
    BY <1>4 DEF Input
  <2>2. UNCHANGED doc \/ doc' = [doc EXCEPT ![Cmd(h).to].status = "alive"]
    BY <1>4 DEF Input
  <2> QED BY <1>2, <2>1, <2>2, OneStatus, SameDocs
<1>5. CASE Expire(h) \/ (Create(h) /\ ~Gone(Cmd(h).to))
  BY <1>5, SameDocs DEF Expire, Create
<1> QED BY <1>3, <1>4, <1>5

LEMMA StayRestart == ASSUME TypeOK, NEW h \in Hosts, Restart(h) PROVE DocsStay
<1>1. doc \in [Sessions -> Document]
  BY TypeParts DEF DocsOK
<1>2. UNCHANGED pokes
  BY DEF Restart
<1>3. ASSUME NEW c \in Children
      PROVE  Same(doc[c], doc'[c]) /\ doc'[c].progress = doc[c].progress
  <2>1. doc'[c] = [doc[c] EXCEPT !.status = "stopped"] \/ doc'[c] = doc[c]
    BY Bounds DEF Restart
  <2>2. doc[c] \in Document
    BY <1>1, Bounds
  <2>3. CASE doc'[c] = doc[c]
    BY <2>2, <2>3, SameFields
  <2>4. CASE doc'[c] = [doc[c] EXCEPT !.status = "stopped"]
    <3>1. LET e == [doc[c] EXCEPT !.status = "stopped"]
          IN Same(doc[c], e) /\ e.progress = doc[c].progress
      BY <2>2, SameFields
    <3> QED BY <2>4, <3>1
  <2> QED BY <2>1, <2>3, <2>4
<1> QED BY <1>2, <1>3 DEF DocsStay

----------------------------------------------------------------------------
(* Nudges. *)

\* The counts are numbers.
CountsOK ==
  /\ spent.faults \in Nat
  /\ \A c \in Children :
       /\ pokes[c] \in Nat /\ sent[c].notices \in Nat /\ round[c] \in Nat
       /\ Counted(doc[c]) \in Nat /\ Inherited(c) \in {0, 1} /\ Counting(c) \in {0, 1}
       /\ round[c] > 1 => Inherited(c) = 1
       /\ doc[c].made \in BOOLEAN /\ doc[c].born \in 0..round[c]
       /\ doc[c].made <=> doc[c].born > 0
  /\ \A h \in Hosts : \A s \in watch[h].todo :
       /\ s \in Watchings /\ s.child \in Children /\ HostOf[s.child] = h
       /\ s.born \in 1..round[s.child]
       /\ Counted(s) \in Nat /\ Nudged(h, s) \in {0, 1}
       /\ \A t \in watch[h].todo : s.child = t.child => s = t
  /\ \A h \in Hosts :
       /\ watch[h].step = "idle" <=> watch[h].todo = {}
       /\ watch[h].step # "idle" => Now(watch[h]) \in watch[h].todo

LEMMA Numbers == TypeOK => CountsOK
<1> SUFFICES ASSUME TypeOK PROVE CountsOK
  OBVIOUS
<1>1. /\ DocsOK /\ RoundsOK /\ WatchOK /\ HistoryOK /\ SpentOK
  BY TypeParts
<1>2. spent.faults \in Nat
  BY <1>1, Bounds DEF SpentOK
<1>3. ASSUME NEW h, NEW s PROVE Nudged(h, s) \in {0, 1}
  BY DEF Nudged
<1>4. ASSUME NEW c \in Children
      PROVE  /\ pokes[c] \in Nat /\ sent[c].notices \in Nat /\ round[c] \in Nat
             /\ Counted(doc[c]) \in Nat /\ Inherited(c) \in {0, 1} /\ Counting(c) \in {0, 1}
             /\ round[c] > 1 => Inherited(c) = 1
             /\ doc[c].made \in BOOLEAN /\ doc[c].born \in 0..round[c]
             /\ doc[c].made <=> doc[c].born > 0
  <2>1. pokes[c] \in Nat /\ sent[c].notices \in Nat /\ round[c] \in Nat
    BY <1>1 DEF HistoryOK, RoundsOK
  <2>2. doc[c] \in Document
    BY <1>1, Bounds DEF DocsOK
  <2>3. doc[c].nudges \in Nat /\ doc[c].made \in BOOLEAN /\ doc[c].born \in Nat
    BY <2>2, DocFields, Bounds
  <2>4. Counted(doc[c]) \in Nat
    BY <2>3 DEF Counted
  <2>5. Inherited(c) \in {0, 1} /\ (round[c] > 1 => Inherited(c) = 1)
    BY DEF Inherited
  <2>6. Counting(c) \in {0, 1}
    BY <1>3 DEF Counting
  <2>7. doc[c].born \in 0..round[c]
    BY <1>1, <2>1, <2>3 DEF DocsOK
  <2>8. doc[c].made <=> doc[c].born > 0
    BY <1>1 DEF DocsOK
  <2> QED BY <2>1, <2>3, <2>4, <2>5, <2>6, <2>7, <2>8
<1>5. ASSUME NEW h \in Hosts
      PROVE  /\ watch[h].step = "idle" <=> watch[h].todo = {}
             /\ watch[h].step # "idle" => Now(watch[h]) \in watch[h].todo
             /\ \A s \in watch[h].todo :
                  /\ s \in Watchings /\ HostOf[s.child] = h /\ s.born \in 1..round[s.child]
                  /\ \A t \in watch[h].todo : s.child = t.child => s = t
  <2>1. PassIs(watch, round) /\ watch[h] \in [step : WatchSteps, todo : SUBSET Watchings]
    BY <1>1 DEF WatchOK, PassTyped
  <2>2. watch[h].step # "idle" => Now(watch[h]) \in watch[h].todo
    BY <2>1, NowListed
  <2> QED BY <2>1, <2>2 DEF PassIs
<1>6. ASSUME NEW s \in Watchings PROVE s.child \in Children /\ Counted(s) \in Nat
  BY Bounds DEF Watchings, Counted
<1> QED BY <1>2, <1>3, <1>4, <1>5, <1>6 DEF CountsOK

LEMMA NextNumbers == TypeOK' => CountsOK'
BY Numbers, PTL

\* A step that leaves the watchdogs alone keeps the bounds.
LEMMA NudgesStay ==
  ASSUME TypeOK, TypeOK', DocCounts, PassCounts, NudgesBounded,
         UNCHANGED <<watch, round>>, CountsStay, spent.faults <= spent'.faults
  PROVE  DocCounts' /\ PassCounts' /\ NudgesBounded'
<1>1. CountsOK /\ CountsOK'
  BY Numbers, NextNumbers
<1>2. ASSUME NEW c \in Children
      PROVE  /\ pokes'[c] <= pokes[c] /\ pokes'[c] \in Nat
             /\ Inherited(c)' = Inherited(c)
             /\ \/ pokes'[c] = 0
                \/ pokes'[c] = pokes[c] /\ (~doc'[c].made \/ doc'[c].progress = doc[c].progress)
             /\ \/ ~doc'[c].made
                \/ /\ doc'[c].made = doc[c].made /\ doc'[c].born = doc[c].born
                   /\ doc'[c].nudges = doc[c].nudges
  BY <1>1 DEF CountsOK, CountsStay, Inherited
<1>3. NudgesBounded'
  <2>1. ASSUME NEW c \in Children
        PROVE  pokes'[c] <= MaxNudges + spent'.faults + Inherited(c)'
    <3>1. pokes[c] <= MaxNudges + spent.faults + Inherited(c)
      BY DEF NudgesBounded
    <3>2. /\ pokes[c] \in Nat /\ spent.faults \in Nat /\ spent'.faults \in Nat
          /\ Inherited(c) \in {0, 1}
      BY <1>1 DEF CountsOK
    <3> QED BY <1>2, <3>1, <3>2, Bounds
  <2> QED BY <2>1 DEF NudgesBounded
<1>4. ASSUME NEW h, NEW s PROVE Nudged(h, s)' = Nudged(h, s)
  BY DEF Nudged, Published
<1>5. DocCounts'
  <2>1. ASSUME NEW c \in Children, doc'[c].made
        PROVE  pokes'[c] <= Counted(doc'[c]) + Counting(c)' + spent'.faults + Inherited(c)'
    <3>1. /\ Counted(doc'[c]) \in Nat /\ Counting(c)' \in {0, 1} /\ Inherited(c)' \in {0, 1}
          /\ spent'.faults \in Nat /\ spent.faults \in Nat /\ Counted(doc[c]) \in Nat
          /\ Counting(c) \in {0, 1} /\ Inherited(c) \in {0, 1} /\ pokes[c] \in Nat
      BY <1>1 DEF CountsOK
    <3>2. CASE pokes'[c] = 0
      BY <3>1, <3>2
    <3>3. CASE pokes'[c] # 0
      <4>1. /\ doc'[c].made = doc[c].made /\ doc'[c].born = doc[c].born
            /\ doc'[c].nudges = doc[c].nudges
            /\ doc'[c].progress = doc[c].progress /\ pokes'[c] = pokes[c]
        BY <1>2, <2>1, <3>3
      <4>2. Counted(doc'[c]) = Counted(doc[c]) /\ doc[c].made
        BY <2>1, <4>1 DEF Counted
      <4>3. Counting(c)' = Counting(c)
        BY <1>4, <4>1 DEF Counting
      <4>4. pokes[c] <= Counted(doc[c]) + Counting(c) + spent.faults + Inherited(c)
        BY <4>2 DEF DocCounts
      <4> QED BY <1>2, <3>1, <4>1, <4>2, <4>3, <4>4
    <3> QED BY <3>2, <3>3
  <2> QED BY <2>1 DEF DocCounts
<1>6. PassCounts'
  <2>1. ASSUME NEW h \in Hosts, NEW s \in watch'[h].todo
        PROVE  IF doc'[s.child].made /\ s.born # doc'[s.child].born
               THEN round'[s.child] > 1 /\ pokes'[s.child] <= Nudged(h, s)'
               ELSE pokes'[s.child] <= Counted(s) + Nudged(h, s)' + spent'.faults + Inherited(s.child)'
    <3> DEFINE c == s.child
    <3>1. s \in watch[h].todo
      OBVIOUS
    <3>2. c \in Children /\ Counted(s) \in Nat /\ Nudged(h, s) \in {0, 1}
      BY <1>1, <3>1 DEF CountsOK
    <3>3. IF doc[c].made /\ s.born # doc[c].born
          THEN round[c] > 1 /\ pokes[c] <= Nudged(h, s)
          ELSE pokes[c] <= Counted(s) + Nudged(h, s) + spent.faults + Inherited(c)
      BY <3>1 DEF PassCounts
    <3>4. /\ spent'.faults \in Nat /\ spent.faults \in Nat /\ Inherited(c) \in {0, 1}
          /\ pokes[c] \in Nat /\ pokes'[c] \in Nat
      BY <1>1, <3>2 DEF CountsOK
    <3>5. pokes'[c] <= pokes[c] /\ Inherited(c)' = Inherited(c) /\ Nudged(h, s)' = Nudged(h, s)
          /\ round'[c] = round[c]
      BY <1>2, <1>4, <3>2
    <3>6. CASE doc'[c].made /\ s.born # doc'[c].born
      <4>1. doc[c].made /\ s.born # doc[c].born
        BY <1>2, <3>2, <3>6
      <4>2. round[c] > 1 /\ pokes[c] <= Nudged(h, s)
        BY <3>3, <4>1
      <4>3. round'[c] > 1 /\ pokes'[c] <= Nudged(h, s)'
        BY <3>2, <3>4, <3>5, <4>2
      <4> QED BY <3>6, <4>3
    <3>7. CASE ~(doc'[c].made /\ s.born # doc'[c].born)
      <4>1. pokes[c] <= Counted(s) + Nudged(h, s) + spent.faults + Inherited(c)
        BY <3>2, <3>3, <3>4
      <4>2. pokes'[c] <= Counted(s) + Nudged(h, s)' + spent'.faults + Inherited(c)'
        BY <3>2, <3>4, <3>5, <4>1
      <4> QED BY <3>7, <4>2
    <3> QED BY <3>6, <3>7
  <2> QED BY <2>1 DEF PassCounts
<1> QED BY <1>3, <1>5, <1>6

\* A session created anew starts its count, and its round is past every listing.
LEMMA NudgesCreate ==
  ASSUME TypeOK, TypeOK', DocCounts, PassCounts, NudgesBounded,
         NEW h \in Hosts, Create(h), Gone(Cmd(h).to)
  PROVE  DocCounts' /\ PassCounts' /\ NudgesBounded'
<1> DEFINE n == Cmd(h).to
<1>1. CountsOK /\ CountsOK'
  BY Numbers, NextNumbers
<1>2. DocsOK /\ RoundsOK /\ HistoryOK /\ QueuesOK /\ queue[h] # <<>> /\ Cmd(h).type = "create"
  BY TypeParts DEF Create, Taking
<1>3. n \in Children /\ n \in Sessions
  BY <1>2, HeadFacts
<1>4. /\ doc' = [doc EXCEPT ![n] = Upserted(n)]
      /\ round' = [round EXCEPT ![n] = @ + 1]
      /\ pokes' = [pokes EXCEPT ![n] = 0]
      /\ UNCHANGED <<watch, spent>>
  BY DEF Create
<1> HIDE DEF n
<1>5. ASSUME NEW h2, NEW s PROVE Nudged(h2, s)' = Nudged(h2, s)
  BY <1>4 DEF Nudged, Published
<1>6. /\ pokes'[n] = 0 /\ round'[n] = round[n] + 1
      /\ doc'[n] = Upserted(n) /\ doc'[n].made
      /\ doc[n].made => doc'[n].born = doc[n].born
      /\ ~doc[n].made => doc'[n].born = round[n] + 1
  <2>1. doc'[n] = Upserted(n) /\ pokes'[n] = 0 /\ round'[n] = round[n] + 1
    BY <1>2, <1>3, <1>4 DEF DocsOK, HistoryOK, RoundsOK
  <2> QED BY <1>2, <1>3, <2>1, UpsertedType
<1>7. ASSUME NEW c \in Children, c # n
      PROVE  /\ doc'[c] = doc[c] /\ pokes'[c] = pokes[c] /\ round'[c] = round[c]
             /\ Inherited(c)' = Inherited(c) /\ Counting(c)' = Counting(c)
  <2>1. doc'[c] = doc[c] /\ pokes'[c] = pokes[c] /\ round'[c] = round[c]
    BY <1>2, <1>4, <1>7, Bounds DEF DocsOK, HistoryOK, RoundsOK
  <2> QED BY <1>4, <1>5, <2>1 DEF Inherited, Counting
<1>8. NudgesBounded'
  <2>1. ASSUME NEW c \in Children PROVE pokes'[c] <= MaxNudges + spent'.faults + Inherited(c)'
    <3>1. CASE c = n
      BY <1>1, <1>6, <3>1, Bounds DEF CountsOK
    <3>2. CASE c # n
      BY <1>4, <1>7, <3>2 DEF NudgesBounded
    <3> QED BY <3>1, <3>2
  <2> QED BY <2>1 DEF NudgesBounded
<1>9. DocCounts'
  <2>1. ASSUME NEW c \in Children, doc'[c].made
        PROVE  pokes'[c] <= Counted(doc'[c]) + Counting(c)' + spent'.faults + Inherited(c)'
    <3>1. CASE c = n
      <4>1. /\ Counted(doc'[c]) \in Nat /\ Counting(c)' \in {0, 1}
            /\ spent'.faults \in Nat /\ Inherited(c)' \in {0, 1}
        BY <1>1 DEF CountsOK
      <4> QED BY <1>6, <3>1, <4>1
    <3>2. CASE c # n
      BY <1>4, <1>7, <2>1, <3>2 DEF DocCounts
    <3> QED BY <3>1, <3>2
  <2> QED BY <2>1 DEF DocCounts
<1>10. PassCounts'
  <2>1. ASSUME NEW g \in Hosts, NEW s \in watch'[g].todo
        PROVE  IF doc'[s.child].made /\ s.born # doc'[s.child].born
               THEN round'[s.child] > 1 /\ pokes'[s.child] <= Nudged(g, s)'
               ELSE pokes'[s.child] <= Counted(s) + Nudged(g, s)' + spent'.faults + Inherited(s.child)'
    <3> DEFINE c == s.child
    <3>1. s \in watch[g].todo
      BY <1>4
    <3>2. /\ c \in Children /\ Counted(s) \in Nat /\ Nudged(g, s) \in {0, 1}
          /\ s.born \in 1..round[c] /\ round[c] \in Nat
      BY <1>1, <3>1 DEF CountsOK
    <3>3. Nudged(g, s)' = Nudged(g, s)
      BY <1>5
    <3>4. CASE c = n
      <4>1. pokes'[c] = 0 /\ round'[c] = round[c] + 1
        BY <1>6, <3>4
      <4>2. spent'.faults \in Nat /\ Inherited(c)' \in {0, 1}
        BY <1>1, <3>2 DEF CountsOK
      <4>3. round'[c] > 1
        BY <3>2, <4>1
      <4>4. pokes'[c] <= Nudged(g, s)'
        BY <3>2, <3>3, <4>1
      <4>5. pokes'[c] <= Counted(s) + Nudged(g, s)' + spent'.faults + Inherited(c)'
        BY <3>2, <3>3, <4>1, <4>2
      <4> QED BY <4>3, <4>4, <4>5
    <3>5. CASE c # n
      BY <1>4, <1>7, <3>1, <3>2, <3>3, <3>5 DEF PassCounts
    <3> QED BY <3>4, <3>5
  <2> QED BY <2>1 DEF PassCounts
<1> QED BY <1>8, <1>9, <1>10

\* Where the watchdog of a host is in its pass matters to the children of that host.
LEMMA OtherHosts ==
  ASSUME TypeOK, NEW h \in Hosts, NEW step, NEW todo, Watch_(h, step, todo)
  PROVE  /\ watch'[h].step = step /\ watch'[h].todo = todo
         /\ \A g \in Hosts \ {h} : /\ watch'[g] = watch[g]
                                   /\ \A s : Nudged(g, s)' = Nudged(g, s)
<1>1. watch \in [Hosts -> [step : WatchSteps, todo : SUBSET Watchings]]
  BY TypeParts DEF WatchOK, PassTyped
<1>2. watch'[h] = [step |-> step, todo |-> todo] /\ \A g \in Hosts \ {h} : watch'[g] = watch[g]
  BY <1>1 DEF Watch_
<1>3. watch'[h].step = step /\ watch'[h].todo = todo
  BY <1>2
<1> QED BY <1>2, <1>3 DEF Nudged, Published

\* A watchdog that goes on without a nudge or a write keeps the bounds, when what it
\* forgets is paid for and what it keeps is what it has read.
LEMMA NudgesMove ==
  ASSUME TypeOK, TypeOK', DocCounts, PassCounts, NudgesBounded,
         NEW h \in Hosts, NEW step, NEW todo, Watch_(h, step, todo),
         UNCHANGED <<doc, pokes, round>>, spent.faults <= spent'.faults,
         \A c \in Children : HostOf[c] = h =>
           Counting(c) + spent.faults <= Counting(c)' + spent'.faults,
         \A s \in todo :
           IF doc[s.child].made /\ s.born # doc[s.child].born
           THEN round[s.child] > 1 /\ pokes[s.child] <= Nudged(h, s)'
           ELSE pokes[s.child] <= Counted(s) + Nudged(h, s)' + spent'.faults + Inherited(s.child)
  PROVE  DocCounts' /\ PassCounts' /\ NudgesBounded'
<1>1. CountsOK /\ CountsOK'
  BY Numbers, NextNumbers
<1>2. spent.faults \in Nat /\ spent'.faults \in Nat
  BY <1>1 DEF CountsOK
<1>3. /\ watch'[h].step = step /\ watch'[h].todo = todo
      /\ \A g \in Hosts \ {h} : /\ watch'[g] = watch[g]
                                /\ \A s : Nudged(g, s)' = Nudged(g, s)
  BY OtherHosts
<1>4. ASSUME NEW c \in Children
      PROVE  /\ pokes[c] \in Nat /\ Inherited(c) \in {0, 1} /\ Inherited(c)' = Inherited(c)
             /\ Counted(doc[c]) \in Nat /\ Counting(c) \in {0, 1} /\ Counting(c)' \in {0, 1}
             /\ HostOf[c] \in Hosts
  BY <1>1, Bounds DEF CountsOK, Inherited
<1>5. NudgesBounded'
  <2>1. ASSUME NEW c \in Children PROVE pokes'[c] <= MaxNudges + spent'.faults + Inherited(c)'
    <3>1. pokes[c] <= MaxNudges + spent.faults + Inherited(c)
      BY DEF NudgesBounded
    <3> QED BY <1>2, <1>4, <3>1, Bounds
  <2> QED BY <2>1 DEF NudgesBounded
<1>6. DocCounts'
  <2>1. ASSUME NEW c \in Children, doc'[c].made
        PROVE  pokes'[c] <= Counted(doc'[c]) + Counting(c)' + spent'.faults + Inherited(c)'
    <3>1. pokes[c] <= Counted(doc[c]) + Counting(c) + spent.faults + Inherited(c)
      BY <2>1 DEF DocCounts
    <3>2. Counting(c) + spent.faults <= Counting(c)' + spent'.faults
      <4>1. CASE HostOf[c] = h
        BY <4>1
      <4>2. CASE HostOf[c] # h
        <5>1. Counting(c)' = Counting(c)
          BY <1>3, <1>4, <4>2 DEF Counting
        <5> QED BY <1>2, <1>4, <5>1
      <4> QED BY <4>1, <4>2
    <3> QED BY <1>2, <1>4, <3>1, <3>2
  <2> QED BY <2>1 DEF DocCounts
<1>7. PassCounts'
  <2>1. ASSUME NEW g \in Hosts, NEW s \in watch'[g].todo
        PROVE  IF doc'[s.child].made /\ s.born # doc'[s.child].born
               THEN round'[s.child] > 1 /\ pokes'[s.child] <= Nudged(g, s)'
               ELSE pokes'[s.child] <= Counted(s) + Nudged(g, s)' + spent'.faults + Inherited(s.child)'
    <3> DEFINE c == s.child
    <3>1. /\ c \in Children /\ Counted(s) \in Nat /\ Nudged(g, s)' \in {0, 1}
      BY <1>1 DEF CountsOK
    <3>2. CASE g = h
      BY <1>3, <1>4, <3>1, <3>2
    <3>3. CASE g # h
      <4>1. s \in watch[g].todo /\ Nudged(g, s)' = Nudged(g, s)
        BY <1>3, <3>3
      <4>2. IF doc[c].made /\ s.born # doc[c].born
            THEN round[c] > 1 /\ pokes[c] <= Nudged(g, s)
            ELSE pokes[c] <= Counted(s) + Nudged(g, s) + spent.faults + Inherited(c)
        BY <4>1 DEF PassCounts
      <4>3. CASE doc[c].made /\ s.born # doc[c].born
        BY <4>1, <4>2, <4>3
      <4>4. CASE ~(doc[c].made /\ s.born # doc[c].born)
        <5>1. pokes[c] <= Counted(s) + Nudged(g, s)' + spent'.faults + Inherited(c)
          BY <1>2, <1>4, <3>1, <4>1, <4>2, <4>4
        <5> QED BY <1>4, <3>1, <4>4, <5>1
      <4> QED BY <4>3, <4>4
    <3> QED BY <3>2, <3>3
  <2> QED BY <2>1 DEF PassCounts
<1> QED BY <1>5, <1>6, <1>7

\* No nudge is on the way to be counted before the watchdog is at its write.
LEMMA NotWriting ==
  ASSUME NEW h \in Hosts, watch[h].step # "write"
  PROVE  /\ \A c \in Children : HostOf[c] = h => Counting(c) = 0
         /\ \A s : Nudged(h, s) = 0
BY DEF Counting, Nudged, Published

LEMMA NudgesListed ==
  ASSUME TypeOK, TypeOK', DocCounts, PassCounts, NudgesBounded, NEW h \in Hosts, WatchList(h)
  PROVE  DocCounts' /\ PassCounts' /\ NudgesBounded'
<1> DEFINE todo == {Watched(c) : c \in Stuck(h)}
<1>1. CountsOK /\ CountsOK' /\ DocsOK /\ FilesOK /\ RoundsOK
  BY Numbers, NextNumbers, TypeParts
<1>2. UNCHANGED <<doc, pokes, round, spent>> /\ watch[h].step = "idle" /\ Watch_(h, "look", todo)
  BY DEF WatchList, At
<1>3. spent.faults \in Nat /\ spent'.faults = spent.faults
  BY <1>1, <1>2 DEF CountsOK
<1>4. ASSUME NEW c \in Children, HostOf[c] = h
      PROVE  Counting(c) = 0 /\ Counting(c)' \in {0, 1}
  BY <1>1, <1>2, <1>4, NotWriting DEF CountsOK
<1>5. ASSUME NEW s \in todo
      PROVE  /\ doc[s.child].made /\ s.born = doc[s.child].born
             /\ pokes[s.child] <= Counted(s) + Nudged(h, s)' + spent'.faults + Inherited(s.child)
  <2>1. PICK c \in Stuck(h) : s = Watched(c)
    OBVIOUS
  <2>2. c \in Children /\ HostOf[c] = h /\ doc[c].made
    BY DEF Stuck, Unnotified, Mine
  <2>3. s.child = c /\ s.born = doc[c].born /\ s.nudges = doc[c].nudges /\ s.progress = doc[c].progress
    BY <1>1, <2>1, <2>2, ListedFacts
  <2>4. pokes[c] <= Counted(doc[c]) + Counting(c) + spent.faults + Inherited(c)
    BY <2>2 DEF DocCounts
  <2>5. Counted(s) = Counted(doc[c])
    BY <2>3 DEF Counted
  <2>6. Nudged(h, s)' \in {0, 1}
    BY DEF Nudged
  <2>7. pokes[c] \in Nat /\ Counted(doc[c]) \in Nat /\ Inherited(c) \in {0, 1} /\ Counting(c) = 0
    BY <1>1, <1>4, <2>2 DEF CountsOK
  <2>8. pokes[c] <= Counted(s) + Nudged(h, s)' + spent'.faults + Inherited(c)
    BY <1>3, <2>4, <2>5, <2>6, <2>7
  <2> QED BY <2>2, <2>3, <2>8
<1> HIDE DEF todo
<1>6. \A c \in Children : HostOf[c] = h =>
        Counting(c) + spent.faults <= Counting(c)' + spent'.faults
  BY <1>3, <1>4
<1> QED BY <1>2, <1>3, <1>5, <1>6, NudgesMove

LEMMA NudgesLook ==
  ASSUME TypeOK, TypeOK', DocCounts, PassCounts, NudgesBounded, NEW h \in Hosts, WatchLook(h)
  PROVE  DocCounts' /\ PassCounts' /\ NudgesBounded'
<1> DEFINE n == Now(watch[h])
<1>1. CountsOK /\ CountsOK'
  BY Numbers, NextNumbers
<1>2. UNCHANGED <<doc, pokes, round, spent>> /\ watch[h].step = "look"
  BY DEF WatchLook, At
<1>3. spent.faults \in Nat /\ spent'.faults = spent.faults
  BY <1>1, <1>2 DEF CountsOK
<1>4. \A c \in Children : HostOf[c] = h =>
        Counting(c) + spent.faults <= Counting(c)' + spent'.faults
  <2>1. ASSUME NEW c \in Children, HostOf[c] = h
        PROVE  Counting(c) = 0 /\ Counting(c)' \in {0, 1}
    BY <1>1, <1>2, <2>1, NotWriting DEF CountsOK
  <2> QED BY <1>3, <2>1
<1>5. ASSUME NEW s \in watch[h].todo
      PROVE  IF doc[s.child].made /\ s.born # doc[s.child].born
             THEN round[s.child] > 1 /\ pokes[s.child] <= Nudged(h, s)'
             ELSE pokes[s.child] <= Counted(s) + Nudged(h, s)' + spent'.faults + Inherited(s.child)
  <2>1. Nudged(h, s) = 0
    BY <1>2, NotWriting
  <2>2. Nudged(h, s)' \in {0, 1}
    BY DEF Nudged
  <2>3. s.child \in Children /\ Counted(s) \in Nat
    BY <1>1 DEF CountsOK
  <2>4. pokes[s.child] \in Nat /\ Inherited(s.child) \in {0, 1}
    BY <1>1, <2>3 DEF CountsOK
  <2>5. IF doc[s.child].made /\ s.born # doc[s.child].born
        THEN round[s.child] > 1 /\ pokes[s.child] <= Nudged(h, s)
        ELSE pokes[s.child] <= Counted(s) + Nudged(h, s) + spent.faults + Inherited(s.child)
    BY DEF PassCounts
  <2>6. CASE doc[s.child].made /\ s.born # doc[s.child].born
    <3>1. round[s.child] > 1 /\ pokes[s.child] <= Nudged(h, s)'
      BY <2>1, <2>2, <2>4, <2>5, <2>6
    <3> QED BY <2>6, <3>1
  <2>7. CASE ~(doc[s.child].made /\ s.born # doc[s.child].born)
    <3>1. pokes[s.child] <= Counted(s) + Nudged(h, s)' + spent'.faults + Inherited(s.child)
      BY <1>3, <2>1, <2>2, <2>3, <2>4, <2>5, <2>7
    <3> QED BY <2>7, <3>1
  <2> QED BY <2>6, <2>7
<1>6. PICK step, todo : Watch_(h, step, todo) /\ todo \subseteq watch[h].todo
  BY DEF WatchLook
<1>7. spent.faults <= spent'.faults
  BY <1>3
<1> QED BY <1>2, <1>4, <1>5, <1>6, <1>7, NudgesMove

\* A pass that is lost takes at most one nudge with it that was not counted yet.
LEMMA NudgesLost ==
  ASSUME TypeOK, TypeOK', DocCounts, PassCounts, NudgesBounded, NEW h \in Hosts,
         WatchFails(h) \/ Crash(h)
  PROVE  DocCounts' /\ PassCounts' /\ NudgesBounded'
<1>1. CountsOK /\ CountsOK' /\ SpentOK
  BY Numbers, NextNumbers, TypeParts
<1>2. UNCHANGED <<doc, pokes, round>> /\ Watch_(h, "idle", {})
  BY DEF WatchFails, Crash, Watch_, Idle
<1>3. spent.faults \in Nat /\ spent'.faults = spent.faults + 1
  BY <1>1 DEF WatchFails, Crash, Fault, SpentOK, CountsOK
<1>4. \A c \in Children : HostOf[c] = h =>
        Counting(c) + spent.faults <= Counting(c)' + spent'.faults
  <2>1. ASSUME NEW c \in Children
        PROVE  Counting(c) \in {0, 1} /\ Counting(c)' \in {0, 1}
    BY <1>1 DEF CountsOK
  <2> QED BY <1>3, <2>1
<1>5. spent.faults <= spent'.faults
  BY <1>3
<1> QED BY <1>2, <1>4, <1>5, NudgesMove

\* What a pass nudges by: never less than what its listing counts, and below the limit.
LEMMA NudgesBelow ==
  ASSUME NEW s \in Watchings
  PROVE  /\ Counted(s) <= Effective(s).nudges /\ Effective(s).nudges \in Nat
         /\ Nudges(s) => Counted(s) + 1 <= MaxNudges
<1>1. s.nudges \in 0..MaxNudges
  BY DEF Watchings
<1>2. Effective(s).nudges \in 0..MaxNudges
  BY EffectiveFacts
<1>3. Counted(s) <= Effective(s).nudges /\ Counted(s) \in Nat
  <2>1. CASE s.progress
    BY <1>1, <1>2, <2>1, Bounds DEF Counted
  <2>2. CASE ~s.progress
    BY <1>1, <2>2, EffectiveFacts, Bounds DEF Counted
  <2> QED BY <2>1, <2>2
<1>4. Nudges(s) => Effective(s).nudges < MaxNudges
  BY DEF Nudges
<1> QED BY <1>2, <1>3, <1>4, Bounds

LEMMA NudgesPublished ==
  ASSUME TypeOK, TypeOK', DocCounts, PassCounts, NudgesBounded, NEW h \in Hosts, WatchPublish(h)
  PROVE  DocCounts' /\ PassCounts' /\ NudgesBounded'
<1>0. PICK n : n = Now(watch[h])
  OBVIOUS
<1> DEFINE k == n.child
<1>1. CountsOK /\ CountsOK' /\ HistoryOK
  BY Numbers, NextNumbers, TypeParts
<1>2. /\ UNCHANGED <<doc, round, spent>> /\ watch[h].step = "publish"
      /\ Watch_(h, "write", watch[h].todo)
  BY DEF WatchPublish, At
<1>3. CASE ~Nudges(n)
  <2>1. UNCHANGED pokes
    BY <1>0, <1>3 DEF WatchPublish
  <2>2. spent.faults \in Nat /\ spent'.faults = spent.faults /\ spent.faults <= spent'.faults
    BY <1>1, <1>2 DEF CountsOK
  <2>3. \A c \in Children : HostOf[c] = h =>
          Counting(c) + spent.faults <= Counting(c)' + spent'.faults
    <3>1. ASSUME NEW c \in Children, HostOf[c] = h
          PROVE  Counting(c) = 0 /\ Counting(c)' \in {0, 1}
      BY <1>1, <1>2, <3>1, NotWriting DEF CountsOK
    <3> QED BY <2>2, <3>1
  <2>4. ASSUME NEW s \in watch[h].todo
        PROVE  IF doc[s.child].made /\ s.born # doc[s.child].born
               THEN round[s.child] > 1 /\ pokes[s.child] <= Nudged(h, s)'
               ELSE pokes[s.child] <= Counted(s) + Nudged(h, s)' + spent'.faults + Inherited(s.child)
    <3>1. Nudged(h, s) = 0
      BY <1>2, NotWriting
    <3>2. Nudged(h, s)' = 0
      <4>1. watch'[h].todo = watch[h].todo /\ watch'[h].step = "write"
        BY <1>2, OtherHosts
      <4>2. Now(watch[h])' = n
        BY <1>0, <4>1 DEF Now
      <4> QED BY <1>3, <4>2 DEF Nudged, Published
    <3>3. IF doc[s.child].made /\ s.born # doc[s.child].born
          THEN round[s.child] > 1 /\ pokes[s.child] <= Nudged(h, s)
          ELSE pokes[s.child] <= Counted(s) + Nudged(h, s) + spent.faults + Inherited(s.child)
      BY DEF PassCounts
    <3> QED BY <2>2, <3>1, <3>2, <3>3
  <2> QED BY <1>2, <2>1, <2>2, <2>3, <2>4, NudgesMove
<1>4. CASE Nudges(n)
  <2>1. n \in watch[h].todo /\ n \in Watchings /\ k \in Children /\ HostOf[k] = h
    BY <1>0, <1>1, <1>2 DEF CountsOK
  <2>2. pokes' = [pokes EXCEPT ![k] = @ + 1]
    BY <1>0, <1>4 DEF WatchPublish
  <2>3. /\ watch'[h].step = "write" /\ watch'[h].todo = watch[h].todo
        /\ \A g \in Hosts \ {h} : /\ watch'[g] = watch[g]
                                  /\ \A s : Nudged(g, s)' = Nudged(g, s)
    BY <1>2, OtherHosts
  <2>4. Now(watch[h])' = n
    BY <1>0, <2>3 DEF Now
  <2>5. Nudged(h, n)' = 1 /\ Nudged(h, n) = 0
    BY <1>2, <1>4, <2>3, <2>4, NotWriting DEF Nudged, Published
  <2> HIDE DEF k
  <2>6. /\ pokes'[k] = pokes[k] + 1
        /\ \A c \in Children \ {k} : pokes'[c] = pokes[c]
    BY <1>1, <2>1, <2>2 DEF HistoryOK
  <2>7. ASSUME NEW c \in Children
        PROVE  /\ pokes[c] \in Nat /\ Inherited(c) \in {0, 1} /\ Inherited(c)' = Inherited(c)
               /\ Counted(doc[c]) \in Nat
               /\ round[c] > 1 => Inherited(c) = 1
    BY <1>1, <1>2 DEF CountsOK, Inherited
  <2>8. spent.faults \in Nat /\ spent'.faults = spent.faults
    BY <1>1, <1>2 DEF CountsOK
  <2>9. Counted(n) \in Nat /\ Counted(n) + 1 <= MaxNudges
    BY <1>1, <1>4, <2>1, NudgesBelow DEF CountsOK
  \* The nudge is within the limit, whatever document it was read from.
  <2>10. /\ pokes[k] + 1 <= MaxNudges + spent.faults + Inherited(k)
         /\ (doc[k].made /\ n.born # doc[k].born) => round[k] > 1 /\ pokes[k] = 0
         /\ ~(doc[k].made /\ n.born # doc[k].born) =>
              pokes[k] <= Counted(n) + spent.faults + Inherited(k)
    <3>1. IF doc[k].made /\ n.born # doc[k].born
          THEN round[k] > 1 /\ pokes[k] <= Nudged(h, n)
          ELSE pokes[k] <= Counted(n) + Nudged(h, n) + spent.faults + Inherited(k)
      BY <2>1 DEF PassCounts, k
    <3>2. pokes[k] \in Nat /\ Inherited(k) \in {0, 1} /\ (round[k] > 1 => Inherited(k) = 1)
      BY <2>1, <2>7
    <3>3. CASE doc[k].made /\ n.born # doc[k].born
      <4>1. round[k] > 1 /\ pokes[k] = 0
        BY <2>5, <3>1, <3>2, <3>3
      <4> QED BY <2>8, <3>2, <3>3, <4>1, Bounds
    <3>4. CASE ~(doc[k].made /\ n.born # doc[k].born)
      <4>1. pokes[k] <= Counted(n) + spent.faults + Inherited(k)
        BY <2>5, <2>8, <2>9, <3>1, <3>2, <3>4
      <4> QED BY <2>8, <2>9, <3>2, <3>4, <4>1, Bounds
    <3> QED BY <3>3, <3>4
  <2>11. NudgesBounded'
    <3>1. ASSUME NEW c \in Children PROVE pokes'[c] <= MaxNudges + spent'.faults + Inherited(c)'
      <4>1. CASE c = k
        BY <2>6, <2>7, <2>8, <2>10, <4>1
      <4>2. CASE c # k
        BY <2>6, <2>7, <2>8, <4>2 DEF NudgesBounded
      <4> QED BY <4>1, <4>2
    <3> QED BY <3>1 DEF NudgesBounded
  <2>12. DocCounts'
    <3>1. ASSUME NEW c \in Children, doc'[c].made
          PROVE  pokes'[c] <= Counted(doc'[c]) + Counting(c)' + spent'.faults + Inherited(c)'
      <4>1. doc' = doc /\ doc[c].made /\ Counting(c)' \in {0, 1} /\ Counting(c) \in {0, 1}
        BY <1>1, <1>2, <3>1 DEF CountsOK
      <4>2. pokes[c] <= Counted(doc[c]) + Counting(c) + spent.faults + Inherited(c)
        BY <4>1 DEF DocCounts
      <4>3. HostOf[c] = h => Counting(c) = 0
        BY <1>2, NotWriting
      <4>4. HostOf[c] # h => Counting(c)' = Counting(c)
        BY <1>2, <2>3, Bounds DEF Counting
      <4>5. CASE c # k
        BY <2>6, <2>7, <2>8, <4>1, <4>2, <4>3, <4>4, <4>5
      <4>6. CASE c = k /\ n.born = doc[k].born
        <5>1. Counting(c)' = 1
          <6>1. HostOf[c] = h /\ n.child = c /\ n.born = doc'[c].born
            BY <2>1, <4>1, <4>6 DEF k
          <6> QED BY <2>3, <2>4, <2>5, <6>1 DEF Counting
        <5> QED BY <2>1, <2>6, <2>7, <2>8, <4>1, <4>2, <4>3, <4>6, <5>1
      <4>7. CASE c = k /\ n.born # doc[k].born
        <5>1. pokes[k] = 0 /\ Inherited(k) = 1
          BY <2>1, <2>7, <2>10, <4>1, <4>7
        <5> QED BY <2>6, <2>7, <2>8, <4>1, <4>7, <5>1
      <4> QED BY <4>5, <4>6, <4>7
    <3> QED BY <3>1 DEF DocCounts
  <2>13. PassCounts'
    <3>1. ASSUME NEW g \in Hosts, NEW s \in watch'[g].todo
          PROVE  IF doc'[s.child].made /\ s.born # doc'[s.child].born
                 THEN round'[s.child] > 1 /\ pokes'[s.child] <= Nudged(g, s)'
                 ELSE pokes'[s.child] <= Counted(s) + Nudged(g, s)' + spent'.faults + Inherited(s.child)'
      <4> DEFINE c == s.child
      <4>1. s \in watch[g].todo /\ doc' = doc /\ round' = round
        BY <1>2, <2>3
      <4>2. c \in Children /\ Counted(s) \in Nat /\ HostOf[c] = g
        BY <1>1, <4>1 DEF CountsOK
      <4>3. IF doc[c].made /\ s.born # doc[c].born
            THEN round[c] > 1 /\ pokes[c] <= Nudged(g, s)
            ELSE pokes[c] <= Counted(s) + Nudged(g, s) + spent.faults + Inherited(c)
        BY <4>1 DEF PassCounts
      <4>4. CASE s = n
        <5>1. g = h /\ c = k
          BY <2>1, <4>2, <4>4 DEF k
        <5>2. pokes[k] \in Nat /\ Inherited(k) \in {0, 1} /\ Inherited(k)' = Inherited(k)
          BY <2>1, <2>7
        <5>3. CASE doc[k].made /\ n.born # doc[k].born
          <6>1. round'[k] > 1 /\ pokes'[k] <= Nudged(h, n)'
            BY <2>5, <2>6, <2>10, <4>1, <5>3
          <6> QED BY <4>1, <4>4, <5>1, <5>3, <6>1
        <5>4. CASE ~(doc[k].made /\ n.born # doc[k].born)
          <6>1. pokes'[k] <= Counted(n) + Nudged(h, n)' + spent'.faults + Inherited(k)'
            BY <2>5, <2>6, <2>8, <2>9, <2>10, <5>2, <5>4
          <6> QED BY <4>1, <4>4, <5>1, <5>4, <6>1
        <5> QED BY <5>3, <5>4
      <4>5. CASE s # n
        <5>1. c # k
          BY <1>1, <2>1, <4>1, <4>2, <4>5 DEF CountsOK, k
        <5>2. Nudged(g, s)' = Nudged(g, s)
          <6>1. CASE g = h
            BY <1>2, <2>3, <2>4, <4>5, <6>1, NotWriting DEF Nudged, Published
          <6> QED BY <2>3, <6>1
        <5> QED BY <2>6, <2>7, <2>8, <4>1, <4>2, <4>3, <5>1, <5>2
      <4> QED BY <4>4, <4>5
    <3> QED BY <3>1 DEF PassCounts
  <2> QED BY <2>11, <2>12, <2>13
<1> QED BY <1>3, <1>4

\* The write counts the nudge in the document that it was read from, if that is
\* still there, and the pass goes on with other children.
LEMMA NudgesWritten ==
  ASSUME TypeOK, TypeOK', DocCounts, PassCounts, NudgesBounded, NEW h \in Hosts, WatchWrite(h)
  PROVE  DocCounts' /\ PassCounts' /\ NudgesBounded'
<1>0. PICK n : n = Now(watch[h])
  OBVIOUS
<1> DEFINE k == n.child
           rest == watch[h].todo \ {n}
<1>1. CountsOK /\ CountsOK' /\ DocsOK
  BY Numbers, NextNumbers, TypeParts
<1>2. /\ UNCHANGED <<pokes, round, spent>> /\ watch[h].step = "write"
      /\ Watch_(h, Next_Child(rest), rest)
      /\ doc' = IF doc[k].made /\ doc[k].born = n.born
                THEN [doc EXCEPT ![k] = Written(n, @)] ELSE doc
  BY <1>0 DEF WatchWrite, At
<1>3. n \in watch[h].todo /\ n \in Watchings /\ k \in Children /\ k \in Sessions /\ HostOf[k] = h
  BY <1>0, <1>1, <1>2, Bounds DEF CountsOK
<1>4. /\ watch'[h].step # "write" /\ watch'[h].todo = rest
      /\ \A g \in Hosts \ {h} : /\ watch'[g] = watch[g]
                                /\ \A s : Nudged(g, s)' = Nudged(g, s)
  BY <1>2, OtherHosts DEF Next_Child
<1>5. \A s : Nudged(h, s)' = 0
  BY <1>4 DEF Nudged, Published
<1>6. \A s \in rest : Nudged(h, s) = 0
  BY <1>0 DEF Nudged, Published
<1> HIDE DEF k, rest
<1>7. \A c \in Children : HostOf[c] = h => Counting(c)' = 0
  BY <1>4 DEF Counting
<1>8. ASSUME NEW c \in Children, c # k
      PROVE  /\ doc'[c] = doc[c]
             /\ HostOf[c] = h => Counting(c) = 0
             /\ HostOf[c] # h => Counting(c)' = Counting(c)
  <2>1. doc'[c] = doc[c]
    BY <1>1, <1>2, <1>3, <1>8 DEF DocsOK
  <2>2. HostOf[c] = h => Counting(c) = 0
    BY <1>0, <1>8 DEF Counting, k
  <2>3. HostOf[c] # h => Counting(c)' = Counting(c)
    BY <1>4, <2>1, Bounds DEF Counting
  <2> QED BY <2>1, <2>2, <2>3
<1>9. NudgesBounded'
  BY <1>2 DEF NudgesBounded, Inherited
<1>10. DocCounts'
  <2>1. ASSUME NEW c \in Children, doc'[c].made
        PROVE  pokes'[c] <= Counted(doc'[c]) + Counting(c)' + spent'.faults + Inherited(c)'
    <3>1. /\ pokes'[c] = pokes[c] /\ spent'.faults = spent.faults /\ Inherited(c)' = Inherited(c)
      BY <1>2 DEF Inherited
    <3>2. /\ pokes[c] \in Nat /\ spent.faults \in Nat /\ Inherited(c) \in {0, 1}
          /\ Counted(doc[c]) \in Nat /\ Counting(c) \in {0, 1}
      BY <1>1 DEF CountsOK
    <3>3. CASE c # k
      <4>1. doc[c].made /\ Counted(doc'[c]) = Counted(doc[c]) /\ Counting(c)' = Counting(c)
        BY <1>7, <1>8, <2>1, <3>3
      <4> QED BY <3>1, <4>1 DEF DocCounts
    <3>4. CASE c = k /\ doc[k].made /\ doc[k].born = n.born
      <4>1. pokes[k] <= Counted(n) + Nudged(h, n) + spent.faults + Inherited(k)
        BY <1>3, <3>4 DEF PassCounts, k
      <4>2. doc'[k] = Written(n, doc[k])
        BY <1>1, <1>2, <1>3, <3>4 DEF DocsOK
      <4>3. doc[k] \in Document
        BY <1>1, <1>3 DEF DocsOK
      <4>4. Counted(doc'[k]) = IF Nudges(n) THEN Effective(n).nudges + 1 ELSE Effective(n).nudges
        BY <1>3, <4>2, <4>3, WrittenFacts DEF Counted
      <4>5. Nudged(h, n) = IF Nudges(n) THEN 1 ELSE 0
        BY <1>0, <1>2 DEF Nudged, Published
      <4>6. Counted(n) <= Effective(n).nudges /\ Effective(n).nudges \in Nat /\ Counted(n) \in Nat
        BY <1>1, <1>3, NudgesBelow DEF CountsOK
      <4>7. Counting(k)' = 0
        BY <1>3, <1>7
      <4>8. Counted(n) + Nudged(h, n) <= Counted(doc'[k])
        BY <4>4, <4>5, <4>6
      <4>9. Counted(doc'[k]) \in Nat /\ Nudged(h, n) \in {0, 1}
        BY <4>4, <4>5, <4>6
      <4> QED BY <3>1, <3>2, <3>4, <4>1, <4>6, <4>7, <4>8, <4>9
    <3>5. CASE c = k /\ ~(doc[k].made /\ doc[k].born = n.born)
      <4>1. doc' = doc /\ doc[k].made /\ doc[k].born # n.born
        BY <1>2, <2>1, <3>5
      <4>2. Counting(k) = 0 /\ Counting(k)' = 0
        BY <1>0, <1>2, <1>3, <1>7, <4>1 DEF Counting, k
      <4> QED BY <3>1, <3>5, <4>1, <4>2 DEF DocCounts
    <3> QED BY <3>3, <3>4, <3>5
  <2> QED BY <2>1 DEF DocCounts
<1>11. PassCounts'
  <2>1. ASSUME NEW g \in Hosts, NEW s \in watch'[g].todo
        PROVE  IF doc'[s.child].made /\ s.born # doc'[s.child].born
               THEN round'[s.child] > 1 /\ pokes'[s.child] <= Nudged(g, s)'
               ELSE pokes'[s.child] <= Counted(s) + Nudged(g, s)' + spent'.faults + Inherited(s.child)'
    <3> DEFINE c == s.child
    <3>1. s \in watch[g].todo /\ s # n
      <4>1. CASE g = h
        BY <1>4, <4>1 DEF rest
      <4>2. CASE g # h
        <5>1. s \in watch[g].todo
          BY <1>4, <4>2
        <5>2. HostOf[s.child] = g
          BY <1>1, <5>1 DEF CountsOK
        <5> QED BY <1>3, <4>2, <5>1, <5>2 DEF k
      <4> QED BY <4>1, <4>2
    <3>2. c \in Children /\ HostOf[c] = g
      BY <1>1, <3>1 DEF CountsOK
    <3>3. c # k
      BY <1>1, <1>3, <3>1, <3>2 DEF CountsOK, k
    <3>4. Nudged(g, s)' = Nudged(g, s)
      <4>1. CASE g = h
        BY <1>5, <1>6, <3>1, <4>1 DEF rest
      <4> QED BY <1>4, <4>1
    <3>5. doc'[c] = doc[c] /\ pokes' = pokes /\ round' = round /\ spent' = spent
          /\ Inherited(c)' = Inherited(c)
      BY <1>2, <1>8, <3>2, <3>3 DEF Inherited
    <3> QED BY <3>1, <3>4, <3>5 DEF PassCounts
  <2> QED BY <2>1 DEF PassCounts
<1> QED BY <1>9, <1>10, <1>11

LEMMA FaultsGrow ==
  ASSUME TypeOK, UNCHANGED spent \/ Request \/ Fault \/ \E n \in Nat : spent' = [spent EXCEPT !.stalls = n]
  PROVE  spent.faults <= spent'.faults
<1>1. spent \in [requests : 0..MaxRequests, stalls : 0..MaxStalls, faults : 0..MaxFaults]
  BY TypeParts DEF SpentOK
<1>2. spent.faults \in Nat
  BY <1>1, Bounds
<1>3. spent'.faults = spent.faults \/ spent'.faults = spent.faults + 1
  BY <1>1 DEF Request, Fault
<1> QED BY <1>2, <1>3

\* The steps outside of both passes: of the counts they change what DocsStay says.
Outside == \/ User \/ Agents \/ Time
           \/ \E s \in Sessions : Discover(s)
           \/ \E c \in Children : DiscoverLate(c)
           \/ \E h \in Hosts : \/ Stop(h) \/ Input(h) \/ Expire(h) \/ Restart(h)
                               \/ Create(h) /\ ~Gone(Cmd(h).to)

LEMMA OutsideStays ==
  ASSUME TypeOK, Outside
  PROVE  /\ DocsStay /\ spent.faults <= spent'.faults
         /\ UNCHANGED <<notify, watch, round>>
         /\ \A c \in Children : sent'[c].notices = sent[c].notices
<1>0. sent \in [Children -> [notices : Nat, dropped : BOOLEAN, own : BOOLEAN]]
  BY TypeParts DEF HistoryOK
<1>1. ASSUME NEW c \in Children, Stall(c) PROVE spent.faults <= spent'.faults
  <2>1. spent.stalls + 1 \in Nat /\ spent' = [spent EXCEPT !.stalls = spent.stalls + 1]
    BY <1>1, TypeParts, Bounds DEF SpentOK, Stall
  <2> QED BY <2>1, FaultsGrow
<1>2. CASE User
  <2>1. /\ Request /\ UNCHANGED <<notify, watch, round, sent>>
    BY <1>2 DEF User, Delegate, Kill, Purge
  <2> QED BY <1>2, <2>1, StayUser, FaultsGrow
<1>3. CASE Agents
  <2>1. UNCHANGED <<notify, watch, round>>
    BY <1>3 DEF Agents, Stall, Work, Quit, WriteHandoff, TellParent
  <2>2. \A c \in Children : sent'[c].notices = sent[c].notices
    <3>1. ASSUME NEW c \in Children, TellParent(c)
          PROVE  \A x \in Children : sent'[x].notices = sent[x].notices
      BY <1>0, <3>1 DEF TellParent
    <3> QED BY <1>3, <3>1 DEF Agents, Stall, Work, Quit, WriteHandoff
  <2>3. spent.faults <= spent'.faults
    BY <1>1, <1>3, FaultsGrow DEF Agents, Work, Quit, WriteHandoff, TellParent
  <2> QED BY <1>3, <2>1, <2>2, <2>3, StayUser
<1>4. CASE Time
  <2>1. UNCHANGED <<notify, watch, round, sent, spent>>
    BY <1>4 DEF Time, Ripen, Age, Cool
  <2> QED BY <1>4, <2>1, StayUser, FaultsGrow
<1>5. ASSUME NEW s \in Sessions, Discover(s) \/ (s \in Children /\ DiscoverLate(s))
      PROVE  DocsStay /\ UNCHANGED <<notify, watch, round, sent, spent>>
  BY <1>5, StayDiscover DEF Discover, DiscoverLate
<1>6. ASSUME NEW h \in Hosts,
             Stop(h) \/ Input(h) \/ Expire(h) \/ Restart(h) \/ (Create(h) /\ ~Gone(Cmd(h).to))
      PROVE  /\ DocsStay /\ UNCHANGED <<notify, watch, round, sent>>
             /\ UNCHANGED spent \/ Fault
  <2>1. DocsStay
    BY <1>6, StayConsumer, StayRestart
  <2> QED BY <1>6, <2>1 DEF Stop, Input, Expire, Restart, Create
<1>7. ASSUME NEW s \in Sessions, Discover(s)
      PROVE  DocsStay /\ UNCHANGED <<notify, watch, round, sent, spent>>
  BY <1>5, <1>7
<1>8. ASSUME NEW c \in Children, DiscoverLate(c)
      PROVE  DocsStay /\ UNCHANGED <<notify, watch, round, sent, spent>>
  BY <1>5, <1>8, Bounds
<1> QED BY <1>2, <1>3, <1>4, <1>6, <1>7, <1>8, FaultsGrow DEF Outside

\* What there is else.
LEMMA StepCases ==
  ASSUME [Next]_vars
  PROVE  \/ UNCHANGED vars \/ Outside
         \/ \E h \in Hosts : \/ Create(h) /\ Gone(Cmd(h).to)
                             \/ Notify(h) \/ NotifyFails(h) \/ Watchdog(h) \/ WatchFails(h)
                             \/ Crash(h)
BY DEF Next, Outside, Handle

\* The notices leave the counts of nudges alone.
LEMMA NotifyKeepsCounts ==
  ASSUME TypeOK, NEW h \in Hosts, Notify(h) \/ NotifyFails(h)
  PROVE  CountsStay /\ UNCHANGED <<watch, round>> /\ spent.faults <= spent'.faults
<1>1. doc \in [Sessions -> Document] /\ NotifyOK
  BY TypeParts DEF DocsOK
<1>2. UNCHANGED <<watch, round, pokes>>
  BY DEF Notify, NotifyList, NotifyLook, NotifyPublish, NotifyMark, NotifyFails
<1>3. UNCHANGED spent \/ Fault
  BY DEF Notify, NotifyList, NotifyLook, NotifyPublish, NotifyMark, NotifyFails
<1>4. UNCHANGED doc \/ \E s : /\ s \in Sessions /\ doc' = [doc EXCEPT ![s] = Marked(@)]
  <2>1. CASE NotifyMark(h)
    <3>1. Now(notify[h]) \in notify[h].todo
      BY <1>1, <2>1, NowListed DEF NotifyMark, At, NotifyOK, PassTyped
    <3>2. Now(notify[h]).child \in Sessions
      BY <1>1, <3>1, Bounds DEF NotifyOK, PassTyped, Listings
    <3> QED BY <2>1, <3>2 DEF NotifyMark
  <2>2. CASE ~NotifyMark(h)
    BY <2>2 DEF Notify, NotifyList, NotifyLook, NotifyPublish, NotifyFails
  <2> QED BY <2>1, <2>2
<1>5. ASSUME NEW c \in Children
      PROVE  /\ doc'[c].made = doc[c].made /\ doc'[c].born = doc[c].born
             /\ doc'[c].nudges = doc[c].nudges /\ doc'[c].progress = doc[c].progress
  <2>1. doc[c] \in Document
    BY <1>1, Bounds
  <2>2. doc'[c] = doc[c] \/ doc'[c] = Marked(doc[c])
    BY <1>1, <1>4, Bounds
  <2> QED BY <2>1, <2>2 DEF Marked, Document
<1> QED BY <1>2, <1>3, <1>5, FaultsGrow DEF CountsStay

LEMMA NudgesStep ==
  TypeOK /\ TypeOK' /\ DocCounts /\ PassCounts /\ NudgesBounded /\ [Next]_vars
  => DocCounts' /\ PassCounts' /\ NudgesBounded'
<1> SUFFICES ASSUME TypeOK, TypeOK', DocCounts, PassCounts, NudgesBounded, [Next]_vars
             PROVE  DocCounts' /\ PassCounts' /\ NudgesBounded'
  OBVIOUS
<1>1. CASE UNCHANGED vars
  <2>1. CountsStay
    BY <1>1, SameDocs, DocsStayBoth DEF vars
  <2>2. UNCHANGED <<watch, round, spent>>
    BY <1>1 DEF vars
  <2> QED BY <2>1, <2>2, NudgesStay, FaultsGrow
<1>2. CASE Outside
  BY <1>2, OutsideStays, DocsStayBoth, NudgesStay
<1>3. ASSUME NEW h \in Hosts, Create(h) /\ Gone(Cmd(h).to)
      PROVE  DocCounts' /\ PassCounts' /\ NudgesBounded'
  BY <1>3, NudgesCreate
<1>4. ASSUME NEW h \in Hosts, Notify(h) \/ NotifyFails(h)
      PROVE  DocCounts' /\ PassCounts' /\ NudgesBounded'
  BY <1>4, NotifyKeepsCounts, NudgesStay
<1>5. ASSUME NEW h \in Hosts, Watchdog(h) \/ WatchFails(h) \/ Crash(h)
      PROVE  DocCounts' /\ PassCounts' /\ NudgesBounded'
  BY <1>5, NudgesListed, NudgesLook, NudgesPublished, NudgesWritten, NudgesLost DEF Watchdog
<1> QED BY <1>1, <1>2, <1>3, <1>4, <1>5, StepCases

----------------------------------------------------------------------------
(* Notices. *)

NoticesInv == ListedUnmarked /\ NoticesCounted

\* What handoff_notify has listed is of its host, each child once, of rounds that were.
LEMMA NotifyFacts ==
  ASSUME TypeOK, NEW h \in Hosts
  PROVE  /\ \A s \in notify[h].todo :
              /\ s \in Listings /\ s.child \in Children /\ s.child \in Sessions
              /\ HostOf[s.child] = h /\ s.born \in 1..round[s.child]
              /\ \A t \in notify[h].todo : s.child = t.child => s = t
         /\ notify[h].step # "idle" => Now(notify[h]) \in notify[h].todo
<1>1. PassIs(notify, round) /\ notify[h] \in [step : NotifySteps, todo : SUBSET Listings]
  BY TypeParts DEF NotifyOK, PassTyped
<1>2. notify[h].step # "idle" => Now(notify[h]) \in notify[h].todo
  BY <1>1, NowListed
<1> QED BY <1>1, <1>2, Bounds DEF PassIs, Listings

\* Where handoff_notify of a host is in its pass matters to the children of that host.
LEMMA OtherNotify ==
  ASSUME TypeOK, NEW h \in Hosts, NEW step, NEW todo, Pass(h, step, todo)
  PROVE  /\ notify'[h].step = step /\ notify'[h].todo = todo
         /\ \A g \in Hosts \ {h} : notify'[g] = notify[g]
<1>1. notify \in [Hosts -> [step : NotifySteps, todo : SUBSET Listings]]
  BY TypeParts DEF NotifyOK, PassTyped
<1>2. notify'[h] = [step |-> step, todo |-> todo] /\ \A g \in Hosts \ {h} : notify'[g] = notify[g]
  BY <1>1 DEF Pass
<1> QED BY <1>2

LEMMA SentNumbers ==
  ASSUME CountsOK, CountsOK', NEW c \in Children
  PROVE  /\ sent[c].notices \in Nat /\ sent'[c].notices \in Nat
         /\ spent.faults \in Nat /\ spent'.faults \in Nat
BY DEF CountsOK

\* A step that leaves handoff_notify alone keeps the bound.
LEMMA NoticesStay ==
  ASSUME TypeOK, TypeOK', NoticesInv, UNCHANGED notify, MarksStay,
         spent.faults <= spent'.faults,
         \A c \in Children : sent'[c].notices = sent[c].notices
  PROVE  NoticesInv'
<1>1. CountsOK /\ CountsOK'
  BY Numbers, NextNumbers
<1>2. ListedUnmarked'
  <2>1. ASSUME NEW h \in Hosts, NEW s \in notify'[h].todo, doc'[s.child].born = s.born
        PROVE  ~doc'[s.child].notified
    <3>1. s \in notify[h].todo /\ s.child \in Children /\ s.born > 0
      BY NotifyFacts
    <3>2. doc'[s.child].made
      BY <1>1, <2>1, <3>1 DEF CountsOK
    <3>3. doc[s.child].born = s.born /\ doc'[s.child].notified = doc[s.child].notified
      BY <2>1, <3>1, <3>2 DEF MarksStay
    <3> QED BY <3>1, <3>3 DEF NoticesInv, ListedUnmarked
  <2> QED BY <2>1 DEF ListedUnmarked
<1>3. NoticesCounted'
  <2>1. ASSUME NEW c \in Children
        PROVE  sent'[c].notices <= spent'.faults + (IF Untold(c)' THEN 0 ELSE 1)
    <3>1. Untold(c)' => Untold(c)
      <4>1. ASSUME doc'[c].made, ~doc'[c].notified, ~Marking(c)'
            PROVE  doc[c].made /\ ~doc[c].notified /\ ~Marking(c)
        <5>1. doc'[c].made = doc[c].made /\ doc'[c].born = doc[c].born
              /\ doc'[c].notified = doc[c].notified
          BY <4>1 DEF MarksStay
        <5> QED BY <4>1, <5>1 DEF Marking
      <4> QED BY <4>1 DEF Untold
    <3>2. sent[c].notices <= spent.faults + (IF Untold(c) THEN 0 ELSE 1)
      BY DEF NoticesInv, NoticesCounted
    <3>3. sent'[c].notices = sent[c].notices
      OBVIOUS
    <3> QED BY <1>1, <3>1, <3>2, <3>3, SentNumbers
  <2> QED BY <2>1 DEF NoticesCounted
<1> QED BY <1>2, <1>3 DEF NoticesInv

LEMMA NoticesCreate ==
  ASSUME TypeOK, TypeOK', NoticesInv, NEW h \in Hosts, Create(h), Gone(Cmd(h).to)
  PROVE  NoticesInv'
<1> DEFINE n == Cmd(h).to
<1>1. CountsOK /\ CountsOK'
  BY Numbers, NextNumbers
<1>2. DocsOK /\ RoundsOK /\ HistoryOK /\ QueuesOK /\ queue[h] # <<>> /\ Cmd(h).type = "create"
  BY TypeParts DEF Create, Taking
<1>3. n \in Children /\ n \in Sessions
  BY <1>2, HeadFacts
<1>4. /\ doc' = [doc EXCEPT ![n] = Upserted(n)]
      /\ sent' = [sent EXCEPT ![n] = [notices |-> 0, dropped |-> FALSE, own |-> FALSE]]
      /\ UNCHANGED <<notify, spent>>
  BY DEF Create
<1> HIDE DEF n
<1>5. doc'[n] = Upserted(n) /\ sent'[n].notices = 0
  BY <1>2, <1>3, <1>4 DEF DocsOK, HistoryOK
<1>6. ASSUME NEW c \in Children, c # n
      PROVE  doc'[c] = doc[c] /\ sent'[c] = sent[c]
  BY <1>2, <1>4, <1>6, Bounds DEF DocsOK, HistoryOK
<1>7. ListedUnmarked'
  <2>1. ASSUME NEW g \in Hosts, NEW s \in notify'[g].todo, doc'[s.child].born = s.born
        PROVE  ~doc'[s.child].notified
    <3>1. s \in notify[g].todo /\ s.child \in Children /\ s.born \in 1..round[s.child]
          /\ round[s.child] \in Nat
      BY <1>2, <1>4, NotifyFacts DEF RoundsOK
    <3>2. CASE s.child = n /\ doc[n].made
      BY <1>2, <1>3, <1>5, <2>1, <3>1, <3>2, UpsertedType DEF NoticesInv, ListedUnmarked
    <3>3. CASE s.child = n /\ ~doc[n].made
      BY <1>2, <1>3, <1>5, <3>3, UpsertedType
    <3>4. CASE s.child # n
      BY <1>6, <2>1, <3>1, <3>4 DEF NoticesInv, ListedUnmarked
    <3> QED BY <3>2, <3>3, <3>4
  <2> QED BY <2>1 DEF ListedUnmarked
<1>8. NoticesCounted'
  <2>1. ASSUME NEW c \in Children
        PROVE  sent'[c].notices <= spent'.faults + (IF Untold(c)' THEN 0 ELSE 1)
    <3>1. CASE c = n
      <4>1. sent'[c].notices = 0 /\ spent'.faults \in Nat
        BY <1>1, <1>5, <3>1 DEF CountsOK
      <4> QED BY <4>1
    <3>2. CASE c # n
      <4>1. Untold(c)' = Untold(c)
        BY <1>4, <1>6, <3>2 DEF Untold, Marking
      <4> QED BY <1>4, <1>6, <3>2, <4>1 DEF NoticesInv, NoticesCounted
    <3> QED BY <3>1, <3>2
  <2> QED BY <2>1 DEF NoticesCounted
<1> QED BY <1>7, <1>8 DEF NoticesInv

\* handoff_notify goes on with what it listed, or lists what is unmarked, and no
\* document changes.
LEMMA NoticesMove ==
  ASSUME TypeOK, TypeOK', NoticesInv, UNCHANGED doc,
         NEW h \in Hosts, NEW step, NEW todo, Pass(h, step, todo),
         \A s \in todo : doc[s.child].born = s.born => ~doc[s.child].notified,
         spent.faults <= spent'.faults,
         \A c \in Children : HostOf[c] # h => sent'[c].notices = sent[c].notices,
         \A c \in Children : HostOf[c] = h =>
           sent'[c].notices <= spent'.faults + (IF Untold(c)' THEN 0 ELSE 1)
  PROVE  NoticesInv'
<1>1. CountsOK /\ CountsOK'
  BY Numbers, NextNumbers
<1>2. /\ notify'[h].step = step /\ notify'[h].todo = todo
      /\ \A g \in Hosts \ {h} : notify'[g] = notify[g]
  BY OtherNotify
<1>3. ListedUnmarked'
  <2>1. ASSUME NEW g \in Hosts, NEW s \in notify'[g].todo, doc'[s.child].born = s.born
        PROVE  ~doc'[s.child].notified
    <3>1. CASE g = h
      BY <1>2, <2>1, <3>1
    <3>2. CASE g # h
      BY <1>2, <2>1, <3>2 DEF NoticesInv, ListedUnmarked
    <3> QED BY <3>1, <3>2
  <2> QED BY <2>1 DEF ListedUnmarked
<1>4. NoticesCounted'
  <2>1. ASSUME NEW c \in Children
        PROVE  sent'[c].notices <= spent'.faults + (IF Untold(c)' THEN 0 ELSE 1)
    <3>1. CASE HostOf[c] # h
      <4>1. Untold(c)' = Untold(c)
        BY <1>2, <3>1, Bounds DEF Untold, Marking
      <4>2. sent[c].notices <= spent.faults + (IF Untold(c) THEN 0 ELSE 1)
        BY DEF NoticesInv, NoticesCounted
      <4>3. sent'[c].notices = sent[c].notices
        BY <3>1
      <4> QED BY <1>1, <4>1, <4>2, <4>3, SentNumbers
    <3> QED BY <3>1
  <2> QED BY <2>1 DEF NoticesCounted
<1> QED BY <1>3, <1>4 DEF NoticesInv

LEMMA NoticesPass ==
  ASSUME TypeOK, TypeOK', NoticesInv, NEW h \in Hosts,
         NotifyList(h) \/ NotifyLook(h) \/ NotifyPublish(h) \/ NotifyFails(h) \/ Crash(h)
  PROVE  NoticesInv'
<1>0. PICK n : n = Now(notify[h])
  OBVIOUS
<1>1. CountsOK /\ CountsOK' /\ HistoryOK /\ SpentOK
  BY Numbers, NextNumbers, TypeParts
<1>2. UNCHANGED doc
  BY DEF NotifyList, NotifyLook, NotifyPublish, NotifyFails, Crash
<1>3. ASSUME NEW c \in Children
      PROVE  sent[c].notices <= spent.faults + (IF Untold(c) THEN 0 ELSE 1)
  BY DEF NoticesInv, NoticesCounted
<1>4. \A s \in notify[h].todo : doc[s.child].born = s.born => ~doc[s.child].notified
  BY DEF NoticesInv, ListedUnmarked
<1>5. CASE NotifyList(h)
  <2> DEFINE todo == {Listed(c) : c \in Ripe(h)}
  <2>1. Pass(h, "look", todo) /\ UNCHANGED <<sent, spent>> /\ notify[h].step = "idle"
    BY <1>5 DEF NotifyList, At
  <2>2. \A s \in todo : doc[s.child].born = s.born => ~doc[s.child].notified
    BY DEF Ripe, Unnotified, Listed
  <2> HIDE DEF todo
  <2>3. \A c \in Children : HostOf[c] = h => ~Marking(c) /\ ~Marking(c)'
    BY <2>1, OtherNotify DEF Marking
  <2>4. \A c \in Children : HostOf[c] = h => Untold(c)' = Untold(c)
    BY <1>2, <2>3 DEF Untold
  <2>5. \A c \in Children : HostOf[c] = h =>
          sent'[c].notices <= spent'.faults + (IF Untold(c)' THEN 0 ELSE 1)
    BY <1>3, <2>1, <2>4
  <2>6. spent.faults <= spent'.faults
    BY <2>1, FaultsGrow
  <2> QED BY <1>2, <2>1, <2>2, <2>5, <2>6, NoticesMove
<1>6. CASE NotifyLook(h)
  <2>1. PICK step, todo : Pass(h, step, todo) /\ todo \subseteq notify[h].todo
    BY <1>6 DEF NotifyLook
  <2>2. notify[h].step = "look" /\ UNCHANGED spent
    BY <1>6 DEF NotifyLook, At
  <2>3. \A c \in Children : sent'[c].notices = sent[c].notices
    BY <1>1, <1>6 DEF NotifyLook, HistoryOK
  <2>4. ASSUME NEW c \in Children, HostOf[c] = h
        PROVE  sent'[c].notices <= spent'.faults + (IF Untold(c)' THEN 0 ELSE 1)
    <3>1. ~Marking(c)
      BY <2>2, <2>4 DEF Marking
    <3>2. Untold(c)' => Untold(c)
      BY <1>2, <3>1 DEF Untold
    <3>3. sent'[c].notices = sent[c].notices /\ spent'.faults = spent.faults
      BY <2>2, <2>3
    <3> QED BY <1>1, <1>3, <3>2, <3>3, SentNumbers
  <2>5. spent.faults <= spent'.faults
    BY <2>2, FaultsGrow
  <2> QED BY <1>2, <1>4, <2>1, <2>3, <2>4, <2>5, NoticesMove
<1>7. CASE NotifyPublish(h)
  <2>1. /\ notify[h].step = "publish" /\ UNCHANGED spent /\ Pass(h, "mark", notify[h].todo)
        /\ sent' = IF n.born = doc[n.child].born
                   THEN [sent EXCEPT ![n.child].notices = @ + 1] ELSE sent
    BY <1>0, <1>7 DEF NotifyPublish, At
  <2>2. n \in notify[h].todo /\ n.child \in Children /\ HostOf[n.child] = h /\ n.born > 0
    BY <1>0, <2>1, NotifyFacts
  <2>3. notify'[h].step = "mark" /\ Now(notify[h])' = n
    BY <1>0, <2>1, OtherNotify DEF Now
  <2>4. ASSUME NEW c \in Children, HostOf[c] = h
        PROVE  sent'[c].notices <= spent'.faults + (IF Untold(c)' THEN 0 ELSE 1)
    <3>1. ~Marking(c) /\ (Marking(c)' <=> n.child = c /\ n.born = doc[c].born)
      BY <1>2, <2>1, <2>3, <2>4 DEF Marking
    <3>2. CASE n.child = c /\ n.born = doc[c].born
      <4>1. Untold(c)
        BY <1>1, <1>4, <2>2, <3>1, <3>2 DEF Untold, CountsOK
      <4>2. ~Untold(c)'
        BY <3>1, <3>2 DEF Untold
      <4>3. sent'[c].notices = sent[c].notices + 1
        BY <1>1, <2>1, <3>2 DEF HistoryOK
      <4> QED BY <1>1, <1>3, <2>1, <4>1, <4>2, <4>3, SentNumbers
    <3>3. CASE ~(n.child = c /\ n.born = doc[c].born)
      <4>1. Untold(c)' = Untold(c)
        BY <1>2, <3>1, <3>3 DEF Untold
      <4>2. sent'[c].notices = sent[c].notices
        BY <1>1, <2>1, <2>2, <3>3 DEF HistoryOK
      <4> QED BY <1>3, <2>1, <4>1, <4>2
    <3> QED BY <3>2, <3>3
  <2>5. ASSUME NEW c \in Children, HostOf[c] # h PROVE sent'[c].notices = sent[c].notices
    BY <1>1, <2>1, <2>2, <2>5 DEF HistoryOK
  <2>6. spent.faults <= spent'.faults
    BY <2>1, FaultsGrow
  <2> QED BY <1>2, <1>4, <2>1, <2>4, <2>5, <2>6, NoticesMove
<1>8. CASE NotifyFails(h) \/ Crash(h)
  <2>1. Pass(h, "idle", {}) /\ UNCHANGED sent
    BY <1>8 DEF NotifyFails, Crash, Pass, Idle, AfterFailure
  <2>2. spent'.faults = spent.faults + 1 /\ spent.faults \in Nat
    BY <1>1, <1>8 DEF NotifyFails, Crash, Fault, SpentOK, CountsOK
  <2>3. ASSUME NEW c \in Children
        PROVE  sent'[c].notices <= spent'.faults + (IF Untold(c)' THEN 0 ELSE 1)
    BY <1>1, <1>3, <2>1, <2>2, SentNumbers
  <2>4. spent.faults <= spent'.faults
    BY <2>2
  <2> QED BY <1>2, <2>1, <2>3, <2>4, NoticesMove
<1> QED BY <1>5, <1>6, <1>7, <1>8

\* The mark: from here on the document says that the parent was told.
LEMMA NoticesMarked ==
  ASSUME TypeOK, TypeOK', NoticesInv, NEW h \in Hosts, NotifyMark(h)
  PROVE  NoticesInv'
<1>0. PICK n : n = Now(notify[h])
  OBVIOUS
<1> DEFINE k == n.child
           rest == notify[h].todo \ {n}
<1>1. CountsOK /\ CountsOK' /\ DocsOK
  BY Numbers, NextNumbers, TypeParts
<1>2. /\ UNCHANGED <<sent, spent>> /\ notify[h].step = "mark" /\ Pass(h, Next_Child(rest), rest)
      /\ doc' = IF doc[k].made /\ doc[k].born = n.born
                THEN [doc EXCEPT ![k] = Marked(@)] ELSE doc
  BY <1>0 DEF NotifyMark, At
<1>3. n \in notify[h].todo /\ k \in Children /\ k \in Sessions /\ HostOf[k] = h
  BY <1>0, <1>2, NotifyFacts
<1>4. /\ notify'[h].step # "mark" /\ notify'[h].todo = rest
      /\ \A g \in Hosts \ {h} : notify'[g] = notify[g]
  BY <1>2, OtherNotify DEF Next_Child
<1>5. \A s \in rest : s.child # k /\ s.child \in Children
  BY <1>3, NotifyFacts
<1> HIDE DEF k, rest
<1>6. ASSUME NEW c \in Children, c # k PROVE doc'[c] = doc[c]
  BY <1>1, <1>2, <1>6, Bounds DEF DocsOK
<1>7. ListedUnmarked'
  <2>1. ASSUME NEW g \in Hosts, NEW s \in notify'[g].todo, doc'[s.child].born = s.born
        PROVE  ~doc'[s.child].notified
    <3>1. s \in notify[g].todo /\ s.child \in Children /\ s.child # k
      <4>1. CASE g = h
        BY <1>4, <1>5, <4>1 DEF rest
      <4>2. CASE g # h
        BY <1>3, <1>4, <4>2, NotifyFacts
      <4> QED BY <4>1, <4>2
    <3> QED BY <1>6, <2>1, <3>1 DEF NoticesInv, ListedUnmarked
  <2> QED BY <2>1 DEF ListedUnmarked
<1>8. NoticesCounted'
  <2>1. ASSUME NEW c \in Children
        PROVE  sent'[c].notices <= spent'.faults + (IF Untold(c)' THEN 0 ELSE 1)
    <3>1. sent[c].notices <= spent.faults + (IF Untold(c) THEN 0 ELSE 1)
      BY DEF NoticesInv, NoticesCounted
    <3>2. Untold(c)' => Untold(c)
      <4>1. CASE c = k /\ doc[k].made /\ doc[k].born = n.born
        <5>1. doc'[c] = Marked(doc[c]) /\ doc[c] \in Document
          BY <1>1, <1>2, <1>3, <4>1 DEF DocsOK
        <5>2. doc'[c].notified
          BY <5>1 DEF Marked, Document
        <5> QED BY <5>2 DEF Untold
      <4>2. CASE ~(c = k /\ doc[k].made /\ doc[k].born = n.born)
        <5>1. doc'[c] = doc[c]
          BY <1>2, <1>6, <4>2
        <5>2. doc[c].made => (Marking(c) => Marking(c)')
          <6>1. CASE HostOf[c] = h
            BY <1>0, <4>2, <6>1 DEF Marking, k
          <6>2. CASE HostOf[c] # h
            BY <1>4, <5>1, <6>2, Bounds DEF Marking
          <6> QED BY <6>1, <6>2
        <5> QED BY <5>1, <5>2 DEF Untold
      <4> QED BY <4>1, <4>2
    <3> QED BY <1>1, <1>2, <3>1, <3>2, SentNumbers
  <2> QED BY <2>1 DEF NoticesCounted
<1> QED BY <1>7, <1>8 DEF NoticesInv

\* idle_watchdog writes its own counts and leaves the mark.
LEMMA WatchMarks ==
  ASSUME TypeOK, NEW h \in Hosts, Watchdog(h) \/ WatchFails(h)
  PROVE  MarksStay
<1>1. DocsOK
  BY TypeParts
<1>2. CASE UNCHANGED doc
  BY <1>2 DEF MarksStay
<1>3. CASE ~UNCHANGED doc
  <2> DEFINE n == Now(watch[h])
  <2>1. doc' = [doc EXCEPT ![n.child] = Written(n, @)]
    BY <1>3 DEF Watchdog, WatchList, WatchLook, WatchPublish, WatchWrite, WatchFails
  <2> HIDE DEF n
  <2>2. ASSUME NEW c \in Children
        PROVE  /\ doc'[c].made = doc[c].made /\ doc'[c].born = doc[c].born
               /\ doc'[c].notified = doc[c].notified
    <3>1. doc[c] \in Document /\ (doc'[c] = doc[c] \/ doc'[c] = Written(n, doc[c]))
      BY <1>1, <2>1, Bounds DEF DocsOK
    <3>2. PICK k, x, y : Written(n, doc[c]) = [doc[c] EXCEPT !.nudges = k, !.cooled = x,
                                                             !.escalated = y, !.progress = FALSE]
      BY Zenon DEF Written
    <3> DEFINE e == [doc[c] EXCEPT !.nudges = k, !.cooled = x, !.escalated = y, !.progress = FALSE]
    <3>3. e.made = doc[c].made /\ e.born = doc[c].born /\ e.notified = doc[c].notified
      BY <3>1 DEF Document
    <3>4. doc'[c] = doc[c] \/ doc'[c] = e
      BY <3>1, <3>2
    <3> HIDE DEF e
    <3> QED BY <3>3, <3>4
  <2> QED BY <2>2 DEF MarksStay
<1> QED BY <1>2, <1>3

LEMMA NoticesStep ==
  TypeOK /\ TypeOK' /\ NoticesInv /\ [Next]_vars => NoticesInv'
<1> SUFFICES ASSUME TypeOK, TypeOK', NoticesInv, [Next]_vars PROVE NoticesInv'
  OBVIOUS
<1>1. CASE UNCHANGED vars
  <2>1. MarksStay
    BY <1>1, SameDocs, DocsStayBoth DEF vars
  <2>2. UNCHANGED <<notify, sent, spent>>
    BY <1>1 DEF vars
  <2> QED BY <2>1, <2>2, NoticesStay, FaultsGrow
<1>2. CASE Outside
  BY <1>2, OutsideStays, DocsStayBoth, NoticesStay
<1>3. ASSUME NEW h \in Hosts, Create(h) /\ Gone(Cmd(h).to) PROVE NoticesInv'
  BY <1>3, NoticesCreate
<1>4. ASSUME NEW h \in Hosts, Notify(h) \/ NotifyFails(h) \/ Crash(h) PROVE NoticesInv'
  BY <1>4, NoticesPass, NoticesMarked DEF Notify
<1>5. ASSUME NEW h \in Hosts, Watchdog(h) \/ WatchFails(h) PROVE NoticesInv'
  <2>1. UNCHANGED <<notify, sent>>
    BY <1>5 DEF Watchdog, WatchList, WatchLook, WatchPublish, WatchWrite, WatchFails
  <2>2. spent.faults <= spent'.faults
    <3>1. UNCHANGED spent \/ Fault
      BY <1>5 DEF Watchdog, WatchList, WatchLook, WatchPublish, WatchWrite, WatchFails
    <3> QED BY <3>1, FaultsGrow
  <2>3. MarksStay
    BY <1>5, WatchMarks
  <2> QED BY <2>1, <2>2, <2>3, NoticesStay
<1> QED BY <1>1, <1>2, <1>3, <1>4, <1>5, StepCases

----------------------------------------------------------------------------
(* The theorems. *)

LEMMA IndInit == Init => NoticesInv /\ DocCounts /\ PassCounts /\ NudgesBounded
<1> SUFFICES ASSUME Init PROVE NoticesInv /\ DocCounts /\ PassCounts /\ NudgesBounded
  OBVIOUS
<1>1. TypeOK /\ CountsOK
  BY InitType, Numbers
<1>2. /\ \A h \in Hosts : notify[h].todo = {} /\ watch[h].todo = {}
      /\ spent.faults = 0
      /\ \A c \in Children : sent[c].notices = 0 /\ pokes[c] = 0 /\ ~doc[c].made
  BY NoDocType, Bounds DEF Init, Idle
<1>3. NoticesInv
  BY <1>2 DEF NoticesInv, ListedUnmarked, NoticesCounted
<1>4. DocCounts /\ PassCounts
  BY <1>2 DEF DocCounts, PassCounts
<1>5. NudgesBounded
  BY <1>1, <1>2, Bounds DEF NudgesBounded, CountsOK
<1> QED BY <1>3, <1>4, <1>5

\* The invariant of both bounds: what a pass of handoff_notify has yet to mark is
\* unmarked, and of what idle_watchdog published, one nudge at most is not counted yet.
THEOREM DelegationInvariant == Spec => []IndInv
<1>1. TypeOK /\ IndInv /\ [Next]_vars => TypeOK' /\ IndInv'
  BY TypeStep, NoticesStep, NudgesStep DEF IndInv, NoticesInv
<1>2. Init => TypeOK /\ IndInv
  BY InitType, IndInit DEF IndInv, NoticesInv
<1> QED BY <1>1, <1>2, PTL DEF Spec

\* The parent gets one notice per round of a child, however the pass, the agent, kills,
\* purges and a second delegation of the name interleave; only a fault may add one.
THEOREM ParentToldOnce == Spec => []ToldOnce
<1>1. TypeOK /\ IndInv => ToldOnce
  <2> SUFFICES ASSUME TypeOK, IndInv, NEW c \in Children
               PROVE  sent[c].notices <= 1 + spent.faults
    BY DEF ToldOnce
  <2>1. sent[c].notices <= spent.faults + (IF Untold(c) THEN 0 ELSE 1)
    BY DEF IndInv, NoticesCounted
  <2>2. sent[c].notices \in Nat /\ spent.faults \in Nat
    BY Numbers DEF CountsOK
  <2> QED BY <2>1, <2>2
<1> QED BY <1>1, DelegationTypes, DelegationInvariant, PTL

\* A child is nudged MaxNudges times between two signs of progress, whatever happens
\* to its document meanwhile; a fault may add one, and so may the pass that listed the
\* session of that name before.
THEOREM NudgesAreBounded == Spec => []NudgesBounded
<1>1. IndInv => NudgesBounded
  BY DEF IndInv
<1> QED BY <1>1, DelegationInvariant, PTL

----------------------------------------------------------------------------
(* No round is marked untold. *)

\* A document that is marked in the round it was made for: the parent was told in this
\* round, by the worker or by the agent itself, or the notice was dropped because the
\* parent was stopped.
MarkedIsTold ==
  \A c \in Children : doc[c].made /\ doc[c].notified /\ doc[c].born = round[c] => Told(c)

\* Why: a pass that is about to mark has told, and no output is of a round to come.
ToldBeforeMark ==
  \A h \in Hosts : notify[h].step = "mark" =>
    LET s == Now(notify[h])
    IN  doc[s.child].born = s.born /\ s.born = round[s.child] => Told(s.child)
OutputsOf == \A c \in Children : output[c] <= round[c]

ToldInv == MarkedIsTold /\ ToldBeforeMark /\ OutputsOf

\* A step that leaves rounds and handoff_notify alone, and marks no document.
LEMMA ToldStays ==
  ASSUME TypeOK, TypeOK', ToldInv, UNCHANGED <<notify, round>>, MarksStay,
         \A c \in Children : Told(c) => Told(c)', OutputsOf'
  PROVE  ToldInv'
<1>1. MarkedIsTold'
  <2>1. ASSUME NEW c \in Children, doc'[c].made, doc'[c].notified, doc'[c].born = round'[c]
        PROVE  Told(c)'
    <3>1. doc[c].made /\ doc[c].notified /\ doc[c].born = round[c]
      BY <2>1 DEF MarksStay
    <3> QED BY <3>1 DEF ToldInv, MarkedIsTold
  <2> QED BY <2>1 DEF MarkedIsTold
<1>2. ToldBeforeMark'
  <2>1. ASSUME NEW h \in Hosts, NEW s, s = Now(notify[h]), notify[h].step = "mark",
               doc'[s.child].born = s.born, s.born = round'[s.child]
        PROVE  Told(s.child)'
    <3>1. s.child \in Children /\ s.born > 0
      BY <2>1, NotifyFacts
    <3>2. doc'[s.child].made
      BY <2>1, <3>1, NextNumbers DEF CountsOK
    <3>3. doc[s.child].born = s.born /\ s.born = round[s.child]
      BY <2>1, <3>1, <3>2 DEF MarksStay
    <3> QED BY <2>1, <3>1, <3>3 DEF ToldInv, ToldBeforeMark
  <2>2. \A h \in Hosts : notify'[h] = notify[h]
    OBVIOUS
  <2> QED BY <2>1, <2>2 DEF ToldBeforeMark
<1> QED BY <1>1, <1>2 DEF ToldInv

LEMMA ToldOutside ==
  ASSUME TypeOK, TypeOK', ToldInv, Outside
  PROVE  ToldInv'
<1>1. /\ MarksStay /\ UNCHANGED <<notify, round>>
      /\ \A c \in Children : sent'[c].notices = sent[c].notices
  BY OutsideStays, DocsStayBoth
<1>2. HistoryOK /\ output \in [Children -> Nat] /\ round \in [Children -> Nat]
  BY DEF TypeOK, HistoryOK
<1>3. \A c \in Children : sent'[c].dropped = sent[c].dropped
  <2>1. ASSUME NEW x \in Children, TellParent(x)
        PROVE  \A c \in Children : sent'[c].dropped = sent[c].dropped
    BY <1>2, <2>1 DEF TellParent, HistoryOK
  <2>2. CASE UNCHANGED sent
    BY <2>2
  <2>3. User => UNCHANGED sent
    BY DEF User, Delegate, Purge, Kill
  <2>4. Agents => UNCHANGED sent \/ \E x \in Children : TellParent(x)
    BY DEF Agents, Stall, Work, Quit, WriteHandoff
  <2>5. Time => UNCHANGED sent
    BY DEF Time, Ripen, Age, Cool
  <2>6. \A s \in Sessions : Discover(s) => UNCHANGED sent
    BY DEF Discover
  <2>7. \A c \in Children : DiscoverLate(c) => UNCHANGED sent
    BY DEF DiscoverLate
  <2>8. \A h \in Hosts : Stop(h) \/ Input(h) \/ Expire(h) \/ Restart(h) \/ (Create(h) /\ ~Gone(Cmd(h).to))
                         => UNCHANGED sent
    BY DEF Stop, Input, Expire, Restart, Create
  <2>9. UNCHANGED sent \/ \E x \in Children : TellParent(x)
    BY <2>3, <2>4, <2>5, <2>6, <2>7, <2>8 DEF Outside
  <2> QED BY <2>1, <2>2, <2>9
<1>4. \A c \in Children : output'[c] = output[c] \/ output'[c] = round[c]
  <2>1. ASSUME NEW h \in Hosts, Input(h)
        PROVE  \A c \in Children : output'[c] = output[c] \/ output'[c] = round[c]
    <3>1. UNCHANGED output \/ \E x : output' = [output EXCEPT ![x] = round[x]]
      BY <2>1 DEF Input, Shown
    <3> QED BY <1>2, <3>1
  <2>2. User \/ Agents \/ Time => UNCHANGED output
    BY DEF User, Delegate, Purge, Kill, Agents, Stall, Work, Quit, WriteHandoff, TellParent,
       Time, Ripen, Age, Cool
  <2>3. \A s \in Sessions : Discover(s) => UNCHANGED output
    BY DEF Discover
  <2>4. \A c \in Children : DiscoverLate(c) => UNCHANGED output
    BY DEF DiscoverLate
  <2>5. \A h \in Hosts : Stop(h) \/ Expire(h) \/ Restart(h) \/ (Create(h) /\ ~Gone(Cmd(h).to))
                         => UNCHANGED output
    BY DEF Stop, Expire, Restart, Create
  <2>6. UNCHANGED output \/ \E h \in Hosts : Input(h)
    BY <2>2, <2>3, <2>4, <2>5 DEF Outside
  <2> QED BY <2>1, <2>6
<1>5. OutputsOf'
  BY <1>1, <1>2, <1>4 DEF ToldInv, OutputsOf
<1>6. \A c \in Children : Told(c) => Told(c)'
  BY <1>1, <1>3, <1>4 DEF Told
<1> QED BY <1>1, <1>5, <1>6, ToldStays

\* A round that begins has no mark of its own: a document that was there is of an
\* earlier one.
LEMMA ToldCreate ==
  ASSUME TypeOK, TypeOK', ToldInv, NEW h \in Hosts, Create(h), Gone(Cmd(h).to)
  PROVE  ToldInv'
<1> DEFINE n == Cmd(h).to
<1>1. DocsOK /\ RoundsOK /\ HistoryOK /\ QueuesOK /\ queue[h] # <<>> /\ Cmd(h).type = "create"
  BY TypeParts DEF Create, Taking
<1>2. n \in Children /\ n \in Sessions
  BY <1>1, HeadFacts
<1>3. /\ doc' = [doc EXCEPT ![n] = Upserted(n)] /\ round' = [round EXCEPT ![n] = round[n] + 1]
      /\ sent' = [sent EXCEPT ![n] = [notices |-> 0, dropped |-> FALSE, own |-> FALSE]]
      /\ UNCHANGED <<notify, output>>
  BY <1>1, <1>2 DEF Create, RoundsOK
<1> HIDE DEF n
<1>4. ASSUME NEW c \in Children, c # n
      PROVE  doc'[c] = doc[c] /\ sent'[c] = sent[c] /\ round'[c] = round[c]
  BY <1>1, <1>3, <1>4, Bounds DEF DocsOK, HistoryOK, RoundsOK
<1>5. /\ round[n] \in Nat /\ round'[n] = round[n] + 1 /\ doc[n].born <= round[n]
      /\ doc[n].born \in Nat
  BY <1>1, <1>2, <1>3 DEF RoundsOK, TypeOK, DocsOK, Document
<1>6. doc[n].made => doc'[n].born = doc[n].born
  BY <1>1, <1>2, <1>3, UpsertedType DEF DocsOK
<1>7. ~doc[n].made => ~doc'[n].notified
  BY <1>1, <1>2, <1>3, UpsertedType DEF DocsOK
<1>8. MarkedIsTold'
  <2>1. ASSUME NEW c \in Children, doc'[c].made, doc'[c].notified, doc'[c].born = round'[c]
        PROVE  Told(c)'
    <3>1. c # n
      BY <1>5, <1>6, <1>7, <2>1
    <3> QED BY <1>3, <1>4, <2>1, <3>1 DEF ToldInv, MarkedIsTold, Told
  <2> QED BY <2>1 DEF MarkedIsTold
<1>9. ToldBeforeMark'
  <2>1. ASSUME NEW g \in Hosts, NEW s, s = Now(notify[g]), notify[g].step = "mark",
               doc'[s.child].born = s.born, s.born = round'[s.child]
        PROVE  Told(s.child)'
    <3>1. s.child \in Children /\ s.born \in 1..round[s.child]
      BY <2>1, NotifyFacts
    <3>2. s.child # n
      BY <1>5, <2>1, <3>1
    <3> QED BY <1>3, <1>4, <2>1, <3>1, <3>2 DEF ToldInv, ToldBeforeMark, Told
  <2> QED BY <1>3, <2>1 DEF ToldBeforeMark
<1>10. OutputsOf'
  <2>1. ASSUME NEW c \in Children PROVE output'[c] <= round'[c]
    <3>1. output[c] <= round[c] /\ output[c] \in Nat /\ output'[c] = output[c]
      BY <1>3 DEF ToldInv, OutputsOf, TypeOK
    <3> QED BY <1>4, <1>5, <3>1
  <2> QED BY <2>1 DEF OutputsOf
<1> QED BY <1>8, <1>9, <1>10 DEF ToldInv

\* A step of the pass that writes no document: it tells more or nothing, and comes to
\* the mark only with what was told.
LEMMA ToldMove ==
  ASSUME TypeOK, TypeOK', ToldInv, UNCHANGED <<doc, round, output>>,
         NEW h \in Hosts, NEW step, NEW todo, Pass(h, step, todo),
         \A c \in Children : Told(c) => Told(c)',
         NEW s, step = "mark" => /\ todo = notify[h].todo /\ s = Now(notify[h])
                                 /\ doc[s.child].born = s.born /\ s.born = round[s.child]
                                    => Told(s.child)'
  PROVE  ToldInv'
<1>1. /\ notify'[h].step = step /\ notify'[h].todo = todo
      /\ \A g \in Hosts \ {h} : notify'[g] = notify[g]
  BY OtherNotify
<1>2. MarkedIsTold' /\ OutputsOf'
  BY DEF ToldInv, MarkedIsTold, OutputsOf
<1>3. ToldBeforeMark'
  <2>1. ASSUME NEW g \in Hosts, NEW t, t = Now(notify'[g]), notify'[g].step = "mark",
               doc[t.child].born = t.born, t.born = round[t.child]
        PROVE  Told(t.child)'
    <3>1. CASE g = h
      <4>1. t = s
        BY <1>1, <2>1, <3>1 DEF Now
      <4> QED BY <1>1, <2>1, <3>1, <4>1
    <3>2. CASE g # h
      <4>1. notify'[g] = notify[g]
        BY <1>1, <3>2
      <4>2. t.child \in Children
        BY <2>1, <4>1, NotifyFacts
      <4>3. Told(t.child)
        BY <2>1, <4>1 DEF ToldInv, ToldBeforeMark
      <4> QED BY <4>2, <4>3
    <3> QED BY <3>1, <3>2
  <2> QED BY <2>1 DEF ToldBeforeMark, Now
<1> QED BY <1>2, <1>3 DEF ToldInv

LEMMA ToldPass ==
  ASSUME TypeOK, TypeOK', ToldInv, NEW h \in Hosts,
         NotifyList(h) \/ NotifyLook(h) \/ NotifyPublish(h) \/ NotifyFails(h) \/ Crash(h)
  PROVE  ToldInv'
<1>0. PICK n : n = Now(notify[h])
  OBVIOUS
<1>1. /\ sent \in [Children -> [notices : Nat, dropped : BOOLEAN, own : BOOLEAN]]
      /\ output \in [Children -> Nat] /\ round \in [Children -> Nat]
  BY DEF TypeOK
<1>2. UNCHANGED <<doc, round, output>>
  BY DEF NotifyList, NotifyLook, NotifyPublish, NotifyFails, Crash
<1>3. notify[h].step # "idle" => n.child \in Children
  BY <1>0, NotifyFacts
<1>4. CASE NotifyList(h) \/ NotifyFails(h) \/ Crash(h)
  <2>1. UNCHANGED sent
    BY <1>4 DEF NotifyList, NotifyFails, Crash
  <2>2. \E step, todo : step # "mark" /\ Pass(h, step, todo)
    <3>1. CASE NotifyList(h)
      BY <3>1 DEF NotifyList
    <3>2. CASE NotifyFails(h) \/ Crash(h)
      BY <3>2 DEF NotifyFails, Crash, Pass, Idle, AfterFailure
    <3> QED BY <1>4, <3>1, <3>2
  <2>3. \A c \in Children : Told(c) => Told(c)'
    BY <1>2, <2>1 DEF Told
  <2> QED BY <1>2, <2>2, <2>3, ToldMove
<1>5. CASE NotifyLook(h)
  <2> DEFINE drops == Finished(n) /\ ~AlreadyTold(n) /\ ~Routed
  <2>1. /\ notify[h].step = "look"
        /\ sent' = IF drops THEN [sent EXCEPT ![n.child].dropped = TRUE] ELSE sent
    BY <1>0, <1>5 DEF NotifyLook, At
  <2>2. PICK step, todo :
          /\ Pass(h, step, todo)
          /\ step = "mark" => /\ todo = notify[h].todo
                              /\ Finished(n) /\ (AlreadyTold(n) \/ ~Routed)
    BY <1>0, <1>5 DEF NotifyLook, Next_Child
  <2>3. ASSUME NEW c \in Children
        PROVE  /\ sent'[c].notices = sent[c].notices
               /\ sent[c].dropped => sent'[c].dropped
               /\ drops /\ c = n.child => sent'[c].dropped
    <3> HIDE DEF drops
    <3> QED BY <1>1, <2>1
  <2>4. \A c \in Children : Told(c) => Told(c)'
    BY <1>2, <2>3 DEF Told
  <2>5. ASSUME step = "mark", doc[n.child].born = n.born, n.born = round[n.child]
        PROVE  Told(n.child)'
    <3>1. n.child \in Children
      BY <1>3, <2>1
    <3>2. CASE AlreadyTold(n)
      <4>1. output[n.child] >= round[n.child]
        BY <2>5, <3>2 DEF AlreadyTold
      <4>2. output[n.child] <= round[n.child]
        BY <3>1 DEF ToldInv, OutputsOf
      <4>3. output[n.child] \in Nat /\ round[n.child] \in Nat
        BY <1>1, <3>1
      <4>4. output[n.child] = round[n.child]
        BY <4>1, <4>2, <4>3
      <4> QED BY <1>2, <4>4 DEF Told
    <3>3. CASE ~AlreadyTold(n)
      <4>1. drops
        BY <2>2, <2>5, <3>3
      <4> QED BY <2>3, <3>1, <4>1 DEF Told
    <3> QED BY <3>2, <3>3
  <2> QED BY <1>0, <1>2, <2>2, <2>4, <2>5, ToldMove
<1>6. CASE NotifyPublish(h)
  <2>1. /\ notify[h].step = "publish" /\ Pass(h, "mark", notify[h].todo)
        /\ sent' = IF n.born = doc[n.child].born
                   THEN [sent EXCEPT ![n.child].notices = sent[n.child].notices + 1] ELSE sent
    BY <1>0, <1>1, <1>3, <1>6 DEF NotifyPublish, At
  <2>2. n.child \in Children
    BY <1>3, <2>1
  <2>3. ASSUME NEW c \in Children
        PROVE  /\ sent[c].notices > 0 => sent'[c].notices > 0
               /\ sent'[c].dropped = sent[c].dropped
               /\ n.born = doc[n.child].born /\ c = n.child => sent'[c].notices > 0
    <3>1. sent[c].notices \in Nat /\ sent[n.child].notices \in Nat
      BY <1>1, <2>2
    <3>2. CASE n.born = doc[n.child].born
      <4>1. sent'[c].notices = IF c = n.child THEN sent[c].notices + 1 ELSE sent[c].notices
        BY <1>1, <2>1, <2>2, <3>2
      <4>2. sent'[c].dropped = sent[c].dropped
        BY <1>1, <2>1, <2>2, <3>2
      <4> QED BY <3>1, <4>1, <4>2
    <3>3. CASE n.born # doc[n.child].born
      BY <2>1, <3>3
    <3> QED BY <3>2, <3>3
  <2>4. \A c \in Children : Told(c) => Told(c)'
    BY <1>2, <2>3 DEF Told
  <2>5. doc[n.child].born = n.born => Told(n.child)'
    BY <2>2, <2>3 DEF Told
  <2> QED BY <1>0, <1>2, <2>1, <2>4, <2>5, ToldMove
<1> QED BY <1>4, <1>5, <1>6

LEMMA ToldMarked ==
  ASSUME TypeOK, TypeOK', ToldInv, NEW h \in Hosts, NotifyMark(h)
  PROVE  ToldInv'
<1>0. PICK n : n = Now(notify[h])
  OBVIOUS
<1> DEFINE k == n.child
<1>1. DocsOK /\ UNCHANGED <<sent, output, round>> /\ notify[h].step = "mark"
  BY TypeParts DEF NotifyMark, At
<1>2. /\ doc' = IF doc[k].made /\ doc[k].born = n.born
                THEN [doc EXCEPT ![k] = Marked(@)] ELSE doc
      /\ \E step, todo : step # "mark" /\ Pass(h, step, todo)
  BY <1>0 DEF NotifyMark, Next_Child
<1>3. k \in Children /\ k \in Sessions
  BY <1>0, <1>1, NotifyFacts
<1>4. /\ notify'[h].step # "mark" /\ \A g \in Hosts \ {h} : notify'[g] = notify[g]
  BY <1>2, OtherNotify
<1> HIDE DEF k
<1>5. ASSUME NEW c \in Children
      PROVE  /\ doc'[c].made = doc[c].made /\ doc'[c].born = doc[c].born
             /\ doc'[c].notified => doc[c].notified \/ (c = k /\ doc[k].born = n.born)
  <2>1. doc[c] \in Document
    BY <1>1, Bounds DEF DocsOK
  <2>2. CASE doc'[c] = doc[c]
    BY <2>2
  <2>3. CASE c = k /\ doc[k].made /\ doc[k].born = n.born
    <3>1. doc'[c] = Marked(doc[c])
      BY <1>1, <1>2, <1>3, <2>3 DEF DocsOK
    <3> QED BY <2>1, <2>3, <3>1 DEF Marked, Document
  <2>4. doc'[c] = doc[c] \/ (c = k /\ doc[k].made /\ doc[k].born = n.born)
    BY <1>1, <1>2, <1>3, Bounds DEF DocsOK
  <2> QED BY <2>2, <2>3, <2>4
<1>6. \A c \in Children : Told(c)' = Told(c)
  BY <1>1 DEF Told
<1>7. MarkedIsTold'
  <2>1. ASSUME NEW c \in Children, doc'[c].made, doc'[c].notified, doc'[c].born = round'[c]
        PROVE  Told(c)
    <3>1. CASE doc[c].notified
      BY <1>1, <1>5, <2>1, <3>1 DEF ToldInv, MarkedIsTold
    <3>2. CASE c = k /\ doc[k].born = n.born
      BY <1>0, <1>1, <1>5, <2>1, <3>2 DEF ToldInv, ToldBeforeMark, k
    <3> QED BY <1>5, <2>1, <3>1, <3>2
  <2> QED BY <1>6, <2>1 DEF MarkedIsTold
<1>8. ToldBeforeMark'
  <2>1. ASSUME NEW g \in Hosts, NEW t, t = Now(notify'[g]), notify'[g].step = "mark",
               doc'[t.child].born = t.born, t.born = round[t.child]
        PROVE  Told(t.child)'
    <3>1. notify'[g] = notify[g]
      BY <1>4, <2>1
    <3>2. t.child \in Children
      BY <2>1, <3>1, NotifyFacts
    <3>3. Told(t.child)
      BY <1>5, <2>1, <3>1, <3>2 DEF ToldInv, ToldBeforeMark
    <3> QED BY <1>6, <3>2, <3>3
  <2> QED BY <1>1, <2>1 DEF ToldBeforeMark, Now
<1>9. OutputsOf'
  BY <1>1 DEF ToldInv, OutputsOf
<1> QED BY <1>7, <1>8, <1>9 DEF ToldInv

LEMMA ToldStep ==
  TypeOK /\ TypeOK' /\ ToldInv /\ [Next]_vars => ToldInv'
<1> SUFFICES ASSUME TypeOK, TypeOK', ToldInv, [Next]_vars PROVE ToldInv'
  OBVIOUS
<1>1. CASE UNCHANGED vars
  BY <1>1 DEF vars, ToldInv, MarkedIsTold, ToldBeforeMark, OutputsOf, Told, Now
<1>2. CASE Outside
  BY <1>2, ToldOutside
<1>3. ASSUME NEW h \in Hosts, Create(h) /\ Gone(Cmd(h).to) PROVE ToldInv'
  BY <1>3, ToldCreate
<1>4. ASSUME NEW h \in Hosts, Notify(h) \/ NotifyFails(h) \/ Crash(h) PROVE ToldInv'
  BY <1>4, ToldPass, ToldMarked DEF Notify
<1>5. ASSUME NEW h \in Hosts, Watchdog(h) \/ WatchFails(h) PROVE ToldInv'
  <2>1. UNCHANGED <<notify, round, sent, output>>
    BY <1>5 DEF Watchdog, WatchList, WatchLook, WatchPublish, WatchWrite, WatchFails
  <2>2. OutputsOf' /\ \A c \in Children : Told(c) => Told(c)'
    BY <2>1 DEF ToldInv, OutputsOf, Told
  <2>3. MarksStay
    BY <1>5, WatchMarks
  <2> QED BY <2>1, <2>2, <2>3, ToldStays
<1> QED BY <1>1, <1>2, <1>3, <1>4, <1>5, StepCases

\* A notice is not lost between the two writes, whatever fails and whoever dies there: a
\* child that is marked in the round it was made for was told of, unless the parent was
\* stopped; so that what was not told is listed again.
THEOREM NoRoundIsMarkedUntold == Spec => []MarkedIsTold
<1>1. Init => ToldInv
  <2> SUFFICES ASSUME Init PROVE ToldInv
    OBVIOUS
  <2>1. /\ \A h \in Hosts : notify[h].step = "idle"
        /\ \A c \in Children : ~doc[c].made /\ output[c] = 0 /\ round[c] = 0
    BY NoDocType, Bounds DEF Init, Idle
  <2> QED BY <2>1 DEF ToldInv, MarkedIsTold, ToldBeforeMark, OutputsOf
<1>2. ToldInv => MarkedIsTold
  BY DEF ToldInv
<1> QED BY <1>1, <1>2, InitType, TypeStep, ToldStep, PTL DEF Spec
==============================================================================
