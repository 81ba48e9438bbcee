---------------------- MODULE SessionLifecycle_proofs ----------------------
(***************************************************************************)
(* Proofs about SessionLifecycle, for any hosts, names and bounds: the     *)
(* types; that with one host and no renames a session has one document;    *)
(* that workers keep to the documents of their hosts as long as no worker  *)
(* claims a document without host for a name of another; and that a kill   *)
(* leaves the queue only with its session gone.                            *)
(***************************************************************************)
EXTENDS SessionLifecycle, WellFoundedInduction, TLAPS

-----------------------------------------------------------------------------
(* The collection. *)

\* Ids are numbers, so that a scan has a first match.
LEMMA LeastOfNats ==
  ASSUME NEW T, T \subseteq Nat, T # {}
  PROVE  \E x \in T : \A y \in T : x <= y
<1> DEFINE Less == {p \in Nat \X Nat : p[1] < p[2]}
<1>1. IsWellFoundedOn(Less, Nat)
  BY NatLessThanWellFounded DEF OpToRel
<1>2. \E x \in T : \A y \in T : <<y, x>> \notin Less
  <2> HIDE DEF Less
  <2> QED BY <1>1, WFMin
<1>3. \A x, y \in Nat : y < x => <<y, x>> \in Less
  OBVIOUS
<1>4. PICK x \in T : \A y \in T : <<y, x>> \notin Less
  BY <1>2
<1> HIDE DEF Less
<1>5. \A y \in T : ~(y < x)
  BY <1>3, <1>4
<1>6. \A y \in T : x <= y
  BY <1>5
<1> QED BY <1>6

LEMMA FirstIn ==
  ASSUME NEW D, D \subseteq Document, D # {}
  PROVE  First(D) \in D
<1> DEFINE T == {d.id : d \in D}
<1>1. T \subseteq Nat /\ T # {}
  BY DEF Document
<1>2. PICK x \in T : \A y \in T : x <= y
  BY <1>1, LeastOfNats
<1>3. \E d \in D : \A e \in D : d.id <= e.id
  BY <1>2
<1> QED BY <1>3 DEF First

\* The documents are known by their ids.
DocsOK ==
  /\ docs \subseteq Document
  /\ \A d, e \in docs : d.id = e.id => d = e
  /\ born \in 0..MaxDocs /\ \A d \in docs : d.id <= born

Statuses == {"active", "stopped"}

LEMMA FewerDocs ==
  ASSUME DocsOK, docs' \subseteq docs, UNCHANGED born
  PROVE  DocsOK'
BY DEF DocsOK

LEMMA WriteDocs ==
  ASSUME DocsOK, NEW d \in docs, NEW e \in Document, e.id = d.id, Write(d, e)
  PROVE  DocsOK'
BY DEF DocsOK, Write

LEMMA InsertDocs ==
  ASSUME DocsOK, NEW h \in Hosts \cup {NoHost}, NEW n \in Names,
         NEW status \in Statuses, Insert(h, n, status)
  PROVE  DocsOK'
<1>1. born' = born + 1 /\ born' \in 0..MaxDocs /\ born \in Nat
  BY LifecycleAssumption DEF DocsOK, Insert
<1> DEFINE new == [id |-> born + 1, host |-> h, name |-> n, status |-> status]
<1>2. new \in Document /\ new.id = born + 1
  BY <1>1 DEF Document, Statuses
<1>3. docs' = docs \cup {new}
  BY DEF Insert
<1> HIDE DEF new
<1>4. \A d \in docs : d.id # new.id /\ d.id \in Nat
  BY <1>1, <1>2 DEF DocsOK, Document
<1>5. \A d, e \in docs' : d.id = e.id => d = e
  BY <1>3, <1>4 DEF DocsOK
<1>6. \A d \in docs' : d.id <= born'
  BY <1>1, <1>2, <1>3, <1>4 DEF DocsOK
<1> QED BY <1>1, <1>2, <1>3, <1>5, <1>6 DEF DocsOK

\* Several documents rewritten, none with another id.
LEMMA RewriteDocs ==
  ASSUME DocsOK, NEW f \in [docs -> Document], \A d \in docs : f[d].id = d.id,
         docs' = {f[d] : d \in docs}, UNCHANGED born
  PROVE  DocsOK'
<1>1. docs' \subseteq Document
  OBVIOUS
<1>2. \A d \in docs' : \E e \in docs : d = f[e] /\ d.id = e.id
  OBVIOUS
<1>3. \A d, e \in docs' : d.id = e.id => d = e
  BY <1>2 DEF DocsOK
<1>4. \A d \in docs' : d.id <= born'
  BY <1>2 DEF DocsOK
<1> QED BY <1>1, <1>3, <1>4 DEF DocsOK

\* What discovery stops and what a worker that starts claims and stops.
Stopped(h, seen) ==
  [d \in docs |-> IF d \in Missing(h, seen) THEN [d EXCEPT !.status = "stopped"] ELSE d]

LEMMA StopAllRewrites ==
  ASSUME DocsOK, NEW h, NEW seen, StopAll(Missing(h, seen))
  PROVE  /\ Stopped(h, seen) \in [docs -> Document]
         /\ docs' = {Stopped(h, seen)[d] : d \in docs}
         /\ \A d \in docs : /\ Stopped(h, seen)[d].id = d.id
                            /\ Stopped(h, seen)[d].name = d.name
                            /\ Stopped(h, seen)[d].host = d.host
<1>1. \A d \in docs : [d EXCEPT !.status = "stopped"] \in Document
  BY DEF DocsOK, Document
<1>2. Stopped(h, seen) \in [docs -> Document]
  BY <1>1 DEF DocsOK, Stopped
<1>3. docs' = {Stopped(h, seen)[d] : d \in docs}
  BY DEF StopAll, Missing, Stopped
<1>4. \A d \in docs : /\ Stopped(h, seen)[d].id = d.id
                      /\ Stopped(h, seen)[d].name = d.name
                      /\ Stopped(h, seen)[d].host = d.host
  BY DEF DocsOK, Document, Stopped
<1> QED BY <1>2, <1>3, <1>4

Restarted(h) ==
  [d \in docs |->
     LET c == IF d.host = NoHost THEN [d EXCEPT !.host = h] ELSE d
     IN IF c.host = h /\ tmux[h][c.name] = "none" THEN [c EXCEPT !.status = "stopped"] ELSE c]

LEMMA RestartRewrites ==
  ASSUME DocsOK, NEW h \in Hosts, Restart(h)
  PROVE  /\ Restarted(h) \in [docs -> Document]
         /\ docs' = {Restarted(h)[d] : d \in docs}
         /\ \A d \in docs : /\ Restarted(h)[d].id = d.id
                            /\ Restarted(h)[d].name = d.name
                            /\ Restarted(h)[d].host = IF d.host = NoHost THEN h ELSE d.host
<1> DEFINE Claim(d) == IF d.host = NoHost THEN [d EXCEPT !.host = h] ELSE d
           Stop(c) == IF c.host = h /\ tmux[h][c.name] = "none"
                      THEN [c EXCEPT !.status = "stopped"] ELSE c
<1>1. \A d \in docs : /\ Claim(d) \in Document /\ Claim(d).id = d.id
                      /\ Claim(d).name = d.name
                      /\ Claim(d).host = IF d.host = NoHost THEN h ELSE d.host
  BY DEF DocsOK, Document
<1>2. \A c \in Document : /\ Stop(c) \in Document /\ Stop(c).id = c.id
                          /\ Stop(c).name = c.name /\ Stop(c).host = c.host
  BY DEF Document
<1>3. Restarted(h) = [d \in docs |-> Stop(Claim(d))]
  BY DEF Restarted
<1>4. docs' = {Stop(c) : c \in {Claim(d) : d \in docs}}
  BY DEF Restart, Claimed
<1> HIDE DEF Claim, Stop
<1>5. docs' = {Stop(Claim(d)) : d \in docs}
  BY <1>4
<1> QED BY <1>1, <1>2, <1>3, <1>5

-----------------------------------------------------------------------------
(* What a step does to the documents, by who takes it.                     *)

\* A typed command in progress, and where the handler is with it.
QueueOK ==
  /\ queue \in [Hosts -> Seq(Command)]
  /\ handler \in [Hosts -> Steps]
  /\ \A h \in Hosts : handler[h] # "idle" => queue[h] # <<>>
PaneStates == {"none", "shell", "starting", "agent"}
PanesOK == tmux \in [Hosts -> [Names -> PaneStates]]
ScansOK == scan \in [Hosts -> [on : BOOLEAN, seen : SUBSET Names, todo : SUBSET Names]]
WorkersOK == worker \in [Hosts -> {"up", "down"}]
SpentOK ==
  spent \in [requests : 0..MaxRequests, crashes : 0..MaxCrashes,
             refusals : 0..MaxRefusals, byHand : 0..MaxByHand]

LEMMA TypeParts ==
  TypeOK <=> DocsOK /\ PanesOK /\ QueueOK /\ ScansOK /\ WorkersOK /\ SpentOK
BY DEF TypeOK, DocsOK, PanesOK, PaneStates, QueueOK, ScansOK, WorkersOK, SpentOK

LEMMA CmdType ==
  ASSUME QueueOK, NEW h \in Hosts, queue[h] # <<>>
  PROVE  /\ Cmd(h) \in Command /\ Cmd(h).name \in Names /\ Cmd(h).new \in Names
         /\ Cmd(h).type \in {"create", "resume", "kill", "delete", "rename"}
<1>1. queue[h] \in Seq(Command)
  BY DEF QueueOK
<1>2. Head(queue[h]) \in Command
  BY <1>1
<1> QED BY <1>2 DEF Cmd, Command

\* The consumer of h, with the command it has in progress.
HandleDocs(h) ==
  \/ UNCHANGED <<docs, born>>
  \/ \E d \in Named(Cmd(h).name) : docs' = docs \ {d} /\ UNCHANGED born
  \/ \E d \in Named(Cmd(h).name), e \in Document :
       /\ Write(d, e) /\ e.id = d.id /\ e.host \in {d.host, h}
       /\ e.name = d.name \/ (handler[h] = "rename_doc" /\ e.name = Cmd(h).new)
  \/ \E g \in {h, NoHost}, s \in Statuses :
       Named(Cmd(h).name) = {} /\ Insert(g, Cmd(h).name, s)

\* Wherever the handler is, its command is there.
LEMMA Busy ==
  ASSUME QueueOK, NEW h \in Hosts, Handle(h)
  PROVE  queue[h] # <<>>
<1>1. CASE handler[h] # "idle"
  BY <1>1 DEF QueueOK
<1>2. CASE handler[h] = "idle"
  BY <1>2 DEF Handle, CreateRefused, CreatePane, CreateLaunch, CreateDoc, CreateNoFolder,
     CreateStopped, KillPane, KillDoc, DeleteRead, DeletePane, DeleteDoc, RenamePane, RenameDoc,
     TakeResume, ResumeRefused, ResumePane, ResumeLaunch, ResumeDoc, Expire, Ack, At, Taking
<1> QED BY <1>1, <1>2

LEMMA NamedFirst ==
  ASSUME DocsOK, NEW n, Named(n) # {}
  PROVE  First(Named(n)) \in Named(n) /\ First(Named(n)) \in Document
         /\ First(Named(n)) \in docs
<1>1. Named(n) \subseteq Document
  BY DEF Named, DocsOK
<1>2. First(Named(n)) \in Named(n)
  BY <1>1, FirstIn
<1> QED BY <1>1, <1>2 DEF Named

\* A document keeps its fields but the ones that are rewritten.
LEMMA StatusWritten ==
  ASSUME NEW d \in Document, NEW s \in Statuses
  PROVE  /\ [d EXCEPT !.status = s] \in Document
         /\ [d EXCEPT !.status = s].id = d.id /\ [d EXCEPT !.status = s].host = d.host
         /\ [d EXCEPT !.status = s].name = d.name
BY DEF Document, Statuses

LEMMA NameWritten ==
  ASSUME NEW d \in Document, NEW n \in Names
  PROVE  /\ [d EXCEPT !.name = n] \in Document
         /\ [d EXCEPT !.name = n].id = d.id /\ [d EXCEPT !.name = n].host = d.host
         /\ [d EXCEPT !.name = n].name = n
BY DEF Document

\* A write that breaks the index is not made.
LEMMA CommitDocs ==
  ASSUME NEW h \in Hosts, NEW d, NEW e, Commit(h, d, e)
  PROVE  UNCHANGED <<docs, born>> \/ Write(d, e)
BY DEF Commit, Fall

LEMMA UpsertDocs ==
  ASSUME DocsOK, QueueOK, NEW h \in Hosts, queue[h] # <<>>, NEW s \in Statuses,
         Upsert(h, Cmd(h).name, s)
  PROVE  HandleDocs(h)
<1> DEFINE n == Cmd(h).name
<1>1. CASE Named(n) = {}
  BY <1>1 DEF Upsert, HandleDocs
<1>2. CASE Named(n) # {}
  <2>1. PICK d \in Named(n) : d = First(Named(n)) /\ d \in Document
    BY <1>2, NamedFirst
  <2> DEFINE e == [d EXCEPT !.host = h, !.status = s]
  <2>2. e \in Document /\ e.id = d.id /\ e.host = h /\ e.name = d.name
    BY <2>1 DEF Document, Statuses
  <2>3. Commit(h, d, e)
    BY <1>2, <2>1 DEF Upsert
  <2> HIDE DEF e
  <2>4. UNCHANGED <<docs, born>> \/ Write(d, e)
    BY <2>3, CommitDocs
  <2> QED BY <2>2, <2>4 DEF HandleDocs
<1> QED BY <1>1, <1>2

LEMMA HandleWrites ==
  ASSUME DocsOK, QueueOK, NEW h \in Hosts, Handle(h)
  PROVE  HandleDocs(h)
<1>1. queue[h] # <<>> /\ Cmd(h).name \in Names /\ Cmd(h).new \in Names
  BY Busy, CmdType
<1> DEFINE n == Cmd(h).name
<1>2. ASSUME UNCHANGED <<docs, born>> PROVE HandleDocs(h)
  BY <1>2 DEF HandleDocs
<1>3. CASE CreateDoc(h)
  BY <1>1, <1>3, UpsertDocs DEF CreateDoc, Statuses
<1>4. CASE CreateStopped(h)
  BY <1>1, <1>4, UpsertDocs DEF CreateStopped, Statuses
<1>5. CASE KillDoc(h)
  <2> DEFINE found == IF Here(h, n) # {} THEN Here(h, n) ELSE Named(n)
  <2>1. CASE found = {}
    BY <1>5, <2>1 DEF KillDoc, HandleDocs
  <2>2. CASE found # {}
    <3>1. found \subseteq Named(n) /\ found \subseteq Document
      BY DEF Here, Named, DocsOK
    <3>2. First(found) \in found
      BY <2>2, <3>1, FirstIn
    <3>3. PICK d \in Named(n) : d = First(found) /\ d \in Document
      BY <3>1, <3>2
    <3> DEFINE e == [d EXCEPT !.status = "stopped"]
    <3>4. e \in Document /\ e.id = d.id /\ e.host = d.host /\ e.name = d.name
      BY <3>3, StatusWritten DEF Statuses
    <3>5. Write(d, e)
      BY <1>5, <2>2, <3>3 DEF KillDoc
    <3> HIDE DEF e
    <3> QED BY <3>4, <3>5 DEF HandleDocs
  <2> QED BY <2>1, <2>2
<1>6. CASE DeleteDoc(h)
  BY <1>6, NamedFirst DEF DeleteDoc, HandleDocs
<1>7. CASE RenameDoc(h)
  <2>1. CASE Named(n) = {}
    BY <1>7, <2>1, <1>2 DEF RenameDoc
  <2>2. CASE Named(n) # {}
    <3> DEFINE d == First(Named(n))
               e == [d EXCEPT !.name = Cmd(h).new]
    <3>1. d \in Named(n) /\ d \in Document
      BY <2>2, NamedFirst
    <3>2. e \in Document /\ e.id = d.id /\ e.host = d.host /\ e.name = Cmd(h).new
      BY <1>1, <3>1, NameWritten
    <3>3. Commit(h, d, e) /\ handler[h] = "rename_doc"
      BY <1>7, <2>2 DEF RenameDoc, At
    <3>4. UNCHANGED <<docs, born>> \/ Write(d, e)
      BY <3>3, CommitDocs
    <3> HIDE DEF d, e
    <3> QED BY <3>1, <3>2, <3>3, <3>4 DEF HandleDocs
  <2> QED BY <2>1, <2>2
<1>8. CASE ResumeDoc(h)
  <2>1. CASE Named(n) = {}
    BY <1>8, <2>1 DEF ResumeDoc, HandleDocs, Statuses
  <2>2. CASE Named(n) # {}
    <3> DEFINE d == First(Named(n))
               e == [d EXCEPT !.status = "active"]
    <3>1. d \in Named(n) /\ d \in Document
      BY <2>2, NamedFirst
    <3>2. e \in Document /\ e.id = d.id /\ e.host = d.host /\ e.name = d.name
      BY <3>1, StatusWritten DEF Statuses
    <3>3. Commit(h, d, e)
      BY <1>8, <2>2 DEF ResumeDoc
    <3>4. UNCHANGED <<docs, born>> \/ Write(d, e)
      BY <3>3, CommitDocs
    <3> HIDE DEF d, e
    <3> QED BY <3>1, <3>2, <3>4 DEF HandleDocs
  <2> QED BY <2>1, <2>2
<1>9. CASE \/ CreateRefused(h) \/ CreatePane(h) \/ CreateLaunch(h) \/ CreateNoFolder(h)
           \/ KillPane(h) \/ DeleteRead(h) \/ DeletePane(h) \/ RenamePane(h) \/ TakeResume(h)
           \/ ResumeRefused(h) \/ ResumePane(h) \/ ResumeLaunch(h) \/ Expire(h) \/ Ack(h)
  <2>1. UNCHANGED <<docs, born>>
    BY <1>9 DEF CreateRefused, CreatePane, CreateLaunch, Launch, CreateNoFolder, KillPane,
       DeleteRead, DeletePane, RenamePane, TakeResume, ResumeRefused, ResumePane, ResumeLaunch,
       Expire, Ack
  <2> QED BY <1>2, <2>1
<1> QED BY <1>3, <1>4, <1>5, <1>6, <1>7, <1>8, <1>9 DEF Handle

\* The discovery of h: a document of its host, or of none.
ScanDocs(h) ==
  \/ UNCHANGED <<docs, born>>
  \/ \E n \in scan[h].todo : \E d \in Known(h, n), e \in Document :
       /\ Write(d, e) /\ e.id = d.id /\ e.host = d.host /\ e.name = d.name
  \/ \E n \in scan[h].todo : Known(h, n) = {} /\ Insert(h, n, "active")
  \/ StopAll(Missing(h, scan[h].seen)) /\ UNCHANGED born

LEMMA KnownHere ==
  ASSUME DocsOK, NEW h \in Hosts, NEW n
  PROVE  /\ Known(h, n) \subseteq docs /\ Known(h, n) \subseteq Document
         /\ \A d \in Known(h, n) : d.host \in {h, NoHost} /\ d.name = n
BY DEF Known, Here, DocsOK

LEMMA ScanWrites ==
  ASSUME DocsOK, ScansOK, NEW h \in Hosts, Scan(h)
  PROVE  ScanDocs(h)
<1>1. CASE ScanList(h)
  BY <1>1 DEF ScanList, ScanDocs
<1>2. ASSUME NEW n \in Names, ScanSee(h, n) PROVE ScanDocs(h)
  <2>1. n \in scan[h].todo
    BY <1>2 DEF ScanSee
  <2>2. CASE Known(h, n) = {}
    BY <1>2, <2>1, <2>2 DEF ScanSee, ScanDocs
  <2>3. CASE Known(h, n) # {} /\ Collides(Seen(h, n))
    BY <1>2, <2>3 DEF ScanSee, Fall, ScanDocs
  <2>4. CASE Known(h, n) # {} /\ ~Collides(Seen(h, n))
    <3> DEFINE d == First(Known(h, n))
               e == [d EXCEPT !.status = "active"]
    <3>1. d \in Known(h, n) /\ d \in Document
      BY <2>4, KnownHere, FirstIn
    <3>2. e \in Document /\ e.id = d.id /\ e.host = d.host /\ e.name = d.name
      BY <3>1, StatusWritten DEF Statuses
    <3>3. Write(d, e)
      BY <1>2, <2>4 DEF ScanSee, Seen
    <3> HIDE DEF d, e
    <3> QED BY <2>1, <3>1, <3>2, <3>3 DEF ScanDocs
  <2> QED BY <2>2, <2>3, <2>4
<1>3. CASE ScanStop(h)
  BY <1>3 DEF ScanStop, ScanDocs
<1> QED BY <1>1, <1>2, <1>3 DEF Scan

\* The API: a document is stopped or purged.
ClientDocs ==
  \/ docs' \subseteq docs /\ UNCHANGED born
  \/ \E d \in docs, e \in Document :
       Write(d, e) /\ e.id = d.id /\ e.host = d.host /\ e.name = d.name

LEMMA ClientWrites ==
  ASSUME DocsOK, Client
  PROVE  ClientDocs
<1>1. CASE \E h \in Hosts, n \in Names : CreateRequest(h, n)
  BY <1>1 DEF CreateRequest, ClientDocs
<1>2. ASSUME NEW d \in docs, KillRequest(d) PROVE ClientDocs
  <2> DEFINE e == [d EXCEPT !.status = "stopped"]
  <2>1. e \in Document /\ e.id = d.id /\ e.host = d.host /\ e.name = d.name
    BY DEF DocsOK, Document
  <2>2. UNCHANGED <<docs, born>> \/ Write(d, e)
    BY <1>2 DEF KillRequest
  <2> HIDE DEF e
  <2> QED BY <2>1, <2>2 DEF ClientDocs
<1>3. ASSUME NEW d \in docs,
             PurgeRequest(d) \/ ResumeRequest(d) \/ (\E n \in Names : RenameRequest(d, n))
      PROVE  ClientDocs
  BY <1>3 DEF PurgeRequest, ResumeRequest, RenameRequest, ClientDocs
<1> QED BY <1>1, <1>2, <1>3 DEF Client

-----------------------------------------------------------------------------
(* What a step does to the queues, the panes and the cycles.               *)

\* The head of the queue of h goes on, or is over.
HandleQueue(h) ==
  \/ UNCHANGED queue /\ \E step \in Steps : handler' = [handler EXCEPT ![h] = step]
  \/ /\ handler[h] # "idle"
     /\ queue' = [queue EXCEPT ![h] = Tail(@)]
     /\ handler' = [handler EXCEPT ![h] = "idle"]

\* The panes of h: one is opened only for what the command names.
HandlePanes(h) ==
  \/ UNCHANGED tmux
  \/ \E f \in [Names -> PaneStates] :
       /\ tmux' = [tmux EXCEPT ![h] = f]
       /\ \A n \in Names : f[n] # "none" => tmux[h][n] # "none" \/ n \in {Cmd(h).name, Cmd(h).new}

\* What else a fall of h takes away, and what tmux refuses.
HandleRest(h) ==
  /\ \/ UNCHANGED spent
     \/ spent.refusals < MaxRefusals /\ spent' = [spent EXCEPT !.refusals = @ + 1]
  /\ \/ UNCHANGED <<scan, worker>>
     \/ /\ worker' = [worker EXCEPT ![h] = "down"]
        /\ scan' = [scan EXCEPT ![h] = Resting]

LEMMA FallRest ==
  ASSUME NEW h \in Hosts, Fall(h), handler[h] # "idle"
  PROVE  HandleQueue(h) /\ HandleRest(h) /\ UNCHANGED tmux
BY DEF Fall, HandleQueue, HandleRest

LEMMA GoesTo ==
  ASSUME NEW h \in Hosts, NEW step \in Steps, Goto(h, step)
  PROVE  HandleQueue(h)
BY DEF Goto, HandleQueue

LEMMA CrashQueue ==
  ASSUME NEW h \in Hosts, Crash(h)
  PROVE  HandleQueue(h)
<1>1. "idle" \in Steps
  BY DEF Steps
<1> QED BY <1>1 DEF Crash, HandleQueue

LEMMA CommitRest ==
  ASSUME NEW h \in Hosts, handler[h] # "idle", NEW d, NEW e, Commit(h, d, e)
  PROVE  HandleQueue(h) /\ HandleRest(h) /\ UNCHANGED tmux
<1>1. CASE Collides(e)
  BY <1>1, FallRest DEF Commit
<1>2. CASE ~Collides(e)
  <2>1. Goto(h, "ack") /\ "ack" \in Steps
    BY <1>2 DEF Commit, Steps
  <2> QED BY <1>2, <2>1, GoesTo DEF Commit, HandleRest
<1> QED BY <1>1, <1>2

\* A pane of h becomes what a call of tmux makes of it.
LEMMA PaneSet ==
  ASSUME PanesOK, NEW h \in Hosts, NEW n \in Names, NEW what \in PaneStates,
         Pane(h, n, what), what # "none" => tmux[h][n] # "none" \/ n = Cmd(h).name
  PROVE  HandlePanes(h)
<1> DEFINE f == [tmux[h] EXCEPT ![n] = what]
<1>1. f \in [Names -> PaneStates] /\ f[n] = what /\ \A m \in Names \ {n} : f[m] = tmux[h][m]
  BY DEF PanesOK
<1>2. tmux' = [tmux EXCEPT ![h] = f]
  BY DEF Pane
<1> HIDE DEF f
<1> QED BY <1>1, <1>2 DEF HandlePanes

LEMMA PaneRenamed ==
  ASSUME PanesOK, NEW h \in Hosts, NEW old \in Names, NEW new \in Names,
         RenameSession(h, old, new), new = Cmd(h).new
  PROVE  HandlePanes(h)
<1> DEFINE f == [tmux[h] EXCEPT ![old] = "none", ![new] = tmux[h][old]]
<1>1. f \in [Names -> PaneStates] /\ \A m \in Names : m # new /\ f[m] # "none" => f[m] = tmux[h][m]
  BY DEF PanesOK, PaneStates
<1>2. tmux' = [tmux EXCEPT ![h] = f]
  BY DEF RenameSession
<1> HIDE DEF f
<1> QED BY <1>1, <1>2 DEF HandlePanes

LEMMA HandleRests ==
  ASSUME PanesOK, QueueOK, NEW h \in Hosts, Handle(h)
  PROVE  HandleQueue(h) /\ HandlePanes(h) /\ HandleRest(h)
<1>1. queue[h] # <<>> /\ Cmd(h).name \in Names /\ Cmd(h).new \in Names
  BY Busy, CmdType
<1> DEFINE n == Cmd(h).name
<1>2. tmux[h][n] \in PaneStates
  BY <1>1 DEF PanesOK
<1>3. CASE \/ CreateRefused(h) \/ CreateNoFolder(h) \/ TakeResume(h) \/ ResumeRefused(h)
           \/ Expire(h) \/ KillDoc(h) \/ DeleteRead(h) \/ DeleteDoc(h)
  <2>1. \E step \in Steps : Goto(h, step)
    BY <1>3 DEF CreateRefused, CreateNoFolder, TakeResume, ResumeRefused, Expire, KillDoc,
       DeleteRead, DeleteDoc, Steps
  <2>2. UNCHANGED <<tmux, scan, worker, spent>>
    BY <1>3 DEF CreateRefused, CreateNoFolder, TakeResume, ResumeRefused, Expire, KillDoc,
       DeleteRead, DeleteDoc
  <2> QED BY <2>1, <2>2, GoesTo DEF HandlePanes, HandleRest
<1>4. CASE CreatePane(h) \/ KillPane(h) \/ DeletePane(h)
  <2>1. \E step \in Steps : Goto(h, step)
    BY <1>4 DEF CreatePane, KillPane, DeletePane, Steps
  <2>2. UNCHANGED tmux \/ \E what \in {"shell", "none"} : Pane(h, n, what)
    BY <1>4 DEF CreatePane, NewSession, KillPane, DeletePane, Kills, KillSession
  <2>3. HandlePanes(h)
    BY <1>1, <2>2, PaneSet DEF PaneStates, HandlePanes
  <2>4. HandleRest(h)
    BY <1>4 DEF CreatePane, KillPane, DeletePane, Kills, HandleRest
  <2> QED BY <2>1, <2>3, <2>4, GoesTo
<1>5. CASE CreateLaunch(h) \/ ResumeLaunch(h)
  <2>1. \E step \in Steps : Goto(h, step)
    BY <1>5 DEF CreateLaunch, ResumeLaunch, Steps
  <2>2. HandlePanes(h)
    <3>1. \E what \in PaneStates : Pane(h, n, what)
      BY <1>2, <1>5 DEF CreateLaunch, ResumeLaunch, Launch, PaneStates
    <3> QED BY <1>1, <3>1, PaneSet
  <2> QED BY <1>5, <2>1, <2>2, GoesTo DEF CreateLaunch, ResumeLaunch, Launch, HandleRest
<1>6. CASE ResumePane(h)
  <2>1. Goto(h, "resume_launch") /\ "resume_launch" \in Steps
    BY <1>6 DEF ResumePane, Steps
  <2>2. HandlePanes(h)
    <3>1. \E what \in PaneStates : Pane(h, n, what)
      BY <1>2, <1>6 DEF ResumePane, PaneStates
    <3> QED BY <1>1, <3>1, PaneSet
  <2> QED BY <1>6, <2>1, <2>2, GoesTo DEF ResumePane, HandleRest
<1>7. CASE RenamePane(h)
  <2>1. \E step \in Steps : Goto(h, step)
    BY <1>7 DEF RenamePane, Steps
  <2>2. RenameSession(h, n, Cmd(h).new) \/ UNCHANGED tmux
    BY <1>7 DEF RenamePane
  <2>3. HandlePanes(h)
    BY <1>1, <2>2, PaneRenamed DEF HandlePanes
  <2> QED BY <1>7, <2>1, <2>3, GoesTo DEF RenamePane, HandleRest
<1>8. CASE CreateDoc(h) \/ CreateStopped(h) \/ ResumeDoc(h) \/ RenameDoc(h)
  <2>1. handler[h] # "idle"
    BY <1>8 DEF CreateDoc, CreateStopped, ResumeDoc, RenameDoc, At
  <2>2. \/ Goto(h, "ack") /\ UNCHANGED <<tmux, scan, worker, spent>>
        \/ \E d, e : Commit(h, d, e)
    <3>1. ASSUME NEW s, Upsert(h, n, s)
          PROVE  \/ Goto(h, "ack") /\ UNCHANGED <<tmux, scan, worker, spent>>
                 \/ \E d, e : Commit(h, d, e)
      BY <3>1 DEF Upsert
    <3> QED BY <1>8, <3>1 DEF CreateDoc, CreateStopped, ResumeDoc, RenameDoc
  <2>3. ASSUME Goto(h, "ack"), UNCHANGED <<tmux, scan, worker, spent>>
        PROVE  HandleQueue(h) /\ HandlePanes(h) /\ HandleRest(h)
    <3>1. "ack" \in Steps
      BY DEF Steps
    <3> QED BY <2>3, <3>1, GoesTo DEF HandlePanes, HandleRest
  <2> QED BY <2>1, <2>2, <2>3, CommitRest DEF HandlePanes
<1>9. CASE Ack(h)
  BY <1>9 DEF Ack, At, HandleQueue, HandlePanes, HandleRest
<1> QED BY <1>3, <1>4, <1>5, <1>6, <1>7, <1>8, <1>9 DEF Handle

\* A publish: one more command at the end of the queue of h.
LEMMA PublishType ==
  ASSUME NEW h, NEW type \in {"create", "resume", "kill", "delete", "rename"},
         NEW n \in Names, NEW new \in Names, Publish(h, type, n, new)
  PROVE  \E c \in Command : /\ queue' = [queue EXCEPT ![h] = Append(@, c)]
                            /\ c.type = type /\ c.name = n /\ c.new = new
<1> DEFINE c == [type |-> type, name |-> n, new |-> new]
<1>1. c \in Command /\ c.type = type /\ c.name = n /\ c.new = new
  BY DEF Command
<1>2. queue' = [queue EXCEPT ![h] = Append(@, c)]
  BY DEF Publish
<1> HIDE DEF c
<1> QED BY <1>1, <1>2

ClientRest ==
  /\ UNCHANGED <<tmux, handler, scan, worker>>
  /\ Request
  /\ \/ UNCHANGED queue
     \/ \E h \in Hosts : \E c \in Command :
          /\ queue' = [queue EXCEPT ![h] = Append(@, c)]
          /\ c.type = "rename" => Renames
          /\ \/ c.name \in NamesOf[h]
             \/ \E d \in docs : d.host = h /\ d.name = c.name
          /\ c.new = c.name \/ c.new \in NamesOf[h]

LEMMA ClientRests ==
  ASSUME DocsOK, Client
  PROVE  ClientRest
<1>1. ASSUME NEW h \in Hosts, NEW n \in Names, CreateRequest(h, n) PROVE ClientRest
  <2>1. Publish(h, "create", n, n) /\ n \in NamesOf[h]
    BY <1>1 DEF CreateRequest
  <2>2. \E c \in Command : /\ queue' = [queue EXCEPT ![h] = Append(@, c)]
                           /\ c.type = "create" /\ c.name = n /\ c.new = n
    BY <2>1, PublishType
  <2>3. UNCHANGED <<tmux, handler, scan, worker>> /\ Request
    BY <1>1 DEF CreateRequest
  <2> QED BY <2>1, <2>2, <2>3 DEF ClientRest
<1>2. ASSUME NEW d \in docs, KillRequest(d) \/ PurgeRequest(d) \/ ResumeRequest(d)
      PROVE  ClientRest
  <2>1. d.host \in Hosts /\ d.name \in Names
    BY <1>2 DEF DocsOK, Document, KillRequest, PurgeRequest, ResumeRequest
  <2>2. \/ UNCHANGED queue
        \/ \E type \in {"kill", "delete", "resume"} : Publish(d.host, type, d.name, d.name)
    BY <1>2 DEF KillRequest, PurgeRequest, ResumeRequest
  <2> DEFINE Sent(c) == queue' = [queue EXCEPT ![d.host] = Append(@, c)]
  <2>3. \/ UNCHANGED queue
        \/ \E c \in Command : Sent(c) /\ c.type # "rename" /\ c.name = d.name /\ c.new = d.name
    <3>1. ASSUME NEW type \in {"kill", "delete", "resume"}, Publish(d.host, type, d.name, d.name)
          PROVE  \E c \in Command : Sent(c) /\ c.type = type /\ c.name = d.name /\ c.new = d.name
      <4>1. type \in {"create", "resume", "kill", "delete", "rename"}
        BY <3>1
      <4> DEFINE c == [type |-> type, name |-> d.name, new |-> d.name]
      <4>2. c \in Command /\ c.type = type /\ c.name = d.name /\ c.new = d.name
        BY <2>1, <4>1 DEF Command
      <4>3. Sent(c)
        BY <3>1 DEF Publish
      <4> HIDE DEF Sent, c
      <4> QED BY <4>2, <4>3
    <3> HIDE DEF Sent
    <3> QED BY <2>2, <3>1
  <2>4. UNCHANGED <<tmux, handler, scan, worker>> /\ Request
    BY <1>2 DEF KillRequest, PurgeRequest, ResumeRequest
  <2> QED BY <2>1, <2>3, <2>4 DEF ClientRest
<1>3. ASSUME NEW d \in docs, NEW n \in Names, RenameRequest(d, n) PROVE ClientRest
  <2>1. d.host \in Hosts /\ d.name \in Names
    BY <1>3 DEF DocsOK, Document, RenameRequest
  <2>2. \E c \in Command : /\ queue' = [queue EXCEPT ![d.host] = Append(@, c)]
                           /\ c.type = "rename" /\ c.name = d.name /\ c.new = n
    <3>1. Publish(d.host, "rename", d.name, n)
      BY <1>3 DEF RenameRequest
    <3> DEFINE c == [type |-> "rename", name |-> d.name, new |-> n]
    <3>2. c \in Command /\ c.type = "rename" /\ c.name = d.name /\ c.new = n
      BY <2>1 DEF Command
    <3>3. queue' = [queue EXCEPT ![d.host] = Append(@, c)]
      BY <3>1 DEF Publish
    <3> HIDE DEF c
    <3> QED BY <3>2, <3>3
  <2>3. UNCHANGED <<tmux, handler, scan, worker>> /\ Request /\ n \in NamesOf[d.host] /\ Renames
    BY <1>3 DEF RenameRequest
  <2> QED BY <2>1, <2>2, <2>3 DEF ClientRest
<1> QED BY <1>1, <1>2, <1>3 DEF Client

\* A cycle goes on or ends with the worker.
ScanRest(h) ==
  /\ UNCHANGED <<tmux, spent>>
  /\ \/ /\ UNCHANGED <<queue, handler, worker>>
        /\ \E s \in [on : BOOLEAN, seen : SUBSET Names, todo : SUBSET Names] :
             /\ scan' = [scan EXCEPT ![h] = s]
             /\ \A n \in s.todo : n \in scan[h].todo \/ tmux[h][n] # "none"
     \/ /\ worker' = [worker EXCEPT ![h] = "down"]
        /\ scan' = [scan EXCEPT ![h] = Resting]
        /\ handler' = [handler EXCEPT ![h] = "idle"]
        /\ queue' = [queue EXCEPT ![h] = IF handler[h] = "idle" THEN @ ELSE Tail(@)]

LEMMA ScanRests ==
  ASSUME PanesOK, ScansOK, NEW h \in Hosts, Scan(h)
  PROVE  ScanRest(h)
<1>1. CASE ScanList(h)
  <2> DEFINE s == [on |-> TRUE, seen |-> Present(h), todo |-> Present(h)]
  <2>1. scan' = [scan EXCEPT ![h] = s]
    BY <1>1 DEF ScanList
  <2>2. s \in [on : BOOLEAN, seen : SUBSET Names, todo : SUBSET Names]
    BY DEF Present
  <2>3. \A n \in s.todo : tmux[h][n] # "none"
    BY DEF Present
  <2> HIDE DEF s
  <2> QED BY <1>1, <2>1, <2>2, <2>3 DEF ScanList, ScanRest
<1>2. ASSUME NEW n \in Names, ScanSee(h, n) PROVE ScanRest(h)
  <2>1. CASE Fall(h)
    BY <2>1 DEF Fall, ScanRest
  <2>2. CASE ~Fall(h)
    <3> DEFINE s == [scan[h] EXCEPT !.todo = @ \ {n}]
    <3>1. scan' = [scan EXCEPT ![h] = s] /\ UNCHANGED <<tmux, spent, queue, handler, worker>>
      BY <1>2, <2>2 DEF ScanSee
    <3>2. s \in [on : BOOLEAN, seen : SUBSET Names, todo : SUBSET Names]
      BY DEF ScansOK
    <3>3. s.todo \subseteq scan[h].todo
      BY DEF ScansOK
    <3> HIDE DEF s
    <3> QED BY <3>1, <3>2, <3>3 DEF ScanRest
  <2> QED BY <2>1, <2>2
<1>3. CASE ScanStop(h)
  <2>1. Resting \in [on : BOOLEAN, seen : SUBSET Names, todo : SUBSET Names]
        /\ Resting.todo = {}
    BY DEF Resting
  <2> QED BY <1>3, <2>1 DEF ScanStop, ScanRest
<1> QED BY <1>1, <1>2, <1>3 DEF Scan

-----------------------------------------------------------------------------
(* Types. *)

LEMMA TailQueue ==
  ASSUME QueueOK, NEW h \in Hosts, queue[h] # <<>>
  PROVE  [queue EXCEPT ![h] = Tail(@)] \in [Hosts -> Seq(Command)]
<1>1. queue[h] \in Seq(Command)
  BY DEF QueueOK
<1>2. Tail(queue[h]) \in Seq(Command)
  BY <1>1
<1> QED BY <1>2 DEF QueueOK

LEMMA HandleQueueType ==
  ASSUME QueueOK, NEW h \in Hosts, HandleQueue(h), queue[h] # <<>>
  PROVE  QueueOK'
<1>1. CASE /\ handler[h] # "idle"
           /\ queue' = [queue EXCEPT ![h] = Tail(@)]
           /\ handler' = [handler EXCEPT ![h] = "idle"]
  <2>1. queue' \in [Hosts -> Seq(Command)]
    BY <1>1, TailQueue
  <2>2. handler' \in [Hosts -> Steps] /\ handler'[h] = "idle"
    BY <1>1 DEF QueueOK, Steps
  <2>3. ASSUME NEW g \in Hosts, handler'[g] # "idle" PROVE queue'[g] # <<>>
    BY <1>1, <2>2, <2>3 DEF QueueOK
  <2> QED BY <2>1, <2>2, <2>3 DEF QueueOK
<1>2. CASE UNCHANGED queue /\ \E step \in Steps : handler' = [handler EXCEPT ![h] = step]
  BY <1>2 DEF QueueOK
<1> QED BY <1>1, <1>2 DEF HandleQueue

LEMMA RestingType ==
  /\ Resting \in [on : BOOLEAN, seen : SUBSET Names, todo : SUBSET Names]
  /\ Resting.todo = {}
BY DEF Resting

LEMMA ClientTypes ==
  ASSUME TypeOK, Client
  PROVE  TypeOK'
<1>1. DocsOK /\ PanesOK /\ QueueOK /\ ScansOK /\ WorkersOK /\ SpentOK
  BY TypeParts
<1>2. ClientRest /\ ClientDocs
  BY <1>1, ClientRests, ClientWrites
<1>3. DocsOK'
  BY <1>1, <1>2, FewerDocs, WriteDocs DEF ClientDocs
<1>4. QueueOK'
  <2>1. CASE UNCHANGED queue
    BY <1>1, <1>2, <2>1 DEF QueueOK, ClientRest
  <2>2. ASSUME NEW h \in Hosts, NEW c \in Command, queue' = [queue EXCEPT ![h] = Append(@, c)]
        PROVE  QueueOK'
    <3>1. queue[h] \in Seq(Command)
      BY <1>1 DEF QueueOK
    <3>2. Append(queue[h], c) \in Seq(Command) /\ Append(queue[h], c) # <<>>
      BY <3>1
    <3>3. queue' \in [Hosts -> Seq(Command)] /\ handler' = handler
      BY <1>1, <1>2, <2>2, <3>2 DEF QueueOK, ClientRest
    <3>4. \A g \in Hosts : queue'[g] = queue[g] \/ queue'[g] # <<>>
      BY <1>1, <2>2, <3>2 DEF QueueOK
    <3> QED BY <1>1, <3>3, <3>4 DEF QueueOK
  <2> QED BY <1>2, <2>1, <2>2 DEF ClientRest
<1>5. PanesOK' /\ ScansOK' /\ WorkersOK'
  BY <1>1, <1>2 DEF ClientRest, PanesOK, ScansOK, WorkersOK
<1>6. SpentOK'
  BY <1>1, <1>2, LifecycleAssumption DEF ClientRest, Request, SpentOK
<1> QED BY <1>3, <1>4, <1>5, <1>6, TypeParts, PTL

LEMMA HandleTypes ==
  ASSUME TypeOK, NEW h \in Hosts, Handle(h)
  PROVE  TypeOK'
<1>1. DocsOK /\ PanesOK /\ QueueOK /\ ScansOK /\ WorkersOK /\ SpentOK
  BY TypeParts
<1>2. HandleDocs(h) /\ HandleQueue(h) /\ HandlePanes(h) /\ HandleRest(h)
  BY <1>1, HandleWrites, HandleRests
<1>3. queue[h] # <<>> /\ Cmd(h).name \in Names
  BY <1>1, Busy, CmdType
<1>4. DocsOK'
  <2>1. ASSUME docs' \subseteq docs, UNCHANGED born PROVE DocsOK'
    BY <1>1, <2>1, FewerDocs
  <2>2. ASSUME NEW d \in Named(Cmd(h).name), NEW e \in Document, Write(d, e), e.id = d.id
        PROVE  DocsOK'
    BY <1>1, <2>2, WriteDocs DEF Named
  <2>3. ASSUME NEW g \in {h, NoHost}, NEW s \in Statuses, Insert(g, Cmd(h).name, s)
        PROVE  DocsOK'
    <3>1. g \in Hosts \cup {NoHost}
      OBVIOUS
    <3> QED BY <1>1, <1>3, <2>3, <3>1, InsertDocs
  <2> QED BY <1>2, <2>1, <2>2, <2>3 DEF HandleDocs
<1>5. QueueOK'
  BY <1>1, <1>2, <1>3, HandleQueueType
<1>6. PanesOK'
  BY <1>1, <1>2 DEF HandlePanes, PanesOK
<1>7. ScansOK'
  BY <1>1, <1>2, RestingType DEF HandleRest, ScansOK
<1>8. WorkersOK' /\ SpentOK'
  <2>1. WorkersOK'
    BY <1>1, <1>2 DEF HandleRest, WorkersOK
  <2>2. SpentOK'
    BY <1>1, <1>2, LifecycleAssumption DEF HandleRest, SpentOK
  <2> QED BY <2>1, <2>2
<1> QED BY <1>4, <1>5, <1>6, <1>7, <1>8, TypeParts, PTL

LEMMA ScanTypes ==
  ASSUME TypeOK, NEW h \in Hosts, Scan(h)
  PROVE  TypeOK'
<1>1. DocsOK /\ PanesOK /\ QueueOK /\ ScansOK /\ WorkersOK /\ SpentOK
  BY TypeParts
<1>2. ScanDocs(h) /\ ScanRest(h)
  BY <1>1, ScanWrites, ScanRests
<1>3. scan[h].todo \subseteq Names
  BY <1>1 DEF ScansOK
<1>4. DocsOK'
  <2>1. ASSUME UNCHANGED <<docs, born>> PROVE DocsOK'
    BY <1>1, <2>1, FewerDocs
  <2>2. ASSUME NEW n \in scan[h].todo, NEW d \in Known(h, n), NEW e \in Document,
               Write(d, e), e.id = d.id
        PROVE  DocsOK'
    BY <1>1, <2>2, WriteDocs, KnownHere
  <2>3. ASSUME NEW n \in scan[h].todo, Insert(h, n, "active") PROVE DocsOK'
    <3>1. h \in Hosts \cup {NoHost} /\ n \in Names /\ "active" \in Statuses
      BY <1>3 DEF Statuses
    <3> QED BY <1>1, <2>3, <3>1, InsertDocs
  <2>4. ASSUME StopAll(Missing(h, scan[h].seen)), UNCHANGED born PROVE DocsOK'
    BY <1>1, <2>4, StopAllRewrites, RewriteDocs
  <2> QED BY <1>2, <2>1, <2>2, <2>3, <2>4 DEF ScanDocs
<1>5. CASE UNCHANGED <<queue, handler, worker>>
  <2>1. PanesOK' /\ QueueOK' /\ WorkersOK' /\ SpentOK'
    BY <1>1, <1>2, <1>5 DEF ScanRest, PanesOK, QueueOK, WorkersOK, SpentOK
  <2>2. ScansOK'
    BY <1>1, <1>2, RestingType DEF ScanRest, ScansOK
  <2> QED BY <1>4, <2>1, <2>2, TypeParts, PTL
<1>6. CASE /\ worker' = [worker EXCEPT ![h] = "down"]
           /\ scan' = [scan EXCEPT ![h] = Resting]
           /\ handler' = [handler EXCEPT ![h] = "idle"]
           /\ queue' = [queue EXCEPT ![h] = IF handler[h] = "idle" THEN @ ELSE Tail(@)]
  <2>1. queue' \in [Hosts -> Seq(Command)]
    BY <1>1, <1>6, TailQueue DEF QueueOK
  <2>2. handler' \in [Hosts -> Steps] /\ handler'[h] = "idle"
    BY <1>1, <1>6 DEF QueueOK, Steps
  <2>3. ASSUME NEW g \in Hosts, handler'[g] # "idle" PROVE queue'[g] # <<>>
    BY <1>1, <1>6, <2>2, <2>3 DEF QueueOK
  <2>4. QueueOK'
    BY <2>1, <2>2, <2>3 DEF QueueOK
  <2>5. PanesOK' /\ ScansOK' /\ WorkersOK' /\ SpentOK'
    BY <1>1, <1>2, <1>6, RestingType DEF ScanRest, PanesOK, ScansOK, WorkersOK, SpentOK
  <2> QED BY <1>4, <2>4, <2>5, TypeParts, PTL
<1> QED BY <1>2, <1>5, <1>6 DEF ScanRest

LEMMA HostTypes ==
  ASSUME TypeOK, NEW h \in Hosts,
         Crash(h) \/ Restart(h) \/ \E n \in Names : AgentUp(h, n) \/ ByHand(h, n)
  PROVE  TypeOK'
<1>1. DocsOK /\ PanesOK /\ QueueOK /\ ScansOK /\ WorkersOK /\ SpentOK
  BY TypeParts
<1>2. CASE Crash(h)
  <2>1. DocsOK' /\ PanesOK' /\ QueueOK'
    <3>1. HandleQueue(h)
      BY <1>2, CrashQueue
    <3>2. QueueOK'
      <4>1. CASE queue[h] # <<>>
        BY <1>1, <3>1, <4>1, HandleQueueType DEF QueueOK
      <4>2. CASE queue[h] = <<>>
        BY <1>1, <1>2, <4>2 DEF Crash, QueueOK, Steps
      <4> QED BY <4>1, <4>2
    <3> QED BY <1>1, <1>2, <3>2 DEF Crash, DocsOK, PanesOK
  <2>2. ScansOK' /\ WorkersOK'
    BY <1>1, <1>2, RestingType DEF Crash, ScansOK, WorkersOK
  <2>3. spent.crashes < MaxCrashes /\ spent' = [spent EXCEPT !.crashes = @ + 1]
    BY <1>2 DEF Crash
  <2>4. SpentOK'
    BY <1>1, <2>3, LifecycleAssumption DEF SpentOK
  <2> QED BY <2>1, <2>2, <2>4, TypeParts, PTL
<1>3. CASE Restart(h)
  <2>1. DocsOK'
    BY <1>1, <1>3, RestartRewrites, RewriteDocs DEF Restart
  <2>2. PanesOK' /\ QueueOK' /\ ScansOK' /\ SpentOK' /\ WorkersOK'
    BY <1>1, <1>3 DEF Restart, PanesOK, QueueOK, ScansOK, SpentOK, WorkersOK
  <2> QED BY <2>1, <2>2, TypeParts, PTL
<1>4. ASSUME NEW n \in Names, AgentUp(h, n) \/ ByHand(h, n) PROVE TypeOK'
  <2>1. \E what \in PaneStates : Pane(h, n, what)
    BY <1>4 DEF AgentUp, ByHand, PaneStates
  <2>2. PanesOK'
    BY <1>1, <2>1 DEF Pane, PanesOK
  <2>3. UNCHANGED <<docs, born, queue, handler, scan, worker>>
    BY <1>4 DEF AgentUp, ByHand
  <2>4. DocsOK' /\ QueueOK' /\ ScansOK' /\ WorkersOK'
    BY <1>1, <2>3 DEF DocsOK, QueueOK, ScansOK, WorkersOK
  <2>5. SpentOK'
    BY <1>1, <1>4, LifecycleAssumption DEF AgentUp, ByHand, SpentOK
  <2> QED BY <2>2, <2>4, <2>5, TypeParts, PTL
<1> QED BY <1>2, <1>3, <1>4

LEMMA TypeInit == Init => TypeOK
BY LifecycleAssumption, RestingType DEF Init, TypeOK, Steps

LEMMA TypeStep == TypeOK /\ [Next]_vars => TypeOK'
<1> SUFFICES ASSUME TypeOK, [Next]_vars PROVE TypeOK'
  OBVIOUS
<1>1. CASE UNCHANGED vars
  BY <1>1 DEF vars, TypeOK
<1>2. CASE Next
  BY <1>2, ClientTypes, HandleTypes, ScanTypes, HostTypes DEF Next
<1> QED BY <1>1, <1>2

\* Documents keep their fields and ids of their own, and a handler that is busy
\* has its command at the head of the queue.
THEOREM LifecycleTypes == Spec => []TypeOK
BY TypeInit, TypeStep, PTL DEF Spec

-----------------------------------------------------------------------------
(* The commands of a queue. *)

Waiting(h) == {queue[h][i] : i \in DOMAIN queue[h]}

\* What a client may ask of the worker of h.
Asked(h, c) ==
  /\ c.type = "rename" => Renames
  /\ c.name \in NamesOf[h] \/ \E d \in docs : d.host = h /\ d.name = c.name
  /\ c.new = c.name \/ c.new \in NamesOf[h]

LEMMA CmdWaits ==
  ASSUME QueueOK, NEW h \in Hosts, queue[h] # <<>>
  PROVE  Cmd(h) \in Waiting(h)
<1>1. queue[h] \in Seq(Command)
  BY DEF QueueOK
<1>2. 1 \in DOMAIN queue[h] /\ Head(queue[h]) = queue[h][1]
  BY <1>1
<1> QED BY <1>2 DEF Waiting, Cmd

LEMMA TailWaits ==
  ASSUME NEW q \in Seq(Command), q # <<>>
  PROVE  \A i \in DOMAIN Tail(q) : i + 1 \in DOMAIN q /\ Tail(q)[i] = q[i + 1]
OBVIOUS

LEMMA AppendWaits ==
  ASSUME NEW q \in Seq(Command), NEW c \in Command
  PROVE  /\ \A i \in DOMAIN Append(q, c) :
              (i \in DOMAIN q /\ Append(q, c)[i] = q[i]) \/ Append(q, c)[i] = c
         /\ \A i \in DOMAIN q : i \in DOMAIN Append(q, c) /\ Append(q, c)[i] = q[i]
OBVIOUS

\* What a step does to the queue of g and to its handler.
QueueStep(g) ==
  \/ queue'[g] = queue[g]
  \/ \E c \in Command : queue'[g] = Append(queue[g], c) /\ Asked(g, c) /\ handler'[g] = handler[g]
  \/ queue[g] # <<>> /\ queue'[g] = Tail(queue[g]) /\ handler[g] # "idle" /\ handler'[g] = "idle"

LEMMA QueueSteps ==
  ASSUME TypeOK, [Next]_vars
  PROVE  \A g \in Hosts : QueueStep(g)
<1> SUFFICES ASSUME NEW g \in Hosts PROVE QueueStep(g)
  OBVIOUS
<1>1. DocsOK /\ PanesOK /\ QueueOK /\ ScansOK
  BY TypeParts
<1>2. queue \in [Hosts -> Seq(Command)] /\ handler \in [Hosts -> Steps]
  BY <1>1 DEF QueueOK
<1>3. CASE UNCHANGED queue
  BY <1>3 DEF QueueStep
<1>4. CASE Client
  <2>1. ClientRest
    BY <1>1, <1>4, ClientRests
  <2>2. ASSUME NEW h \in Hosts, NEW c \in Command,
               queue' = [queue EXCEPT ![h] = Append(@, c)], Asked(h, c)
        PROVE  QueueStep(g)
    BY <1>2, <2>1, <2>2 DEF QueueStep, ClientRest
  <2> QED BY <1>3, <2>1, <2>2 DEF ClientRest, Asked
<1>5. ASSUME NEW h \in Hosts, Handle(h) PROVE QueueStep(g)
  <2>1. HandleQueue(h) /\ queue[h] # <<>>
    BY <1>1, <1>5, HandleRests, Busy
  <2> QED BY <1>2, <2>1 DEF HandleQueue, QueueStep
<1>6. ASSUME NEW h \in Hosts, Scan(h) PROVE QueueStep(g)
  <2>1. ScanRest(h)
    BY <1>1, <1>6, ScanRests
  <2>2. handler[h] # "idle" => queue[h] # <<>>
    BY <1>1 DEF QueueOK
  <2> QED BY <1>2, <2>1, <2>2 DEF ScanRest, QueueStep
<1>7. ASSUME NEW h \in Hosts, Restart(h) \/ \E n \in Names : AgentUp(h, n) \/ ByHand(h, n)
      PROVE  UNCHANGED queue
  BY <1>7 DEF Restart, AgentUp, ByHand
<1>8. ASSUME NEW h \in Hosts, Crash(h) PROVE QueueStep(g)
  <2>1. handler[h] # "idle" => queue[h] # <<>>
    BY <1>1 DEF QueueOK
  <2> QED BY <1>2, <1>8, <2>1 DEF Crash, QueueStep
<1> QED BY <1>3, <1>4, <1>5, <1>6, <1>7, <1>8 DEF Next, vars

LEMMA NewCommands ==
  ASSUME TypeOK, [Next]_vars
  PROVE  \A g \in Hosts : \A c \in Waiting(g)' : c \in Waiting(g) \/ Asked(g, c)
<1> SUFFICES ASSUME NEW g \in Hosts PROVE \A c \in Waiting(g)' : c \in Waiting(g) \/ Asked(g, c)
  OBVIOUS
<1>1. queue[g] \in Seq(Command) /\ QueueStep(g)
  BY QueueSteps, TypeParts DEF QueueOK
<1>2. CASE queue'[g] = queue[g]
  BY <1>2 DEF Waiting
<1>3. ASSUME NEW c \in Command, queue'[g] = Append(queue[g], c), Asked(g, c)
      PROVE  \A k \in Waiting(g)' : k \in Waiting(g) \/ k = c
  BY <1>1, <1>3, AppendWaits DEF Waiting
<1>4. CASE queue[g] # <<>> /\ queue'[g] = Tail(queue[g])
  BY <1>1, <1>4, TailWaits DEF Waiting
<1> QED BY <1>1, <1>2, <1>3, <1>4 DEF QueueStep

-----------------------------------------------------------------------------
(* One document. *)

\* Nobody renames, and no worker is in the middle of a rename.
NothingRenamed ==
  \A h \in Hosts : /\ \A c \in Waiting(h) : c.type # "rename"
                   /\ handler[h] # "rename_doc"

LEMMA OnlyRenameRenames ==
  ASSUME QueueOK, NEW h \in Hosts, Handle(h), handler'[h] = "rename_doc"
  PROVE  handler[h] = "rename_doc" \/ Cmd(h).type = "rename"
<1>1. handler \in [Hosts -> Steps]
  BY DEF QueueOK
<1>2. CASE RenamePane(h)
  BY <1>2 DEF RenamePane, Taking
<1>3. CASE \/ CreateRefused(h) \/ CreatePane(h) \/ CreateLaunch(h) \/ CreateNoFolder(h)
           \/ KillPane(h) \/ KillDoc(h) \/ DeleteRead(h) \/ DeletePane(h) \/ DeleteDoc(h)
           \/ TakeResume(h) \/ ResumeRefused(h) \/ ResumePane(h) \/ ResumeLaunch(h)
           \/ Expire(h)
  <2>1. \E step \in Steps \ {"rename_doc"} : Goto(h, step)
    BY <1>3 DEF CreateRefused, CreatePane, CreateLaunch, CreateNoFolder, KillPane, KillDoc,
       DeleteRead, DeletePane, DeleteDoc, TakeResume, ResumeRefused, ResumePane, ResumeLaunch, Expire, Steps
  <2> QED BY <1>1, <2>1 DEF Goto
<1>4. CASE CreateDoc(h) \/ CreateStopped(h) \/ ResumeDoc(h) \/ RenameDoc(h) \/ Ack(h)
  BY <1>1, <1>4 DEF CreateDoc, CreateStopped, Upsert, ResumeDoc, RenameDoc, Commit, Fall,
     Goto, Ack
<1> QED BY <1>2, <1>3, <1>4 DEF Handle

LEMMA NothingRenamedInit == Init => NothingRenamed
BY DEF Init, NothingRenamed, Waiting

LEMMA NothingRenamedStep ==
  ASSUME TypeOK, NothingRenamed, [Next]_vars, ~Renames
  PROVE  NothingRenamed'
<1>1. DocsOK /\ PanesOK /\ QueueOK /\ ScansOK
  BY TypeParts
<1>2. \A g \in Hosts : \A c \in Waiting(g)' : c.type # "rename"
  BY NewCommands DEF NothingRenamed, Asked
<1>3. ASSUME NEW g \in Hosts, handler'[g] = "rename_doc" PROVE FALSE
  <2>1. handler[g] # "rename_doc" /\ handler \in [Hosts -> Steps]
    BY <1>1 DEF NothingRenamed, QueueOK
  <2>2. ~UNCHANGED handler
    BY <1>3, <2>1
  <2>3. CASE Client
    BY <1>1, <2>2, <2>3, ClientRests DEF ClientRest
  <2>4. ASSUME NEW h \in Hosts, Handle(h) PROVE FALSE
    <3>1. CASE g = h
      <4>1. Cmd(g).type = "rename" /\ queue[g] # <<>>
        BY <1>1, <1>3, <2>1, <2>4, <3>1, OnlyRenameRenames, Busy
      <4> QED BY <1>1, <4>1, CmdWaits DEF NothingRenamed
    <3>2. CASE g # h
      <4>1. handler'[g] = handler[g]
        BY <1>1, <2>1, <2>4, <3>2, HandleRests DEF HandleQueue
      <4> QED BY <1>3, <2>1, <4>1
    <3> QED BY <3>1, <3>2
  <2>5. ASSUME NEW h \in Hosts, Scan(h) PROVE FALSE
    BY <1>1, <1>3, <2>1, <2>5, ScanRests DEF ScanRest
  <2>6. ASSUME NEW h \in Hosts, Crash(h) PROVE FALSE
    BY <1>3, <2>1, <2>6 DEF Crash
  <2>7. ASSUME NEW h \in Hosts, Restart(h) \/ \E n \in Names : AgentUp(h, n) \/ ByHand(h, n)
        PROVE  FALSE
    BY <2>2, <2>7 DEF Restart, AgentUp, ByHand
  <2> QED BY <2>2, <2>3, <2>4, <2>5, <2>6, <2>7 DEF Next, vars
<1> QED BY <1>2, <1>3 DEF NothingRenamed

\* Every write of a document keeps its name, and every insertion is of a name
\* that no document has.
LEMMA OneDocumentStep ==
  ASSUME TypeOK, NothingRenamed, OneDocument, [Next]_vars, NEW host, Hosts = {host}
  PROVE  OneDocument'
<1>1. DocsOK /\ PanesOK /\ QueueOK /\ ScansOK
  BY TypeParts
<1>2. ASSUME docs' \subseteq docs PROVE OneDocument'
  BY <1>2 DEF OneDocument
<1>3. ASSUME NEW d \in docs, NEW e, Write(d, e), e.name = d.name PROVE OneDocument'
  BY <1>3 DEF OneDocument, Write
<1>4. ASSUME NEW g, NEW n, NEW s, Named(n) = {}, Insert(g, n, s) PROVE OneDocument'
  <2> DEFINE new == [id |-> born + 1, host |-> g, name |-> n, status |-> s]
  <2>1. docs' = docs \cup {new} /\ new.name = n /\ \A d \in docs : d.name # n
    BY <1>4 DEF Insert, Named
  <2> HIDE DEF new
  <2> QED BY <2>1 DEF OneDocument
<1>5. ASSUME NEW f, \A d \in docs : f[d].name = d.name, docs' = {f[d] : d \in docs}
      PROVE  OneDocument'
  BY <1>5 DEF OneDocument
<1>6. CASE Client
  BY <1>1, <1>2, <1>3, <1>6, ClientWrites DEF ClientDocs
<1>7. ASSUME NEW h \in Hosts, Handle(h) PROVE OneDocument'
  <2>1. HandleDocs(h) /\ handler[h] # "rename_doc"
    BY <1>1, <1>7, HandleWrites DEF NothingRenamed
  <2> QED BY <1>2, <1>3, <1>4, <2>1 DEF HandleDocs, Named
<1>8. ASSUME NEW h \in Hosts, Scan(h) PROVE OneDocument'
  <2>1. ScanDocs(h)
    BY <1>1, <1>8, ScanWrites
  <2>2. ASSUME NEW n, Known(h, n) = {} PROVE Named(n) = {}
    BY <1>1, <2>2 DEF Known, Here, Named, DocsOK, Document
  <2>3. ASSUME StopAll(Missing(h, scan[h].seen)) PROVE OneDocument'
    BY <1>1, <1>5, <2>3, StopAllRewrites
  <2> QED BY <1>1, <1>2, <1>3, <1>4, <2>1, <2>2, <2>3, KnownHere DEF ScanDocs
<1>9. ASSUME NEW h \in Hosts, Restart(h) PROVE OneDocument'
  BY <1>1, <1>5, <1>9, RestartRewrites
<1>10. ASSUME NEW h \in Hosts, Crash(h) \/ \E n \in Names : AgentUp(h, n) \/ ByHand(h, n)
       PROVE  OneDocument'
  BY <1>2, <1>10 DEF Crash, AgentUp, ByHand
<1>11. CASE UNCHANGED vars
  BY <1>2, <1>11 DEF vars
<1> QED BY <1>6, <1>7, <1>8, <1>9, <1>10, <1>11 DEF Next

\* With one host and no renames, create, resume and discovery, which each look
\* for a document before they insert one, at other moments and by other keys,
\* never leave two documents for one name.
THEOREM OneHostOneDocument ==
  ASSUME \E host : Hosts = {host}, ~Renames
  PROVE  Spec => []OneDocument
<1>1. Init => NothingRenamed /\ OneDocument
  BY NothingRenamedInit DEF Init, OneDocument
<1>2. TypeOK /\ NothingRenamed /\ OneDocument /\ [Next]_vars => NothingRenamed' /\ OneDocument'
  BY NothingRenamedStep, OneDocumentStep
<1> QED BY <1>1, <1>2, LifecycleTypes, PTL DEF Spec

-----------------------------------------------------------------------------
(* The unique index. *)

\* uq_host_tmux_name_active: no two active documents of one host and one name.
UniqueActive ==
  \A d, e \in docs :
    /\ d.status = "active" /\ e.status = "active"
    /\ d.host = e.host /\ d.name = e.name
    => d = e

\* A document that nothing collides with may take the place of another.
LEMMA WriteKeepsIndex ==
  ASSUME DocsOK, UniqueActive, NEW d \in docs, NEW e \in Document, e.id = d.id,
         Write(d, e), e.status = "active" => ~Collides(e)
  PROVE  UniqueActive'
<1>1. docs' = (docs \ {d}) \cup {e} /\ docs \subseteq Document
  BY DEF Write, DocsOK
<1>2. \A f \in docs : f # d => f.id # e.id
  BY DEF DocsOK
<1>3. ASSUME NEW f \in docs, f # d, f.status = "active", e.status = "active",
             f.host = e.host, f.name = e.name
      PROVE  FALSE
  BY <1>2, <1>3 DEF Collides
<1> QED BY <1>1, <1>3 DEF UniqueActive

LEMMA CommitKeepsIndex ==
  ASSUME DocsOK, UniqueActive, NEW h \in Hosts, NEW d \in docs, NEW e \in Document,
         e.id = d.id, Commit(h, d, e)
  PROVE  UniqueActive'
<1>1. CASE Collides(e)
  BY <1>1 DEF Commit, Fall, UniqueActive
<1>2. CASE ~Collides(e)
  BY <1>2, WriteKeepsIndex DEF Commit
<1> QED BY <1>1, <1>2

\* An insertion asks nothing of the index: no document of its host has its name.
LEMMA InsertKeepsIndex ==
  ASSUME UniqueActive, NEW h, NEW n, NEW s, Here(h, n) = {}, Insert(h, n, s)
  PROVE  UniqueActive'
<1> DEFINE new == [id |-> born + 1, host |-> h, name |-> n, status |-> s]
<1>1. docs' = docs \cup {new} /\ new.host = h /\ new.name = n
  BY DEF Insert
<1>2. \A d \in docs : ~(d.host = h /\ d.name = n)
  BY DEF Here
<1> HIDE DEF new
<1> QED BY <1>1, <1>2 DEF UniqueActive

LEMMA UpsertKeepsIndex ==
  ASSUME DocsOK, UniqueActive, NEW h \in Hosts, NEW n, NEW s \in Statuses, Upsert(h, n, s)
  PROVE  UniqueActive'
<1>1. CASE Named(n) = {}
  <2>1. Here(h, n) = {}
    BY <1>1 DEF Here, Named
  <2> QED BY <1>1, <2>1, InsertKeepsIndex DEF Upsert
<1>2. CASE Named(n) # {}
  <2>1. PICK d \in docs : d = First(Named(n)) /\ d \in Document
    BY <1>2, NamedFirst
  <2> DEFINE e == [d EXCEPT !.host = h, !.status = s]
  <2>2. e \in Document /\ e.id = d.id
    BY <2>1 DEF Document, Statuses
  <2>3. Commit(h, d, e)
    BY <1>2, <2>1 DEF Upsert
  <2> HIDE DEF e
  <2> QED BY <2>2, <2>3, CommitKeepsIndex
<1> QED BY <1>1, <1>2

LEMMA HandleKeepsIndex ==
  ASSUME DocsOK, QueueOK, UniqueActive, NEW h \in Hosts, Handle(h)
  PROVE  UniqueActive'
<1>1. queue[h] # <<>> /\ Cmd(h).name \in Names /\ Cmd(h).new \in Names
  BY Busy, CmdType
<1> DEFINE n == Cmd(h).name
<1>2. ASSUME docs' \subseteq docs PROVE UniqueActive'
  BY <1>2 DEF UniqueActive
<1>3. CASE CreateDoc(h)
  BY <1>3, UpsertKeepsIndex DEF CreateDoc, Statuses
<1>4. CASE CreateStopped(h)
  BY <1>4, UpsertKeepsIndex DEF CreateStopped, Statuses
<1>5. CASE KillDoc(h)
  <2> DEFINE found == IF Here(h, n) # {} THEN Here(h, n) ELSE Named(n)
  <2>1. CASE found = {}
    BY <1>2, <1>5, <2>1 DEF KillDoc
  <2>2. CASE found # {}
    <3>1. found \subseteq docs /\ found \subseteq Document
      BY DEF Here, Named, DocsOK
    <3>2. First(found) \in found
      BY <2>2, <3>1, FirstIn
    <3>3. PICK d \in docs : d = First(found) /\ d \in Document
      BY <3>1, <3>2
    <3> DEFINE e == [d EXCEPT !.status = "stopped"]
    <3>4. e \in Document /\ e.id = d.id /\ e.status # "active"
      BY <3>3 DEF Document
    <3>5. Write(d, e)
      BY <1>5, <2>2, <3>3 DEF KillDoc
    <3> HIDE DEF e
    <3> QED BY <3>4, <3>5, WriteKeepsIndex
  <2> QED BY <2>1, <2>2
<1>6. CASE DeleteDoc(h)
  BY <1>2, <1>6 DEF DeleteDoc
<1>7. CASE RenameDoc(h)
  <2>1. CASE Named(n) = {}
    BY <1>2, <1>7, <2>1 DEF RenameDoc
  <2>2. CASE Named(n) # {}
    <3> DEFINE d == First(Named(n))
               e == [d EXCEPT !.name = Cmd(h).new]
    <3>1. d \in docs /\ d \in Document
      BY <2>2, NamedFirst
    <3>2. e \in Document /\ e.id = d.id
      BY <1>1, <3>1, NameWritten
    <3>3. Commit(h, d, e)
      BY <1>7, <2>2 DEF RenameDoc
    <3> HIDE DEF d, e
    <3> QED BY <3>1, <3>2, <3>3, CommitKeepsIndex
  <2> QED BY <2>1, <2>2
<1>8. CASE ResumeDoc(h)
  <2>1. CASE Named(n) = {}
    <3>1. Here(NoHost, n) = {}
      BY <2>1 DEF Here, Named
    <3> QED BY <1>8, <2>1, <3>1, InsertKeepsIndex DEF ResumeDoc
  <2>2. CASE Named(n) # {}
    <3> DEFINE d == First(Named(n))
               e == [d EXCEPT !.status = "active"]
    <3>1. d \in docs /\ d \in Document
      BY <2>2, NamedFirst
    <3>2. e \in Document /\ e.id = d.id
      BY <3>1, StatusWritten DEF Statuses
    <3>3. Commit(h, d, e)
      BY <1>8, <2>2 DEF ResumeDoc
    <3> HIDE DEF d, e
    <3> QED BY <3>1, <3>2, <3>3, CommitKeepsIndex
  <2> QED BY <2>1, <2>2
<1>9. CASE \/ CreateRefused(h) \/ CreatePane(h) \/ CreateLaunch(h) \/ CreateNoFolder(h)
           \/ KillPane(h) \/ DeleteRead(h) \/ DeletePane(h) \/ RenamePane(h) \/ TakeResume(h)
           \/ ResumeRefused(h) \/ ResumePane(h) \/ ResumeLaunch(h) \/ Expire(h) \/ Ack(h)
  <2>1. UNCHANGED docs
    BY <1>9 DEF CreateRefused, CreatePane, CreateLaunch, Launch, CreateNoFolder, KillPane,
       DeleteRead, DeletePane, RenamePane, TakeResume, ResumeRefused, ResumePane, ResumeLaunch,
       Expire, Ack
  <2> QED BY <1>2, <2>1
<1> QED BY <1>3, <1>4, <1>5, <1>6, <1>7, <1>8, <1>9 DEF Handle

LEMMA ScanKeepsIndex ==
  ASSUME DocsOK, UniqueActive, NEW h \in Hosts, Scan(h)
  PROVE  UniqueActive'
<1>1. CASE ScanList(h)
  BY <1>1 DEF ScanList, UniqueActive
<1>2. ASSUME NEW n \in Names, ScanSee(h, n) PROVE UniqueActive'
  <2>1. CASE Known(h, n) = {}
    <3>1. Here(h, n) = {}
      BY <2>1 DEF Known
    <3> QED BY <1>2, <2>1, <3>1, InsertKeepsIndex DEF ScanSee
  <2>2. CASE Known(h, n) # {} /\ Collides(Seen(h, n))
    BY <1>2, <2>2 DEF ScanSee, Fall, UniqueActive
  <2>3. CASE Known(h, n) # {} /\ ~Collides(Seen(h, n))
    <3> DEFINE d == First(Known(h, n))
               e == [d EXCEPT !.status = "active"]
    <3>1. d \in docs /\ d \in Document
      BY <2>3, KnownHere, FirstIn
    <3>2. e \in Document /\ e.id = d.id
      BY <3>1, StatusWritten DEF Statuses
    <3>3. Write(d, e) /\ ~Collides(e)
      BY <1>2, <2>3 DEF ScanSee, Seen
    <3> HIDE DEF d, e
    <3> QED BY <3>1, <3>2, <3>3, WriteKeepsIndex
  <2> QED BY <2>1, <2>2, <2>3
<1>3. CASE ScanStop(h)
  <2>1. \A d \in docs : Stopped(h, scan[h].seen)[d].status = "active" => d.status = "active"
    BY DEF DocsOK, Document, Stopped
  <2>2. \A k \in docs' : \E d \in docs :
          /\ k = Stopped(h, scan[h].seen)[d]
          /\ k.host = d.host /\ k.name = d.name
          /\ k.status = "active" => d.status = "active"
    BY <1>3, <2>1, StopAllRewrites DEF ScanStop
  <2> QED BY <2>2 DEF UniqueActive
<1> QED BY <1>1, <1>2, <1>3 DEF Scan

\* A worker that starts claims a document only where the index lets it.
LEMMA RestartKeepsIndex ==
  ASSUME DocsOK, UniqueActive, NEW h \in Hosts, Restart(h)
  PROVE  UniqueActive'
<1>1. docs \subseteq Document /\ \A d, e \in docs : d.id = e.id => d = e
  BY DEF DocsOK
<1>2. h # NoHost
  BY LifecycleAssumption
<1>3. \A d \in docs : Restarted(h)[d].status = "active" => d.status = "active"
  BY <1>1 DEF Document, Restarted
<1>4. \A k \in docs' : \E d \in docs :
        /\ k = Restarted(h)[d] /\ k.name = d.name
        /\ k.host = IF d.host = NoHost THEN h ELSE d.host
        /\ k.status = "active" => d.status = "active"
  BY <1>3, RestartRewrites
<1>5. ASSUME NEW d \in docs, NEW e \in docs, d.status = "active", e.status = "active",
             d.host = NoHost, e.host = h, d.name = e.name
      PROVE  FALSE
  <2> DEFINE c == [d EXCEPT !.host = h]
  <2>1. c.id = d.id /\ c.host = h /\ c.name = d.name /\ c.status = d.status
    BY <1>1 DEF Document
  <2>2. e.id # d.id
    BY <1>1, <1>2, <1>5
  <2>3. ~Collides(c)
    BY <1>5 DEF Restart
  <2> HIDE DEF c
  <2> QED BY <1>5, <2>1, <2>2, <2>3 DEF Collides
<1>6. ASSUME NEW d \in docs, NEW e \in docs, d.status = "active", e.status = "active",
             d.name = e.name,
             (IF d.host = NoHost THEN h ELSE d.host) = (IF e.host = NoHost THEN h ELSE e.host)
      PROVE  d = e
  <2>1. CASE d.host = e.host
    BY <1>6, <2>1 DEF UniqueActive
  <2>2. CASE d.host = NoHost /\ e.host # NoHost
    BY <1>5, <1>6, <2>2
  <2>3. CASE d.host # NoHost /\ e.host = NoHost
    BY <1>5, <1>6, <2>3
  <2> QED BY <1>6, <2>1, <2>2, <2>3
<1>7. ASSUME NEW k \in docs', NEW l \in docs', k.status = "active", l.status = "active",
             k.host = l.host, k.name = l.name
      PROVE  k = l
  <2>1. PICK d \in docs : /\ k = Restarted(h)[d] /\ k.name = d.name
                          /\ k.host = IF d.host = NoHost THEN h ELSE d.host
                          /\ d.status = "active"
    BY <1>4, <1>7
  <2>2. PICK e \in docs : /\ l = Restarted(h)[e] /\ l.name = e.name
                          /\ l.host = IF e.host = NoHost THEN h ELSE e.host
                          /\ e.status = "active"
    BY <1>4, <1>7
  <2>3. d = e
    BY <1>6, <1>7, <2>1, <2>2
  <2> QED BY <2>1, <2>2, <2>3
<1> QED BY <1>7 DEF UniqueActive

LEMMA ClientKeepsIndex ==
  ASSUME DocsOK, UniqueActive, Client
  PROVE  UniqueActive'
<1>1. ASSUME docs' \subseteq docs PROVE UniqueActive'
  BY <1>1 DEF UniqueActive
<1>2. CASE \E h \in Hosts, n \in Names : CreateRequest(h, n)
  BY <1>1, <1>2 DEF CreateRequest
<1>3. ASSUME NEW d \in docs, KillRequest(d) PROVE UniqueActive'
  <2> DEFINE e == [d EXCEPT !.status = "stopped"]
  <2>1. e \in Document /\ e.id = d.id /\ e.status # "active"
    BY DEF DocsOK, Document
  <2>2. UNCHANGED docs \/ Write(d, e)
    BY <1>3 DEF KillRequest
  <2> HIDE DEF e
  <2> QED BY <1>1, <2>1, <2>2, WriteKeepsIndex
<1>4. ASSUME NEW d \in docs,
             PurgeRequest(d) \/ ResumeRequest(d) \/ (\E n \in Names : RenameRequest(d, n))
      PROVE  UniqueActive'
  <2>1. docs' \subseteq docs
    BY <1>4 DEF PurgeRequest, ResumeRequest, RenameRequest
  <2> QED BY <1>1, <2>1
<1> QED BY <1>2, <1>3, <1>4 DEF Client

\* Whatever handlers, consumers and discoveries interleave, and however workers die,
\* no two active documents have one host and one name.  A rewrite asks the index;
\* an insertion need not: what it looked for, with whatever keys, covers the index.
THEOREM IndexHolds == Spec => []UniqueActive
<1>1. Init => UniqueActive
  BY DEF Init, UniqueActive
<1>2. ASSUME TypeOK, UniqueActive, [Next]_vars PROVE UniqueActive'
  <2>1. DocsOK /\ QueueOK
    BY <1>2, TypeParts
  <2>2. ASSUME NEW h \in Hosts, Crash(h) \/ \E n \in Names : AgentUp(h, n) \/ ByHand(h, n)
        PROVE  UniqueActive'
    <3>1. UNCHANGED docs
      BY <2>2 DEF Crash, AgentUp, ByHand
    <3> QED BY <1>2, <3>1 DEF UniqueActive
  <2>3. CASE UNCHANGED vars
    BY <1>2, <2>3 DEF vars, UniqueActive
  <2> QED BY <1>2, <2>1, <2>2, <2>3, ClientKeepsIndex, HandleKeepsIndex, ScanKeepsIndex,
          RestartKeepsIndex DEF Next
<1> QED BY <1>1, <1>2, LifecycleTypes, PTL DEF Spec

-----------------------------------------------------------------------------
(* Documents of other hosts. *)

Disjoint == \A g, h \in Hosts : g # h => NamesOf[g] \cap NamesOf[h] = {}

LEMMA OrderedCommands ==
  ASSUME TypeOK
  PROVE  InOrder <=>
           /\ \A d \in docs : d.host # NoHost => d.name \in NamesOf[d.host]
           /\ \A h \in Hosts : \A c \in Waiting(h) : {c.name, c.new} \subseteq NamesOf[h]
BY DEF InOrder, Waiting

\* The steps that move the handler or the cycle of h are its own.
LEMMA OwnSteps ==
  ASSUME TypeOK, Next, NEW h \in Hosts, handler'[h] # handler[h] \/ scan'[h] # scan[h]
  PROVE  Handle(h) \/ Scan(h) \/ Crash(h)
<1>1. DocsOK /\ PanesOK /\ QueueOK /\ ScansOK
  BY TypeParts
<1>2. /\ handler \in [Hosts -> Steps]
      /\ scan \in [Hosts -> [on : BOOLEAN, seen : SUBSET Names, todo : SUBSET Names]]
  BY <1>1 DEF QueueOK, ScansOK
<1>3. CASE Client
  BY <1>1, <1>3, ClientRests DEF ClientRest
<1>4. ASSUME NEW g \in Hosts, g # h, Handle(g) PROVE FALSE
  BY <1>1, <1>2, <1>4, HandleRests DEF HandleQueue, HandleRest
<1>5. ASSUME NEW g \in Hosts, g # h, Scan(g) PROVE FALSE
  BY <1>1, <1>2, <1>5, ScanRests DEF ScanRest
<1>6. ASSUME NEW g \in Hosts, g # h, Crash(g) PROVE FALSE
  BY <1>2, <1>6 DEF Crash
<1>7. ASSUME NEW g \in Hosts, Restart(g) \/ \E n \in Names : AgentUp(g, n) \/ ByHand(g, n)
      PROVE  FALSE
  BY <1>7 DEF Restart, AgentUp, ByHand
<1> QED BY <1>3, <1>4, <1>5, <1>6, <1>7 DEF Next

\* A document that a worker writes is of a name that it was told, or one it knows.
LEMMA OwnDocsStep ==
  ASSUME TypeOK, InOrder, Disjoint, Next, NEW h \in Hosts,
         handler'[h] # handler[h] \/ scan'[h] # scan[h],
         NEW d \in docs, d.host \notin {h, NoHost}
  PROVE  d \in docs'
<1>1. DocsOK /\ PanesOK /\ QueueOK /\ ScansOK
  BY TypeParts
<1>2. d.host \in Hosts /\ d.name \in NamesOf[d.host]
  BY <1>1 DEF InOrder, DocsOK, Document
<1>3. d.name \notin NamesOf[h]
  BY <1>2 DEF Disjoint
<1>4. CASE Handle(h)
  <2>1. HandleDocs(h)
    BY <1>1, <1>4, HandleWrites
  <2>2. Cmd(h).name \in NamesOf[h]
    BY <1>1, <1>4, Busy, CmdWaits, OrderedCommands
  <2>3. d.name # Cmd(h).name => d \in docs'
    BY <2>1 DEF HandleDocs, Named, Write, Insert
  <2> QED BY <1>3, <2>2, <2>3
<1>5. CASE Scan(h)
  <2>1. ScanDocs(h)
    BY <1>1, <1>5, ScanWrites
  <2>2. ASSUME NEW n, NEW k \in Known(h, n), NEW e, Write(k, e) PROVE d \in docs'
    BY <1>1, <2>2, KnownHere DEF Write
  <2>3. ASSUME StopAll(Missing(h, scan[h].seen)) PROVE d \in docs'
    BY <2>3 DEF StopAll, Missing
  <2>4. ASSUME NEW n, Insert(h, n, "active") PROVE d \in docs'
    BY <2>4 DEF Insert
  <2> QED BY <2>1, <2>2, <2>3, <2>4 DEF ScanDocs
<1>6. CASE Crash(h)
  BY <1>6 DEF Crash
<1> QED BY <1>4, <1>5, <1>6, OwnSteps

\* Before a resume of another host has left a document without host that a worker
\* then claimed, the consumer and the discovery of a host remove and rewrite no
\* document of another, whatever names their queries look up.
THEOREM WorkersKeepToTheirOwn ==
  ASSUME Disjoint
  PROVE  Spec => OwnDocsOnly
<1>1. ASSUME TypeOK, InOrder, [Next]_vars
      PROVE  \A h \in Hosts : handler'[h] # handler[h] \/ scan'[h] # scan[h] =>
               \A d \in docs : d.host \notin {h, NoHost} => d \in docs'
  <2>1. CASE UNCHANGED vars
    BY <2>1 DEF vars
  <2>2. CASE Next
    BY <1>1, <2>2, OwnDocsStep
  <2> QED BY <1>1, <2>1, <2>2
<1> QED BY <1>1, LifecycleTypes, PTL DEF Spec, OwnDocsOnly

-----------------------------------------------------------------------------
(* What keeps the names of the hosts apart. *)

\* A worker that restarts finds no document without a host but of its own names.
ClaimsOwn ==
  \A h \in Hosts : worker[h] = "down" /\ worker'[h] = "up" =>
    \A d \in docs : d.host = NoHost => d.name \in NamesOf[h]

\* Discovery takes its names from tmux, so the order has to hold there too.
Ordered ==
  /\ InOrder
  /\ \A h \in Hosts, n \in Names : tmux[h][n] # "none" => n \in NamesOf[h]
  /\ \A h \in Hosts : scan[h].todo \subseteq NamesOf[h]

LEMMA OrderedInit == Init => Ordered
BY LifecycleAssumption DEF Init, Ordered, InOrder, Resting

LEMMA OrderedQueue ==
  ASSUME TypeOK, Ordered, [Next]_vars
  PROVE  \A h \in Hosts : \A c \in Waiting(h)' : {c.name, c.new} \subseteq NamesOf[h]
<1>1. ASSUME NEW h \in Hosts, NEW c, Asked(h, c) PROVE {c.name, c.new} \subseteq NamesOf[h]
  <2>1. h # NoHost
    BY LifecycleAssumption
  <2> QED BY <1>1, <2>1 DEF Asked, Ordered, InOrder
<1> QED BY <1>1, NewCommands, OrderedCommands DEF Ordered

LEMMA OrderedPanes ==
  ASSUME TypeOK, Ordered, [Next]_vars
  PROVE  /\ \A g \in Hosts, n \in Names : tmux'[g][n] # "none" => n \in NamesOf[g]
         /\ \A g \in Hosts : scan'[g].todo \subseteq NamesOf[g]
<1>1. DocsOK /\ PanesOK /\ QueueOK /\ ScansOK
  BY TypeParts
<1> DEFINE P == \A g \in Hosts, n \in Names : tmux'[g][n] # "none" => n \in NamesOf[g]
           S == \A g \in Hosts : scan'[g].todo \subseteq NamesOf[g]
<1>2. UNCHANGED tmux => P
  BY DEF Ordered
<1>3. UNCHANGED scan => S
  BY DEF Ordered
<1>4. ASSUME NEW h \in Hosts, scan' = [scan EXCEPT ![h] = Resting] PROVE S
  BY <1>1, <1>4, RestingType DEF Ordered, ScansOK
<1>5. CASE Client
  BY <1>1, <1>2, <1>3, <1>5, ClientRests DEF ClientRest
<1>6. ASSUME NEW h \in Hosts, Handle(h) PROVE P /\ S
  <2>1. HandlePanes(h) /\ HandleRest(h) /\ queue[h] # <<>>
    BY <1>1, <1>6, HandleRests, Busy
  <2>2. {Cmd(h).name, Cmd(h).new} \subseteq NamesOf[h]
    BY <1>1, <2>1, CmdWaits, OrderedCommands DEF Ordered
  <2>3. P
    BY <1>1, <1>2, <2>1, <2>2 DEF HandlePanes, PanesOK, Ordered
  <2> QED BY <1>3, <1>4, <2>1, <2>3 DEF HandleRest
<1>7. ASSUME NEW h \in Hosts, Scan(h) PROVE P /\ S
  <2>1. ScanRest(h)
    BY <1>1, <1>7, ScanRests
  <2>2. ASSUME NEW s \in [on : BOOLEAN, seen : SUBSET Names, todo : SUBSET Names],
               scan' = [scan EXCEPT ![h] = s],
               \A n \in s.todo : n \in scan[h].todo \/ tmux[h][n] # "none"
        PROVE  S
    <3>1. s.todo \subseteq NamesOf[h]
      BY <2>2 DEF Ordered
    <3> QED BY <1>1, <2>2, <3>1 DEF Ordered, ScansOK
  <2> QED BY <1>2, <1>4, <2>1, <2>2 DEF ScanRest
<1>8. ASSUME NEW h \in Hosts, Crash(h) \/ Restart(h) PROVE P /\ S
  BY <1>2, <1>3, <1>4, <1>8 DEF Crash, Restart
<1>9. ASSUME NEW h \in Hosts, NEW n \in Names, AgentUp(h, n) \/ ByHand(h, n) PROVE P /\ S
  <2>1. n \in NamesOf[h] /\ \E what : Pane(h, n, what)
    BY <1>9 DEF AgentUp, ByHand, Ordered
  <2>2. P
    BY <1>1, <2>1 DEF Pane, PanesOK, Ordered
  <2> QED BY <1>3, <1>9, <2>2 DEF AgentUp, ByHand
<1>10. CASE UNCHANGED vars
  BY <1>2, <1>3, <1>10 DEF vars
<1> QED BY <1>5, <1>6, <1>7, <1>8, <1>9, <1>10 DEF Next

LEMMA OrderedDocs ==
  ASSUME TypeOK, Ordered, Disjoint, [Next]_vars, ClaimsOwn
  PROVE  \A d \in docs' : d.host # NoHost => d.name \in NamesOf[d.host]
<1> DEFINE Own(d) == d.host # NoHost => d.name \in NamesOf[d.host]
<1>1. DocsOK /\ PanesOK /\ QueueOK /\ ScansOK
  BY TypeParts
<1>2. \A d \in docs : Own(d) /\ d.host \in Hosts \cup {NoHost}
  BY <1>1 DEF Ordered, InOrder, DocsOK, Document
<1>3. ASSUME docs' \subseteq docs PROVE \A d \in docs' : Own(d)
  BY <1>2, <1>3
<1>4. ASSUME NEW d \in docs, NEW e, Write(d, e), Own(e) PROVE \A k \in docs' : Own(k)
  BY <1>2, <1>4 DEF Write
<1>5. ASSUME NEW d \in docs, NEW e, Write(d, e), e.host = d.host, e.name = d.name
      PROVE  \A k \in docs' : Own(k)
  BY <1>2, <1>4, <1>5
<1>6. ASSUME NEW g, NEW n, NEW s, Insert(g, n, s), g # NoHost => n \in NamesOf[g]
      PROVE  \A d \in docs' : Own(d)
  <2> DEFINE new == [id |-> born + 1, host |-> g, name |-> n, status |-> s]
  <2>1. docs' = docs \cup {new} /\ new.name = n /\ new.host = g
    BY <1>6 DEF Insert
  <2> HIDE DEF new
  <2> QED BY <1>2, <1>6, <2>1
<1>7. CASE Client
  BY <1>1, <1>3, <1>5, <1>7, ClientWrites DEF ClientDocs
<1>8. ASSUME NEW h \in Hosts, Handle(h) PROVE \A d \in docs' : Own(d)
  <2>1. HandleDocs(h) /\ queue[h] # <<>>
    BY <1>1, <1>8, HandleWrites, Busy
  <2>2. {Cmd(h).name, Cmd(h).new} \subseteq NamesOf[h]
    BY <1>1, <2>1, CmdWaits, OrderedCommands DEF Ordered
  <2>3. ASSUME NEW d \in Named(Cmd(h).name), NEW e, e.host \in {d.host, h},
               e.name \in {d.name, Cmd(h).new}
        PROVE  Own(e)
    <3>1. d \in docs /\ d.name \in NamesOf[h]
      BY <2>2 DEF Named
    <3>2. d.host \in {h, NoHost}
      BY <1>2, <3>1 DEF Disjoint
    <3> QED BY <2>2, <2>3, <3>1, <3>2
  <2>4. ASSUME NEW d \in Named(Cmd(h).name), docs' = docs \ {d} PROVE \A k \in docs' : Own(k)
    BY <1>3, <2>4
  <2>5. ASSUME NEW d \in Named(Cmd(h).name), NEW e, Write(d, e), e.host \in {d.host, h},
               e.name \in {d.name, Cmd(h).new}
        PROVE  \A k \in docs' : Own(k)
    BY <1>4, <2>3, <2>5 DEF Named
  <2> HIDE DEF Own
  <2> QED BY <1>3, <1>6, <2>1, <2>2, <2>4, <2>5 DEF HandleDocs
<1>9. ASSUME NEW h \in Hosts, Scan(h) PROVE \A d \in docs' : Own(d)
  <2>1. ScanDocs(h)
    BY <1>1, <1>9, ScanWrites
  <2>2. scan[h].todo \subseteq NamesOf[h]
    BY DEF Ordered
  <2>3. ASSUME StopAll(Missing(h, scan[h].seen)) PROVE \A d \in docs' : Own(d)
    <3>1. \A k \in docs' : \E d \in docs : k.host = d.host /\ k.name = d.name
      BY <1>1, <2>3, StopAllRewrites
    <3> QED BY <1>2, <3>1
  <2> HIDE DEF Own
  <2> QED BY <1>1, <1>3, <1>5, <1>6, <2>1, <2>2, <2>3, KnownHere DEF ScanDocs
<1>10. ASSUME NEW h \in Hosts, Restart(h) PROVE \A d \in docs' : Own(d)
  <2>1. \A d \in docs : d.host = NoHost => d.name \in NamesOf[h]
    <3>1. worker[h] = "down" /\ worker' = [worker EXCEPT ![h] = "up"]
      BY <1>10 DEF Restart
    <3>2. worker'[h] = "up"
      BY <3>1, TypeParts DEF WorkersOK
    <3> QED BY <3>1, <3>2 DEF ClaimsOwn
  <2>2. \A k \in docs' : \E d \in docs : /\ k.name = d.name
                                         /\ k.host = IF d.host = NoHost THEN h ELSE d.host
    BY <1>1, <1>10, RestartRewrites
  <2> QED BY <1>2, <2>1, <2>2
<1>11. ASSUME NEW h \in Hosts, Crash(h) \/ \E n \in Names : AgentUp(h, n) \/ ByHand(h, n)
       PROVE  \A d \in docs' : Own(d)
  BY <1>3, <1>11 DEF Crash, AgentUp, ByHand
<1>12. CASE UNCHANGED vars
  BY <1>3, <1>12 DEF vars
<1> QED BY <1>7, <1>8, <1>9, <1>10, <1>11, <1>12 DEF Next

LEMMA OrderedStep ==
  ASSUME TypeOK, TypeOK', Ordered, Disjoint, [Next]_vars, ClaimsOwn
  PROVE  Ordered'
<1>1. (InOrder <=>
           /\ \A d \in docs : d.host # NoHost => d.name \in NamesOf[d.host]
           /\ \A h \in Hosts : \A c \in Waiting(h) : {c.name, c.new} \subseteq NamesOf[h])'
  BY OrderedCommands, PTL
<1>2. InOrder'
  BY <1>1, OrderedQueue, OrderedDocs
<1> QED BY <1>2, OrderedPanes DEF Ordered

\* It is those claims alone that mix the names of two hosts: as long as every
\* restart finds only documents of its own names without a host, each document and
\* each command of a host bears a name of that host.
THEOREM OnlyClaimsMix ==
  ASSUME Disjoint
  PROVE  Spec /\ [][ClaimsOwn]_vars => []InOrder
<1>1. Ordered => InOrder
  BY DEF Ordered
<1>2. TypeOK /\ TypeOK' /\ Ordered /\ [Next]_vars /\ [ClaimsOwn]_vars => Ordered'
  <2>1. UNCHANGED vars => ClaimsOwn
    <3>1. ASSUME UNCHANGED vars PROVE \A h \in Hosts : worker'[h] = worker[h]
      BY <3>1 DEF vars
    <3>2. ASSUME UNCHANGED vars, NEW h \in Hosts, worker[h] = "down", worker'[h] = "up"
          PROVE  FALSE
      BY <3>1, <3>2
    <3> QED BY <3>2 DEF ClaimsOwn
  <2> QED BY <2>1, OrderedStep
<1> QED BY <1>1, <1>2, OrderedInit, LifecycleTypes, PTL DEF Spec

-----------------------------------------------------------------------------
(* Kills and deletes. *)

\* A kill or a delete that its worker carries out empties the pane, or is refused.
LEMMA EndingPane ==
  ASSUME QueueOK, PanesOK, SpentOK, NEW h \in Hosts, Handle(h),
         handler[h] \in {"idle", "delete_read"}, handler'[h] # "delete_read",
         Cmd(h).type \in {"kill", "delete"}, queue[h] # <<>>
  PROVE  tmux'[h][Cmd(h).name] = "none" \/ spent'.refusals > spent.refusals
<1>1. Cmd(h).name \in Names
  BY CmdType
<1>2. ~DeleteRead(h)
  BY DEF DeleteRead, Goto, QueueOK
<1>3. KillPane(h) \/ DeletePane(h)
  BY <1>2 DEF Handle, CreateRefused, CreatePane, CreateLaunch, CreateDoc, CreateNoFolder,
         CreateStopped, KillDoc, DeleteDoc, RenamePane, RenameDoc, TakeResume, ResumeRefused,
         ResumePane, ResumeLaunch, ResumeDoc, Expire, Ack, Taking, At, Guarded
<1>4. Kills(h, Cmd(h).name)
  BY <1>3 DEF KillPane, DeletePane
<1>5. CASE KillSession(h, Cmd(h).name)
  BY <1>1, <1>5 DEF KillSession, Pane, PanesOK
<1>6. CASE spent' = [spent EXCEPT !.refusals = @ + 1]
  BY <1>6 DEF SpentOK
<1> QED BY <1>4, <1>5, <1>6 DEF Kills

LEMMA EndingStep ==
  ASSUME TypeOK, [Next]_vars, NEW h \in Hosts, NEW n \in Names, Ending(h, n), ~Ending(h, n)'
  PROVE  tmux'[h][n] = "none" \/ Refused(h) \/ Cancelled(h)
<1>1. DocsOK /\ PanesOK /\ QueueOK /\ ScansOK /\ SpentOK
  BY TypeParts
<1>2. /\ queue[h] \in Seq(Command) /\ QueueStep(h)
      /\ queue \in [Hosts -> Seq(Command)] /\ handler \in [Hosts -> Steps]
  BY <1>1, QueueSteps DEF QueueOK
<1>3. PICK i \in 1..Len(queue[h]) : /\ queue[h][i].type \in {"kill", "delete"}
                                    /\ queue[h][i].name = n
                                    /\ i = 1 => handler[h] \in {"idle", "delete_read"}
  BY DEF Ending
<1>4. i = 1 /\ handler'[h] # handler[h]
  <2>1. CASE queue'[h] = queue[h]
    BY <1>3, <2>1 DEF Ending
  <2>2. ASSUME NEW c \in Command, queue'[h] = Append(queue[h], c), handler'[h] = handler[h]
        PROVE  FALSE
    <3>1. i \in 1..Len(queue'[h]) /\ queue'[h][i] = queue[h][i]
      BY <1>2, <2>2
    <3> QED BY <1>3, <2>2, <3>1 DEF Ending
  <2>3. CASE queue[h] # <<>> /\ queue'[h] = Tail(queue[h]) /\ handler[h] # "idle" /\ handler'[h] = "idle"
    <3>1. SUFFICES ASSUME i # 1 PROVE FALSE
      BY <2>3
    <3>2. i - 1 \in 1..Len(queue'[h]) /\ queue'[h][i - 1] = queue[h][i]
      BY <1>2, <2>3, <3>1
    <3> QED BY <1>3, <2>3, <3>2 DEF Ending
  <2> QED BY <1>2, <2>1, <2>2, <2>3 DEF QueueStep
<1>5. queue[h] # <<>> /\ Cmd(h) = queue[h][1] /\ handler[h] \in {"idle", "delete_read"}
  BY <1>2, <1>3, <1>4 DEF Cmd
<1>6. Next
  BY <1>4 DEF vars
<1>7. CASE Handle(h)
  <2>1. handler'[h] # "delete_read"
    <3> SUFFICES ASSUME handler'[h] = "delete_read" PROVE FALSE
      OBVIOUS
    <3>1. queue'[h] # queue[h]
      BY <1>3, <1>4 DEF Ending
    <3>2. handler'[h] = "idle"
      BY <1>1, <1>2, <1>7, <3>1, HandleRests DEF HandleQueue
    <3> QED BY <3>2
  <2> QED BY <1>1, <1>3, <1>4, <1>5, <1>7, <2>1, EndingPane DEF Refused
<1>8. CASE Scan(h) \/ Crash(h)
  <2>1. handler'[h] = "idle" /\ worker'[h] = "down"
    BY <1>1, <1>2, <1>4, <1>8, ScanRests DEF ScanRest, Crash, TypeOK
  <2> QED BY <1>4, <1>5, <2>1 DEF Cancelled
<1> QED BY <1>4, <1>6, <1>7, <1>8, OwnSteps

\* Whatever crashes, falls or expires meanwhile, a kill or a delete leaves the
\* queue of its host only with the pane of its session gone: or tmux refused to kill
\* it, or the worker went down between the read of a delete and its kill.
THEOREM KillsAreDone == Spec => KillIsDone
<1>1. ASSUME TypeOK, [Next]_vars
      PROVE  \A h \in Hosts, n \in Names :
               Ending(h, n) /\ ~Ending(h, n)' => tmux'[h][n] = "none" \/ Refused(h) \/ Cancelled(h)
  BY <1>1, EndingStep
<1> QED BY <1>1, LifecycleTypes, PTL DEF Spec, KillIsDone
=============================================================================
