--------------------------- MODULE SessionMove_proofs ---------------------------
(***************************************************************************)
(* Proofs about SessionMove: the types, the inductive invariant IndInv and  *)
(* what follows from it; and Orderly, with the one agent and the whole      *)
(* conversation that follow from that; for any set of hosts, any bounds, and*)
(* whatever clients, crashes, lost publishes and discovery do.              *)
(***************************************************************************)
EXTENDS SessionMove, TLAPS

-----------------------------------------------------------------------------
(* Types. *)

\* A command keeps its fields, and appending or removing one keeps the queues.
LEMMA CmdType ==
  ASSUME NEW type \in {"move_out", "move_in", "resume", "input"},
         NEW from \in Hosts, NEW to \in Hosts, NEW tid \in Tids
  PROVE  /\ Cmd(type, from, to, tid) \in Cmds
         /\ Cmd(type, from, to, tid).type = type
         /\ Cmd(type, from, to, tid).from = from
         /\ Cmd(type, from, to, tid).to = to
         /\ Cmd(type, from, to, tid).tid = tid
BY DEF Cmd, Cmds

LEMMA SendType ==
  ASSUME queue \in [Hosts -> Seq(Cmds)], NEW h \in Hosts, NEW c \in Cmds, Send(h, c)
  PROVE  queue' \in [Hosts -> Seq(Cmds)]
BY DEF Send

LEMMA HeadType ==
  ASSUME queue \in [Hosts -> Seq(Cmds)], NEW h \in Hosts, queue[h] # <<>>
  PROVE  /\ Head(queue[h]) \in Cmds
         /\ Head(queue[h]).type \in {"move_out", "move_in", "resume", "input"}
         /\ Head(queue[h]).from \in Hosts /\ Head(queue[h]).to \in Hosts
         /\ Head(queue[h]).tid \in Tids
<1>1. queue[h] \in Seq(Cmds)
  OBVIOUS
<1>2. Head(queue[h]) \in Cmds
  BY <1>1
<1> QED BY <1>2 DEF Cmds

LEMMA TailType ==
  ASSUME queue \in [Hosts -> Seq(Cmds)], NEW h \in Hosts, queue[h] # <<>>
  PROVE  [queue EXCEPT ![h] = Tail(@)] \in [Hosts -> Seq(Cmds)]
<1>1. Tail(queue[h]) \in Seq(Cmds)
  <2>1. queue[h] \in Seq(Cmds)
    OBVIOUS
  <2> QED BY <2>1
<1> QED BY <1>1

\* What the assumption on the constants gives, one fact at a time.
LEMMA Bounds ==
  /\ 0 \in Tids /\ MaxTransfers \in Nat /\ Home \in Hosts
  /\ MaxMoves \in Nat /\ MaxResumes \in Nat /\ MaxInputs \in Nat
  /\ MaxExpired \in Nat /\ MaxCrashes \in Nat
BY MoveAssumption DEF Tids

\* Rewriting or removing "moving" keeps the document's owner.
LEMMA DocType ==
  ASSUME NEW d \in Docs, NEW p \in Phases
  PROVE  /\ Phase(d, p) \in Docs
         /\ Phase(d, p).tid = d.tid /\ Phase(d, p).host = d.host
         /\ Phase(d, p).phase = p
         /\ Unmoved(d) \in Docs
         /\ Unmoved(d).tid = 0 /\ Unmoved(d).host = d.host
         /\ Unmoved(d).phase = "none"
<1>1. Phase(d, p) \in Docs
  BY DEF Phase, Docs
<1>2. Phase(d, p).tid = d.tid /\ Phase(d, p).host = d.host /\ Phase(d, p).phase = p
  BY DEF Phase, Docs
<1>3. Unmoved(d) \in Docs
  BY Bounds DEF Unmoved, Docs, Phases
<1>4. Unmoved(d).tid = 0 /\ Unmoved(d).host = d.host /\ Unmoved(d).phase = "none"
  BY DEF Unmoved, Docs
<1> QED BY <1>1, <1>2, <1>3, <1>4

LEMMA GotoType ==
  ASSUME work \in [Hosts -> Works], NEW h \in Hosts, NEW step \in Steps, Goto(h, step)
  PROVE  work' \in [Hosts -> Works]
BY DEF Goto, Works

LEMMA SpendType ==
  ASSUME spent \in Spent, NEW k \in {"moves", "resumes", "inputs", "expired", "crashes"},
         NEW max \in Nat, Spend(k, max)
  PROVE  spent' \in Spent
BY DEF Spend, Spent

LEMMA TurnType ==
  ASSUME file \in [Hosts -> Copies], parcel \in [Tids -> Copies], NEW h \in Hosts, Turn(h)
  PROVE  file' \in [Hosts -> Copies] /\ parcel' \in [Tids -> Copies]
BY DEF Turn, Behind, Copies

LEMMA LaunchedType ==
  ASSUME NEW h \in Hosts, NEW copy \in Copies
  PROVE  Launched(h, copy) \subseteq Panes
BY DEF Launched, Panes

LEMMA StoppedType ==
  ASSUME pane \in [Hosts -> Panes], NEW h \in Hosts
  PROVE  StoppedPane(h) \in [Hosts -> Panes]
BY DEF StoppedPane, Panes

LEMMA BefallsType ==
  ASSUME mishaps \subseteq Mishaps
  PROVE  /\ \A m \in Mishaps : Befalls(m) => mishaps' \subseteq Mishaps
         /\ \A until : Waits(until) => mishaps' \subseteq Mishaps
<1>1. \A m \in Mishaps : Befalls(m) => mishaps' \subseteq Mishaps
  BY DEF Befalls
<1>2. "haste" \in Mishaps
  BY DEF Mishaps
<1> QED BY <1>1, <1>2 DEF Waits

\* Every step keeps the types: first the API's steps ...
LEMMA TypeClient ==
  ASSUME TypeOK, Client \/ \E r \in requests : MoveAccept(r)
  PROVE  TypeOK'
<1> USE Bounds
<1>1. ASSUME NEW to \in Hosts, MoveRequest(to) PROVE TypeOK'
  <2>1. spent' \in Spent
    BY <1>1, SpendType DEF MoveRequest, TypeOK
  <2>2. requests' \subseteq [from : Hosts, to : Hosts]
    <3>1. doc.host \in Hosts /\ requests \subseteq [from : Hosts, to : Hosts]
      BY DEF TypeOK, Docs
    <3> QED BY <1>1, <3>1 DEF MoveRequest
  <2>3. mishaps' \subseteq Mishaps
    BY <1>1, BefallsType DEF MoveRequest, TypeOK
  <2> QED BY <1>1, <2>1, <2>2, <2>3 DEF MoveRequest, TypeOK, mongo, stores, hosted, tasks
<1>2. ASSUME NEW r \in requests, MoveAccept(r) PROVE TypeOK'
  <2>1. r.from \in Hosts /\ r.to \in Hosts /\ requests' \subseteq [from : Hosts, to : Hosts]
    BY <1>2 DEF MoveAccept, TypeOK
  <2>2. doc' \in Docs
    <3>1. ASSUME NEW d \in Docs, NEW to \in Hosts
          PROVE [d EXCEPT !.phase = "exporting", !.target = to, !.tid = 0,
                          !.age = "fresh"] \in Docs
      BY DEF Docs, Phases
    <3> QED BY <1>2, <2>1, <3>1 DEF MoveAccept, TypeOK
  <2>3. queue' \in [Hosts -> Seq(Cmds)]
    <3>1. Cmd("move_out", r.from, r.to, 0) \in Cmds
      BY <2>1, CmdType
    <3> QED BY <1>2, <2>1, <3>1, SendType DEF MoveAccept, TypeOK
  <2>4. mishaps' \subseteq Mishaps
    BY <1>2, BefallsType DEF MoveAccept, Mishaps, TypeOK
  <2> QED BY <1>2, <2>1, <2>2, <2>3, <2>4 DEF MoveAccept, TypeOK, stores, hosted, tasks
<1>3. CASE Resume
  <2>1. doc.host \in Hosts /\ doc' \in Docs
    <3>1. doc.host \in Hosts
      BY DEF TypeOK, Docs
    <3>2. Unmoved(doc) \in Docs
      BY DocType DEF TypeOK, Phases
    <3> QED BY <1>3, <3>1, <3>2 DEF Resume, TypeOK
  <2>2. queue' \in [Hosts -> Seq(Cmds)]
    <3>1. Cmd("resume", doc.host, doc.host, 0) \in Cmds
      BY <2>1, CmdType
    <3> QED BY <1>3, <2>1, <3>1, SendType DEF Resume, TypeOK
  <2>3. spent' \in Spent
    BY <1>3, SpendType DEF Resume, TypeOK
  <2>4. mishaps' \subseteq Mishaps
    BY <1>3, BefallsType DEF Resume, TypeOK
  <2> QED BY <1>3, <2>1, <2>2, <2>3, <2>4 DEF Resume, TypeOK, stores, hosted, tasks
<1>4. CASE Input
  <2>1. doc.host \in Hosts
    BY DEF TypeOK, Docs
  <2>2. queue' \in [Hosts -> Seq(Cmds)]
    <3>1. Cmd("input", doc.host, doc.host, 0) \in Cmds
      BY <2>1, CmdType
    <3> QED BY <1>4, <2>1, <3>1, SendType DEF Input, TypeOK
  <2>3. spent' \in Spent
    BY <1>4, SpendType DEF Input, TypeOK
  <2>4. mishaps' \subseteq Mishaps
    BY <1>4, BefallsType DEF Input, TypeOK
  <2> QED BY <1>4, <2>2, <2>3, <2>4 DEF Input, TypeOK, mongo, stores, hosted, tasks
<1>5. CASE GrowStale
  <2>1. doc' \in Docs
    BY <1>5 DEF GrowStale, TypeOK, Docs
  <2> QED BY <1>5, <2>1 DEF GrowStale, TypeOK, stores, hosted, tasks, outer
<1> QED BY <1>1, <1>2, <1>3, <1>4, <1>5 DEF Client

\* ... the steps of move_out ...
LEMMA TypeMoveOut ==
  ASSUME TypeOK, NEW h \in Hosts, MoveOut(h)
  PROVE  TypeOK'
<1> USE Bounds
<1>1. CASE TakeMoveOut(h)
  <2>1. work' \in [Hosts -> Works]
    BY <1>1, GotoType DEF TakeMoveOut, TypeOK, Steps, OutSteps
  <2> QED BY <1>1, <2>1 DEF TakeMoveOut, TypeOK, mongo, stores, hosted, tasks, outer
<1>2. CASE MoveOutRefuse(h)
  <2>1. work' \in [Hosts -> Works]
    BY <1>2, GotoType DEF MoveOutRefuse, TypeOK, Steps
  <2>2. doc' \in Docs
    BY <1>2, DocType DEF MoveOutRefuse, TypeOK, Phases
  <2> QED BY <1>2, <2>1, <2>2 DEF MoveOutRefuse, TypeOK, stores, hosted, tasks, outer
<1>3. CASE MoveOutStop(h)
  <2>1. work' \in [Hosts -> Works]
    BY <1>3, GotoType DEF MoveOutStop, TypeOK, Steps, OutSteps
  <2>2. pane' \in [Hosts -> Panes]
    BY <1>3, StoppedType DEF MoveOutStop, TypeOK
  <2> QED BY <1>3, <2>1, <2>2 DEF MoveOutStop, TypeOK, mongo, stores, tasks, outer
<1>4. CASE MoveOutExport(h)
  <2>1. lastTid' \in Tids
    <3>1. lastTid < MaxTransfers /\ lastTid' = lastTid + 1
      BY <1>4 DEF MoveOutExport
    <3>2. lastTid \in 0..MaxTransfers
      BY DEF TypeOK, Tids
    <3> QED BY <3>1, <3>2 DEF Tids
  <2>2. PICK stored \in BOOLEAN :
         /\ parcel' = IF stored THEN [parcel EXCEPT ![lastTid'] = file[h]] ELSE parcel
         /\ work' = [work EXCEPT
              ![h] = [at |-> IF stored THEN "out_handover" ELSE "out_rollback",
                      tid |-> lastTid']]
    BY <1>4 DEF MoveOutExport
  <2>3. parcel' \in [Tids -> Copies]
    BY <2>1, <2>2 DEF TypeOK
  <2>4. work' \in [Hosts -> Works]
    BY <2>1, <2>2 DEF TypeOK, Works, Steps, OutSteps
  <2>5. doc' \in Docs
    BY <1>4 DEF MoveOutExport, TypeOK, Docs
  <2> QED BY <1>4, <2>1, <2>3, <2>4, <2>5 DEF MoveOutExport, TypeOK, hosted, tasks, outer
<1>5. CASE MoveOutHandOver(h)
  <2>1. work' \in [Hosts -> Works]
    BY <1>5, GotoType DEF MoveOutHandOver, TypeOK, Steps, OutSteps
  <2>2. Phase(doc, "importing") \in Docs /\ work[h].tid \in Tids
    BY DocType DEF TypeOK, Phases, Works
  <2>3. doc' \in Docs
    BY <1>5, <2>2 DEF MoveOutHandOver, Docs
  <2> QED BY <1>5, <2>1, <2>3 DEF MoveOutHandOver, TypeOK, stores, hosted, tasks, outer
<1>6. CASE MoveOutPublish(h)
  <2> DEFINE to == Head(queue[h]).to
             c  == Cmd("move_in", h, to, work[h].tid)
  <2>1. to \in Hosts /\ work[h].tid \in Tids
    BY <1>6, HeadType DEF MoveOutPublish, At, TypeOK, Works
  <2>2. c \in Cmds
    BY <2>1, CmdType
  <2>3. work' \in [Hosts -> Works]
    BY <1>6, GotoType DEF MoveOutPublish, TypeOK, Steps, OutSteps
  <2>4. queue' \in [Hosts -> Seq(Cmds)]
    <3> HIDE DEF c
    <3>1. Send(to, c) \/ UNCHANGED queue
      BY <1>6 DEF MoveOutPublish, c
    <3> QED BY <2>1, <2>2, <3>1, SendType DEF TypeOK
  <2>5. mishaps' \subseteq Mishaps
    BY <1>6, BefallsType DEF MoveOutPublish, Mishaps, TypeOK
  <2> QED BY <1>6, <2>3, <2>4, <2>5 DEF MoveOutPublish, TypeOK, mongo, stores, hosted, tasks
<1>7. CASE MoveOutRollback(h)
  <2>1. work' \in [Hosts -> Works]
    BY <1>7, GotoType DEF MoveOutRollback, TypeOK, Steps
  <2>2. parcel' \in [Tids -> Copies]
    BY <1>7 DEF MoveOutRollback, TypeOK, Copies
  <2>3. pane' \in [Hosts -> Panes]
    <3>1. Launched(h, file[h]) \subseteq Panes
      BY LaunchedType DEF TypeOK
    <3> QED BY <1>7, <3>1 DEF MoveOutRollback, TypeOK
  <2>4. doc' \in Docs
    <3>1. Phase(doc, "failed") \in Docs
      BY DocType DEF TypeOK, Phases
    <3> QED BY <1>7, <3>1 DEF MoveOutRollback, Docs
  <2> QED BY <1>7, <2>1, <2>2, <2>3, <2>4 DEF MoveOutRollback, TypeOK, tasks, outer
<1> QED BY <1>1, <1>2, <1>3, <1>4, <1>5, <1>6, <1>7 DEF MoveOut

\* ... of move_in ...
LEMMA TypeMoveIn ==
  ASSUME TypeOK, NEW h \in Hosts, MoveIn(h)
  PROVE  TypeOK'
<1> USE Bounds
<1>1. CASE TakeMoveIn(h)
  <2>1. work' \in [Hosts -> Works]
    BY <1>1, GotoType DEF TakeMoveIn, TypeOK, Steps, InSteps
  <2> QED BY <1>1, <2>1 DEF TakeMoveIn, TypeOK, mongo, stores, hosted, tasks, outer
<1>2. CASE MoveInPrepare(h)
  <2>1. work' \in [Hosts -> Works]
    BY <1>2, GotoType DEF MoveInPrepare, AfterPrepare, TypeOK, Steps, InSteps
  <2> QED BY <1>2, <2>1 DEF MoveInPrepare, TypeOK, mongo, stores, hosted, tasks, outer
<1>3. CASE MoveInImport(h)
  <2> DEFINE copy == Imported(h)
  <2>1. file' = [file EXCEPT ![h] = copy] /\ copy # "none"
    BY <1>3 DEF MoveInImport
  <2>2. copy \in Copies
    <3>1. Head(queue[h]).tid \in Tids
      BY <1>3, HeadType DEF MoveInImport, At, TypeOK
    <3> QED BY <3>1 DEF Imported, TypeOK
  <2>3. file' \in [Hosts -> Copies]
    BY <2>1, <2>2 DEF TypeOK
  <2>4. work' \in [Hosts -> Works]
    BY <1>3, GotoType DEF MoveInImport, TypeOK, Steps, InSteps
  <2>5. pane' \in [Hosts -> Panes]
    <3>1. Launched(h, copy) \subseteq Panes
      BY <2>2, LaunchedType
    <3> QED BY <1>3, <3>1 DEF MoveInImport, TypeOK
  <2> QED BY <1>3, <2>3, <2>4, <2>5 DEF MoveInImport, TypeOK, mongo, stores, tasks, outer
<1>4. CASE MoveInImportFails(h)
  <2>1. work' \in [Hosts -> Works]
    BY <1>4, GotoType DEF MoveInImportFails, TypeOK, Steps, InSteps
  <2> QED BY <1>4, <2>1 DEF MoveInImportFails, TypeOK, mongo, stores, hosted, tasks, outer
<1>5. CASE MoveInCommit(h)
  <2>1. work' \in [Hosts -> Works]
    BY <1>5, GotoType DEF MoveInCommit, TypeOK, Steps, InSteps
  <2>2. doc' \in Docs
    <3>1. Unmoved(doc) \in Docs
      BY DocType DEF TypeOK, Phases
    <3> QED BY <1>5, <3>1 DEF MoveInCommit, Taken, Docs
  <2>3. history' \in Seq(Hosts \X Hosts)
    <3>1. Head(queue[h]).from \in Hosts
      BY <1>5, HeadType DEF MoveInCommit, At, TypeOK
    <3>2. history' = Append(history, <<Head(queue[h]).from, h>>)
      BY <1>5 DEF MoveInCommit
    <3> QED BY <3>1, <3>2 DEF TypeOK
  <2> QED BY <1>5, <2>1, <2>2, <2>3 DEF MoveInCommit, TypeOK, hosted, tasks, outer
<1>6. CASE MoveInCollide(h)
  <2>1. work' \in [Hosts -> Works]
    BY <1>6, GotoType DEF MoveInCollide, TypeOK, Steps
  <2>2. mishaps' \subseteq Mishaps
    BY <1>6, BefallsType DEF MoveInCollide, Mishaps, TypeOK
  <2> QED BY <1>6, <2>1, <2>2 DEF MoveInCollide, TypeOK, mongo, stores, hosted, tasks
<1>7. CASE MoveInCancelled(h)
  <2>1. work' \in [Hosts -> Works]
    BY <1>7, GotoType DEF MoveInCancelled, TypeOK, Steps
  <2>2. pane' \in [Hosts -> Panes]
    BY <1>7, StoppedType DEF MoveInCancelled, TypeOK
  <2> QED BY <1>7, <2>1, <2>2 DEF MoveInCancelled, TypeOK, mongo, stores, tasks, outer
<1>8. CASE MoveInClean(h)
  <2>1. work' \in [Hosts -> Works]
    BY <1>8, GotoType DEF MoveInClean, TypeOK, Steps
  <2>2. parcel' \in [Tids -> Copies]
    BY <1>8 DEF MoveInClean, TypeOK, Copies
  <2> QED BY <1>8, <2>1, <2>2 DEF MoveInClean, TypeOK, hosted, tasks, outer
<1>9. CASE MoveInFail(h)
  <2>1. work' \in [Hosts -> Works]
    BY <1>9, GotoType DEF MoveInFail, TypeOK, Steps, InSteps
  <2>2. pane' \in [Hosts -> Panes]
    BY <1>9, StoppedType DEF MoveInFail, TypeOK
  <2>3. doc' \in Docs
    BY <1>9, DocType DEF MoveInFail, FailedIn, TypeOK, Phases
  <2> QED BY <1>9, <2>1, <2>2, <2>3 DEF MoveInFail, TypeOK, stores, tasks, outer
<1>10. CASE MoveInGiveBack(h)
  <2>1. work' \in [Hosts -> Works]
    BY <1>10, GotoType DEF MoveInGiveBack, TypeOK, Steps, InSteps
  <2>2. queue' \in [Hosts -> Seq(Cmds)]
    <3> DEFINE from == Head(queue[h]).from
               c == Cmd("resume", from, from, 0)
    <3>1. from \in Hosts
      BY <1>10, HeadType DEF MoveInGiveBack, At, TypeOK
    <3>2. c \in Cmds
      BY <3>1, CmdType
    <3>3. Send(from, c) \/ UNCHANGED queue
      BY <1>10 DEF MoveInGiveBack, GivenBack
    <3> QED BY <3>1, <3>2, <3>3, SendType DEF TypeOK
  <2>3. mishaps' \subseteq Mishaps
    BY <1>10, BefallsType DEF MoveInGiveBack, Mishaps, TypeOK
  <2> QED BY <1>10, <2>1, <2>2, <2>3 DEF MoveInGiveBack, TypeOK, mongo, stores, hosted, tasks
<1> QED BY <1>1, <1>2, <1>3, <1>4, <1>5, <1>6, <1>7, <1>8, <1>9, <1>10 DEF MoveIn

\* ... of the other commands, of the background tasks and of the broker ...
LEMMA TypeOthers ==
  ASSUME TypeOK, NEW h \in Hosts,
         TakeResume(h) \/ TakeInput(h) \/ Ack(h) \/ Wake(h) \/ SendWaiting(h)
           \/ Expire(h) \/ Crash(h)
  PROVE  TypeOK'
<1> USE Bounds
<1>1. Launched(h, file[h]) \subseteq Panes
  BY LaunchedType DEF TypeOK
<1>2. [doc EXCEPT !.status = "active"] \in Docs
  BY DEF TypeOK, Docs
<1>3. CASE TakeResume(h)
  <2>1. work' \in [Hosts -> Works]
    BY <1>3, GotoType DEF TakeResume, TypeOK, Steps
  <2>2. pane' \in [Hosts -> Panes] /\ doc' \in Docs
    BY <1>1, <1>2, <1>3 DEF TakeResume, Relaunch, TypeOK
  <2> QED BY <1>3, <2>1, <2>2 DEF TakeResume, TypeOK, stores, tasks, outer
<1>4. CASE TakeInput(h)
  <2>1. work' \in [Hosts -> Works]
    BY <1>4, GotoType DEF TakeInput, TypeOK, Steps
  <2>2. waking' \in [Hosts -> Nat]
    BY <1>4 DEF TakeInput, TypeOK
  <2>3. file' \in [Hosts -> Copies] /\ parcel' \in [Tids -> Copies]
    BY <1>4, TurnType DEF TakeInput, TypeOK
  <2> QED BY <1>4, <2>1, <2>2, <2>3 DEF TakeInput, TypeOK, outer
<1>5. CASE Ack(h)
  <2>1. queue' \in [Hosts -> Seq(Cmds)]
    BY <1>5, TailType DEF Ack, At, TypeOK
  <2>2. work' \in [Hosts -> Works]
    BY <1>5 DEF Ack, TypeOK, Works, Idle, Steps
  <2> QED BY <1>5, <2>1, <2>2 DEF Ack, TypeOK, mongo, stores, hosted, tasks, outer
<1>6. CASE Wake(h)
  <2>1. pane' \in [Hosts -> Panes] /\ doc' \in Docs
    BY <1>1, <1>2, <1>6 DEF Wake, Relaunch, TypeOK
  <2>2. file' \in [Hosts -> Copies] /\ parcel' \in [Tids -> Copies]
    BY <1>6, TurnType DEF Wake, TypeOK
  <2>3. waking' \in [Hosts -> Nat]
    <3>1. waking[h] > 0 /\ waking' = [waking EXCEPT ![h] = @ - 1]
      BY <1>6 DEF Wake
    <3>2. waking \in [Hosts -> Nat]
      BY DEF TypeOK
    <3> QED BY <3>1, <3>2
  <2>4. sending' \in [Hosts -> Nat]
    <3>1. sending' = sending \/ sending' = [sending EXCEPT ![h] = @ + 1]
      BY <1>6 DEF Wake
    <3>2. sending \in [Hosts -> Nat]
      BY DEF TypeOK
    <3>3. ASSUME NEW f \in [Hosts -> Nat] PROVE [f EXCEPT ![h] = @ + 1] \in [Hosts -> Nat]
      OBVIOUS
    <3> QED BY <3>1, <3>2, <3>3
  <2>5. UNCHANGED <<history, foreign, lastTid, queue, work, listed, requests, spent, mishaps>>
    BY <1>6 DEF Wake, outer
  <2> QED BY <2>1, <2>2, <2>3, <2>4, <2>5 DEF TypeOK
<1>7. CASE SendWaiting(h)
  <2>1. file' \in [Hosts -> Copies] /\ parcel' \in [Tids -> Copies]
    BY <1>7, TurnType DEF SendWaiting, TypeOK
  <2>2. sending' \in [Hosts -> Nat]
    BY <1>7 DEF SendWaiting, Typing, TypeOK
  <2> QED BY <1>7, <2>1, <2>2 DEF SendWaiting, TypeOK, outer
<1>8. CASE Expire(h)
  <2>1. work' \in [Hosts -> Works]
    BY <1>8, GotoType DEF Expire, TypeOK, Steps
  <2>2. spent' \in Spent
    BY <1>8, SpendType DEF Expire, TypeOK
  <2> QED BY <1>8, <2>1, <2>2 DEF Expire, TypeOK, mongo, stores, hosted, tasks
<1>9. CASE Crash(h)
  <2>1. work' \in [Hosts -> Works]
    BY <1>9 DEF Crash, TypeOK, Works, Idle, Steps
  <2>2. spent' \in Spent
    BY <1>9, SpendType DEF Crash, TypeOK
  <2>3. queue' \in [Hosts -> Seq(Cmds)]
    <3>1. ASSUME queue[h] # <<>> PROVE [queue EXCEPT ![h] = Tail(@)] \in [Hosts -> Seq(Cmds)]
      BY <3>1, TailType DEF TypeOK
    <3> QED BY <1>9, <3>1 DEF Crash, TypeOK
  <2>4. waking' \in [Hosts -> Nat] /\ sending' \in [Hosts -> Nat]
    BY <1>9 DEF Crash, TypeOK
  <2>5. listed' \in [Hosts -> {"unlisted", "absent", "present"}]
    BY <1>9 DEF Crash, TypeOK
  <2>6. UNCHANGED <<doc, history, foreign, parcel, lastTid, pane, file, requests>>
    BY <1>9 DEF Crash, mongo, stores, hosted
  <2>7. mishaps' \subseteq Mishaps
    BY <1>9, BefallsType DEF Crash, Mishaps, TypeOK
  <2> QED BY <2>1, <2>2, <2>3, <2>4, <2>5, <2>6, <2>7 DEF TypeOK
<1> QED BY <1>3, <1>4, <1>5, <1>6, <1>7, <1>8, <1>9

\* ... and of the discovery cycles.
LEMMA TypeDiscovery ==
  ASSUME TypeOK, NEW h \in Hosts,
         DiscoveryList(h) \/ DiscoverySees(h) \/ DiscoveryMisses(h)
  PROVE  TypeOK'
<1>1. doc' \in Docs
  <2>1. /\ [doc EXCEPT !.status = "active"] \in Docs
        /\ [doc EXCEPT !.status = "stopped"] \in Docs
    BY DEF TypeOK, Docs
  <2> QED BY <2>1 DEF TypeOK, DiscoveryList, DiscoverySees, DiscoveryMisses, mongo
<1>2. foreign' \subseteq Hosts
  BY DEF TypeOK, DiscoveryList, DiscoverySees, DiscoveryMisses, mongo, stores
<1>3. listed' \in [Hosts -> {"unlisted", "absent", "present"}]
  BY DEF TypeOK, DiscoveryList, DiscoverySees, DiscoveryMisses
<1> QED BY <1>1, <1>2, <1>3 DEF TypeOK, DiscoveryList, DiscoverySees, DiscoveryMisses,
        mongo, stores, hosted, outer

LEMMA TypeInit == Init => TypeOK
BY MoveAssumption DEF Init, TypeOK, Docs, Phases, Panes, Copies, Works, Steps, Idle,
   Tids, Spent

LEMMA TypeStep == TypeOK /\ [Next]_vars => TypeOK'
<1>1. ASSUME TypeOK, UNCHANGED vars PROVE TypeOK'
  BY <1>1 DEF TypeOK, vars, mongo, stores, hosted, tasks, outer
<1> QED BY <1>1, TypeClient, TypeMoveOut, TypeMoveIn, TypeOthers, TypeDiscovery
        DEF Next, Consume

\* The state always has its types.
THEOREM TypeCorrect == Spec => []TypeOK
<1>1. Init => TypeOK
  BY TypeInit
<1>2. TypeOK /\ [Next]_vars => TypeOK'
  BY TypeStep
<1> QED BY <1>1, <1>2, PTL DEF Spec


-----------------------------------------------------------------------------
(* Queues: what a send adds to them and what a pop leaves. *)

\* The heads of the queues stay where they are.
HeadsStay == \A g \in Hosts : queue[g] # <<>> =>
               queue'[g] # <<>> /\ Head(queue'[g]) = Head(queue[g])

LEMMA SendAdds ==
  ASSUME queue \in [Hosts -> Seq(Cmds)], NEW h \in Hosts, NEW c \in Cmds, Send(h, c)
  PROVE  /\ HeadsStay
         /\ \A g \in Hosts : Waiting(g)' \subseteq Waiting(g) \cup {c}
         /\ \A g \in Hosts : g # h => Waiting(g)' = Waiting(g)
<1>1. queue[h] \in Seq(Cmds) /\ queue'[h] = Append(queue[h], c)
  BY DEF Send
<1>2. \A g \in Hosts : g # h => queue'[g] = queue[g]
  BY DEF Send
<1>3. Waiting(h)' \subseteq Waiting(h) \cup {c}
  BY <1>1 DEF Waiting
<1>4. queue[h] # <<>> => queue'[h] # <<>> /\ Head(queue'[h]) = Head(queue[h])
  BY <1>1
<1> QED BY <1>2, <1>3, <1>4 DEF HeadsStay, Waiting

LEMMA PopLeaves ==
  ASSUME queue \in [Hosts -> Seq(Cmds)], NEW h \in Hosts, queue[h] # <<>>,
         queue' = [queue EXCEPT ![h] = Tail(@)]
  PROVE  /\ \A g \in Hosts : Waiting(g)' \subseteq Waiting(g)
         /\ \A g \in Hosts : g # h => queue'[g] = queue[g]
<1>1. queue[h] \in Seq(Cmds) /\ queue'[h] = Tail(queue[h])
  OBVIOUS
<1>2. \A g \in Hosts : g # h => queue'[g] = queue[g]
  OBVIOUS
<1>3. Waiting(h)' \subseteq Waiting(h)
  <2> SUFFICES ASSUME NEW i \in DOMAIN queue'[h]
               PROVE  \E j \in DOMAIN queue[h] : queue'[h][i] = queue[h][j]
    BY DEF Waiting
  <2>1. i + 1 \in DOMAIN queue[h] /\ queue'[h][i] = queue[h][i + 1]
    BY <1>1
  <2> QED BY <2>1
<1> QED BY <1>2, <1>3 DEF Waiting

LEMMA HeadWaits ==
  ASSUME queue \in [Hosts -> Seq(Cmds)], NEW h \in Hosts, queue[h] # <<>>
  PROVE  Head(queue[h]) \in Waiting(h)
<1>1. queue[h] \in Seq(Cmds)
  OBVIOUS
<1>2. 1 \in DOMAIN queue[h] /\ Head(queue[h]) = queue[h][1]
  BY <1>1
<1> QED BY <1>2 DEF Waiting

LEMMA WaitingType ==
  ASSUME queue \in [Hosts -> Seq(Cmds)], NEW h \in Hosts
  PROVE  Waiting(h) \subseteq Cmds
<1>1. queue[h] \in Seq(Cmds)
  OBVIOUS
<1> QED BY <1>1 DEF Waiting

-----------------------------------------------------------------------------
(* The inductive invariant, conjunct by conjunct, for the shapes of a step. *)

\* A step that leaves the document's owner and transfer alone, starts no export
\* and destroys no copy.
Docile ==
  /\ doc'.host = doc.host /\ doc'.tid = doc.tid /\ lastTid' = lastTid
  /\ doc'.phase \in {"none", "exporting"} => doc'.phase = doc.phase
  /\ \A g \in Hosts : file[g] # "none" => file'[g] # "none"
  /\ \A r \in requests' : r.from # r.to

\* A step that sends no move_in and makes no worker carry another transfer.
ClaimsNothing ==
  /\ \A g \in Hosts : \A c \in Waiting(g)' : c \in Waiting(g) \/ c.type # "move_in"
  /\ \A g \in Hosts, t \in Tids : Carries(g, t)' => Carries(g, t)

LEMMA NoNewClaims ==
  ASSUME ClaimsNothing, NEW a \in Hosts, NEW t \in Tids, Claims(a, t)'
  PROVE  Claims(a, t)
BY DEF ClaimsNothing, Claims

\* Nothing but the rest of the state moves.
LEMMA KeepOneSource ==
  ASSUME OneSource, ClaimsNothing, lastTid' >= lastTid, lastTid \in Nat, lastTid' \in Nat,
         doc'.tid \in Nat, doc'.tid # 0 => doc'.tid = doc.tid /\ doc'.host = doc.host
  PROVE  OneSource'
<1> SUFFICES ASSUME NEW a \in Hosts, NEW t \in Tids, Claims(a, t)'
             PROVE  /\ t \in 1..lastTid'
                    /\ \A b \in Hosts : Claims(b, t)' => a = b
                    /\ doc'.tid = t => doc'.host = a
  BY DEF OneSource
<1>1. Claims(a, t) /\ \A b \in Hosts : Claims(b, t)' => Claims(b, t)
  BY NoNewClaims
<1>2. t \in 1..lastTid /\ (\A b \in Hosts : Claims(b, t) => a = b)
         /\ (doc.tid = t => doc.host = a)
  BY <1>1 DEF OneSource
<1> QED BY <1>1, <1>2

\* The worker on h goes on to a step that its command allows.
Onward(h, step) ==
  /\ queue[h] # <<>> /\ HeadsStay
  /\ step \in OutSteps => Head(queue[h]).type = "move_out"
  /\ step \in InSteps => Head(queue[h]).type = "move_in"
  /\ work'[h].at = step
  /\ \A g \in Hosts : g # h => work'[g] = work[g]

LEMMA HeadOnward ==
  ASSUME HeadInProgress, NEW h \in Hosts, NEW step \in Steps, Onward(h, step)
  PROVE  HeadInProgress'
BY DEF HeadInProgress, Onward, HeadsStay, OutSteps, InSteps

LEMMA HeadSteady ==
  ASSUME HeadInProgress, HeadsStay, UNCHANGED work
  PROVE  HeadInProgress'
BY DEF HeadInProgress, HeadsStay, OutSteps, InSteps

LEMMA HeadIdle ==
  ASSUME HeadInProgress, NEW h \in Hosts, work \in [Hosts -> Works],
         work' = [work EXCEPT ![h] = Idle],
         \A g \in Hosts : g # h => queue'[g] = queue[g]
  PROVE  HeadInProgress'
BY DEF HeadInProgress, Idle, OutSteps, InSteps

LEMMA GotoFacts ==
  ASSUME work \in [Hosts -> Works], NEW h \in Hosts, NEW step \in Steps, Goto(h, step)
  PROVE  /\ work'[h].at = step /\ work'[h].tid = work[h].tid
         /\ \A g \in Hosts : g # h => work'[g] = work[g]
BY DEF Goto, Works

LEMMA HeadsStaySteady == UNCHANGED queue => HeadsStay
BY DEF HeadsStay

\* A step of a worker that sends nothing and claims nothing.
Routine(h, step) ==
  /\ UNCHANGED queue /\ queue[h] # <<>> /\ Goto(h, step)
  /\ step \in OutSteps => Head(queue[h]).type = "move_out"
  /\ step \in InSteps => Head(queue[h]).type = "move_in"
  /\ step # "out_handover"
  /\ step \in {"out_publish", "out_rollback"} =>
       work[h].at \in {"out_handover", "out_publish", "out_rollback"}
  /\ step \in {"out_git", "out_export"} =>
       Exporting(h) \/ (doc.host = h /\ doc.tid = 0)
  /\ step = "in_commit" => file'[h] # "none"

LEMMA RoutineKeeps ==
  ASSUME TypeOK, TypeOK', IndInv, Docile, NEW h \in Hosts, NEW step \in Steps,
         Routine(h, step)
  PROVE  IndInv'
<1>1. /\ work'[h].at = step /\ work'[h].tid = work[h].tid
      /\ \A g \in Hosts : g # h => work'[g] = work[g]
  BY GotoFacts DEF Routine, TypeOK
<1>2. HeadInProgress'
  BY <1>1, HeadOnward, HeadsStaySteady DEF IndInv, Onward, Routine
<1>3. \A g \in Hosts : Waiting(g)' = Waiting(g)
  BY DEF Routine, Waiting
<1>4. Addressed'
  BY <1>3 DEF IndInv, Addressed, Docile
<1>5. TransferNamed'
  BY DEF IndInv, TransferNamed, Docile
<1>6. ClaimsNothing
  BY <1>1, <1>3 DEF ClaimsNothing, Carries, Routine
<1>7. OneSource'
  BY <1>6, KeepOneSource DEF IndInv, Docile, TypeOK, Docs, Tids
<1>8. Imports'
  BY <1>1 DEF IndInv, Imports, Docile, Routine
<1>9. FreshTransfer'
  BY <1>1 DEF IndInv, FreshTransfer, Docile, Routine
<1>10. ExporterIsOwner'
  BY <1>1 DEF IndInv, ExporterIsOwner, Exporting, Docile, Routine
<1>11. OwnerHasConversation'
  BY DEF IndInv, OwnerHasConversation, Docile, TypeOK, Docs
<1> QED BY <1>2, <1>4, <1>5, <1>7, <1>8, <1>9, <1>10, <1>11 DEF IndInv

\* A step that leaves the queues and the workers alone.
LEMMA SteadyKeeps ==
  ASSUME TypeOK, TypeOK', IndInv, Docile, UNCHANGED <<queue, work>>
  PROVE  IndInv'
<1>1. HeadInProgress'
  BY DEF IndInv, HeadInProgress
<1>2. \A g \in Hosts : Waiting(g)' = Waiting(g)
  BY DEF Waiting
<1>3. Addressed'
  BY <1>2 DEF IndInv, Addressed, Docile
<1>4. ClaimsNothing
  BY <1>2 DEF ClaimsNothing, Carries
<1>5. OneSource'
  BY <1>4, KeepOneSource DEF IndInv, Docile, TypeOK, Docs, Tids
<1>6. TransferNamed' /\ Imports' /\ FreshTransfer' /\ ExporterIsOwner'
  BY DEF IndInv, TransferNamed, Imports, FreshTransfer, ExporterIsOwner, Exporting, Docile
<1>7. OwnerHasConversation'
  BY DEF IndInv, OwnerHasConversation, Docile, TypeOK, Docs
<1> QED BY <1>1, <1>3, <1>5, <1>6, <1>7 DEF IndInv

\* A step after which the worker on h is idle and its queue is not longer.
LEMMA PopKeeps ==
  ASSUME TypeOK, TypeOK', IndInv, Docile, NEW h \in Hosts,
         work' = [work EXCEPT ![h] = Idle],
         \/ UNCHANGED queue
         \/ queue[h] # <<>> /\ queue' = [queue EXCEPT ![h] = Tail(@)]
  PROVE  IndInv'
<1>1. /\ \A g \in Hosts : Waiting(g)' \subseteq Waiting(g)
      /\ \A g \in Hosts : g # h => queue'[g] = queue[g]
  <2>1. CASE UNCHANGED queue
    BY <2>1 DEF Waiting
  <2>2. CASE queue[h] # <<>> /\ queue' = [queue EXCEPT ![h] = Tail(@)]
    BY <2>2, PopLeaves DEF TypeOK
  <2> QED BY <2>1, <2>2
<1>2. work'[h] = Idle /\ \A g \in Hosts : g # h => work'[g] = work[g]
  BY DEF TypeOK
<1>3. HeadInProgress'
  BY <1>1, HeadIdle DEF IndInv, TypeOK
<1>4. Addressed'
  BY <1>1 DEF IndInv, Addressed, Docile
<1>5. ClaimsNothing
  BY <1>1, <1>2 DEF ClaimsNothing, Carries, Idle
<1>6. OneSource'
  BY <1>5, KeepOneSource DEF IndInv, Docile, TypeOK, Docs, Tids
<1>7. TransferNamed' /\ Imports' /\ FreshTransfer' /\ ExporterIsOwner'
  BY <1>2 DEF IndInv, TransferNamed, Imports, FreshTransfer, ExporterIsOwner, Exporting,
     Docile, Idle
<1>8. OwnerHasConversation'
  BY DEF IndInv, OwnerHasConversation, Docile, TypeOK, Docs
<1> QED BY <1>3, <1>4, <1>6, <1>7, <1>8 DEF IndInv

\* The API's steps: only its commands and the document change.
LEMMA ApiKeeps ==
  ASSUME TypeOK, TypeOK', IndInv, UNCHANGED <<work, lastTid, file>>,
         doc'.host = doc.host, doc'.tid \in {0, doc.tid},
         doc'.phase \in {"none", "exporting"} => doc'.tid = 0,
         \A r \in requests' : r.from # r.to,
         \/ UNCHANGED queue
         \/ \E g \in Hosts, c \in Cmds :
              /\ Send(g, c) /\ c.type # "move_in"
              /\ c.type = "move_out" => c.from = g /\ c.to # g
  PROVE  IndInv'
<1>1. HeadsStay /\ \A g \in Hosts : \A c \in Waiting(g)' :
        \/ c \in Waiting(g)
        \/ c.type # "move_in" /\ (c.type = "move_out" => c.from = g /\ c.to # g)
  <2>1. CASE UNCHANGED queue
    BY <2>1, HeadsStaySteady DEF Waiting
  <2>2. ASSUME NEW g \in Hosts, NEW c \in Cmds, Send(g, c), c.type # "move_in",
               c.type = "move_out" => c.from = g /\ c.to # g
        PROVE  HeadsStay /\ \A f \in Hosts : \A d \in Waiting(f)' :
                 \/ d \in Waiting(f)
                 \/ d.type # "move_in" /\ (d.type = "move_out" => d.from = f /\ d.to # f)
    BY <2>2, SendAdds DEF TypeOK
  <2> QED BY <2>1, <2>2
<1>2. HeadInProgress'
  BY <1>1, HeadSteady DEF IndInv
<1>3. Addressed'
  BY <1>1 DEF IndInv, Addressed
<1>4. ClaimsNothing
  BY <1>1 DEF ClaimsNothing, Carries
<1>5. OneSource'
  BY <1>4, KeepOneSource DEF IndInv, TypeOK, Docs, Tids
<1>6. TransferNamed'
  BY DEF IndInv, TransferNamed, TypeOK, Docs, Tids
<1>7. Imports' /\ FreshTransfer' /\ ExporterIsOwner'
  BY DEF IndInv, Imports, FreshTransfer, ExporterIsOwner, Exporting
<1>8. OwnerHasConversation'
  BY DEF IndInv, OwnerHasConversation
<1> QED BY <1>2, <1>3, <1>5, <1>6, <1>7, <1>8 DEF IndInv

LEMMA ClientKeeps ==
  ASSUME TypeOK, TypeOK', IndInv, Client \/ \E r \in requests : MoveAccept(r)
  PROVE  IndInv'
<1>1. doc.host \in Hosts /\ doc.phase \in Phases
  BY DEF TypeOK, Docs
<1>2. ASSUME NEW to \in Hosts, MoveRequest(to) PROVE IndInv'
  <2>1. UNCHANGED <<queue, work, doc, lastTid, file>>
    BY <1>2 DEF MoveRequest, mongo, stores, hosted
  <2>2. \A r \in requests' : r.from # r.to
    BY <1>2 DEF MoveRequest, IndInv, Addressed
  <2> QED BY <2>1, <2>2, SteadyKeeps DEF Docile
<1>3. ASSUME NEW r \in requests, MoveAccept(r) PROVE IndInv'
  <2>1. UNCHANGED <<work, lastTid, file>>
    BY <1>3 DEF MoveAccept, stores, hosted
  <2>2. doc'.host = doc.host /\ doc'.tid = 0
    BY <1>3 DEF MoveAccept, TypeOK, Docs
  <2>3. r.from \in Hosts /\ r.to \in Hosts /\ r.from # r.to
    BY DEF TypeOK, IndInv, Addressed
  <2>4. \A q \in requests' : q.from # q.to
    BY <1>3 DEF MoveAccept, IndInv, Addressed
  <2>5. LET c == Cmd("move_out", r.from, r.to, 0)
        IN c \in Cmds /\ c.type = "move_out" /\ c.from = r.from /\ c.to = r.to
    BY <2>3, CmdType, Bounds
  <2>6. Send(r.from, Cmd("move_out", r.from, r.to, 0)) \/ UNCHANGED queue
    BY <1>3 DEF MoveAccept
  <2> QED BY <2>1, <2>2, <2>3, <2>4, <2>5, <2>6, ApiKeeps
<1>4. CASE Resume
  <2>1. UNCHANGED <<work, lastTid, file>> /\ requests' = requests
    BY <1>4 DEF Resume, stores, hosted
  <2>2. doc' = doc \/ doc' = Unmoved(doc)
    BY <1>4 DEF Resume
  <2>3. /\ Unmoved(doc).tid = 0 /\ Unmoved(doc).host = doc.host
    BY DocType DEF TypeOK, Phases
  <2>4. LET c == Cmd("resume", doc.host, doc.host, 0)
        IN c \in Cmds /\ c.type = "resume"
    BY <1>1, CmdType, Bounds
  <2>5. Send(doc.host, Cmd("resume", doc.host, doc.host, 0))
    BY <1>4 DEF Resume
  <2>6. /\ doc'.phase \in {"none", "exporting"} => doc'.tid = 0
        /\ \A r \in requests' : r.from # r.to
    BY <2>1, <2>2, <2>3 DEF IndInv, TransferNamed, Addressed
  <2> QED BY <1>1, <2>1, <2>2, <2>3, <2>4, <2>5, <2>6, ApiKeeps
<1>5. CASE Input
  <2>1. UNCHANGED <<work, doc, lastTid, file>> /\ requests' = requests
    BY <1>5 DEF Input, mongo, stores, hosted
  <2>2. LET c == Cmd("input", doc.host, doc.host, 0)
        IN c \in Cmds /\ c.type = "input"
    BY <1>1, CmdType, Bounds
  <2>3. Send(doc.host, Cmd("input", doc.host, doc.host, 0))
    BY <1>5 DEF Input
  <2>4. /\ doc'.phase \in {"none", "exporting"} => doc'.tid = 0
        /\ \A r \in requests' : r.from # r.to
    BY <2>1 DEF IndInv, TransferNamed, Addressed
  <2> QED BY <1>1, <2>1, <2>2, <2>3, <2>4, ApiKeeps
<1>6. CASE GrowStale
  <2>1. UNCHANGED <<queue, work, lastTid, file, requests>>
    BY <1>6 DEF GrowStale, stores, hosted, outer
  <2>2. doc'.host = doc.host /\ doc'.tid = doc.tid /\ doc'.phase = doc.phase
    BY <1>6 DEF GrowStale, TypeOK, Docs
  <2> QED BY <2>1, <2>2, SteadyKeeps DEF Docile, IndInv, Addressed
<1> QED BY <1>2, <1>3, <1>4, <1>5, <1>6 DEF Client

\* What the head of the queue says of a worker past its first step.
LEMMA HeadFacts ==
  ASSUME TypeOK, IndInv, NEW h \in Hosts, queue[h] # <<>>
  PROVE  /\ Head(queue[h]) \in Waiting(h) /\ Head(queue[h]) \in Cmds
         /\ work[h].at \in OutSteps => Head(queue[h]).type = "move_out"
         /\ work[h].at \in InSteps => Head(queue[h]).type = "move_in"
BY HeadWaits, HeadType DEF TypeOK, IndInv, HeadInProgress

\* Marking the move failed is docile.
LEMMA FailingIsDocile ==
  ASSUME TypeOK, IndInv, doc' = doc \/ doc' = Phase(doc, "failed")
                           \/ doc' = [Phase(doc, "failed") EXCEPT !.status = "active"]
                           \/ doc' = [doc EXCEPT !.status = "active"]
                           \/ doc' = [doc EXCEPT !.status = "stopped"],
         UNCHANGED <<lastTid, requests>>,
         \A g \in Hosts : file[g] # "none" => file'[g] # "none"
  PROVE  Docile
<1>1. LET d == Phase(doc, "failed")
      IN d.host = doc.host /\ d.tid = doc.tid /\ d.phase = "failed" /\ d \in Docs
  BY DocType DEF TypeOK, Phases
<1>2. LET d == [Phase(doc, "failed") EXCEPT !.status = "active"]
      IN d.host = doc.host /\ d.tid = doc.tid /\ d.phase = "failed"
  BY <1>1 DEF Docs
<1>3. ASSUME NEW s \in {"active", "stopped"}
      PROVE  LET d == [doc EXCEPT !.status = s]
             IN d.host = doc.host /\ d.tid = doc.tid /\ d.phase = doc.phase
  BY DEF TypeOK, Docs
<1>4. doc'.host = doc.host /\ doc'.tid = doc.tid
        /\ (doc'.phase = doc.phase \/ doc'.phase = "failed")
  BY <1>1, <1>2, <1>3
<1> QED BY <1>4 DEF Docile, IndInv, Addressed

LEMMA TurnKeepsCopies ==
  ASSUME file \in [Hosts -> Copies], NEW h \in Hosts, Turn(h)
  PROVE  \A g \in Hosts : file[g] # "none" => file'[g] # "none"
BY DEF Turn, Behind, Copies

LEMMA MoveOutKeeps ==
  ASSUME TypeOK, TypeOK', IndInv, NEW h \in Hosts, MoveOut(h)
  PROVE  IndInv'
<1>1. CASE TakeMoveOut(h)
  <2>1. Docile
    BY <1>1, FailingIsDocile DEF TakeMoveOut, mongo, stores, hosted, outer
  <2>2. Exportable(h) => doc.host = h /\ doc.tid = 0
    BY DEF Exportable, IndInv, TransferNamed
  <2>3. \E step \in {"out_git", "ack"} : Routine(h, step)
    BY <1>1, <2>2 DEF TakeMoveOut, Taking, Routine, OutSteps, InSteps
  <2> QED BY <2>1, <2>3, RoutineKeeps DEF Steps, OutSteps
<1>2. CASE MoveOutRefuse(h)
  <2>1. Docile
    BY <1>2, FailingIsDocile DEF MoveOutRefuse, stores, hosted, outer
  <2>2. Routine(h, "ack")
    BY <1>2 DEF MoveOutRefuse, At, Routine, OutSteps, InSteps
  <2> QED BY <2>1, <2>2, RoutineKeeps DEF Steps
<1>3. CASE MoveOutStop(h)
  <2>1. Docile
    BY <1>3, FailingIsDocile DEF MoveOutStop, mongo, stores, outer
  <2>2. Routine(h, "out_export")
    BY <1>3, HeadFacts DEF MoveOutStop, At, Routine, Exporting, OutSteps, InSteps
  <2> QED BY <2>1, <2>2, RoutineKeeps DEF Steps, OutSteps
<1>4. CASE MoveOutExport(h)
  <2>1. PICK stored \in BOOLEAN :
           work' = [work EXCEPT
             ![h] = [at |-> IF stored THEN "out_handover" ELSE "out_rollback",
                     tid |-> lastTid']]
    BY <1>4 DEF MoveOutExport
  <2>2. /\ work'[h].at \in {"out_handover", "out_rollback"} /\ work'[h].tid = lastTid'
        /\ \A g \in Hosts : g # h => work'[g] = work[g]
    BY <2>1 DEF TypeOK
  <2>3. /\ lastTid' = lastTid + 1 /\ lastTid \in Nat /\ lastTid' \in Tids
        /\ doc.host = h /\ doc.tid = 0 /\ UNCHANGED <<queue, file, requests>>
        /\ queue[h] # <<>> /\ work[h].at = "out_export"
    BY <1>4 DEF MoveOutExport, At, TypeOK, Tids, IndInv, ExporterIsOwner, Exporting,
       hosted, outer
  <2>4. doc'.host = doc.host /\ doc'.tid = doc.tid /\ doc'.phase = doc.phase
    BY <1>4 DEF MoveOutExport, TypeOK, Docs
  <2>5. HeadInProgress'
    <3>1. Onward(h, work'[h].at)
      BY <2>2, <2>3, HeadFacts, HeadsStaySteady DEF Onward, OutSteps, InSteps
    <3> QED BY <2>2, <3>1, HeadOnward DEF IndInv, Steps, OutSteps
  <2>6. \A g \in Hosts : Waiting(g)' = Waiting(g)
    BY <2>3 DEF Waiting
  <2>7. Addressed'
    BY <2>3, <2>6 DEF IndInv, Addressed
  <2>8. TransferNamed'
    BY <2>3, <2>4 DEF IndInv, TransferNamed
  <2>9. ASSUME NEW a \in Hosts, NEW t \in Tids, Claims(a, t)'
        PROVE  Claims(a, t) \/ (a = h /\ t = lastTid')
    BY <2>2, <2>6, <2>9 DEF Claims, Carries
  <2>10. OneSource'
    <3> SUFFICES ASSUME NEW a \in Hosts, NEW t \in Tids, Claims(a, t)'
                 PROVE  /\ t \in 1..lastTid'
                        /\ \A b \in Hosts : Claims(b, t)' => a = b
                        /\ doc'.tid = t => doc'.host = a
      BY DEF OneSource
    <3>1. \A b \in Hosts : Claims(b, t) => t \in 1..lastTid
      BY DEF IndInv, OneSource
    <3>2. CASE t = lastTid'
      <4>1. \A b \in Hosts : ~Claims(b, t)
        BY <2>3, <3>1, <3>2
      <4> QED BY <2>3, <2>4, <2>9, <3>2, <4>1
    <3>3. CASE t # lastTid'
      <4>1. Claims(a, t) /\ \A b \in Hosts : Claims(b, t)' => Claims(b, t)
        BY <2>9, <3>3
      <4>2. t \in 1..lastTid /\ (\A b \in Hosts : Claims(b, t) => a = b)
        BY <4>1 DEF IndInv, OneSource
      <4> QED BY <2>3, <2>4, <4>1, <4>2
    <3> QED BY <3>2, <3>3
  <2>11. FreshTransfer'
    <3>1. ASSUME NEW g \in Hosts, g # h PROVE work'[g].at # "out_handover"
      BY <2>2, <2>3, <3>1 DEF IndInv, ExporterIsOwner, Exporting
    <3> QED BY <2>2, <3>1 DEF FreshTransfer
  <2>12. ExporterIsOwner' /\ Imports'
    BY <2>2, <2>3, <2>4 DEF IndInv, ExporterIsOwner, Exporting, Imports
  <2>13. OwnerHasConversation'
    BY <2>3, <2>4 DEF IndInv, OwnerHasConversation
  <2> QED BY <2>5, <2>7, <2>8, <2>10, <2>11, <2>12, <2>13 DEF IndInv
<1>5. CASE MoveOutHandOver(h)
  <2>1. /\ Carries(h, work[h].tid) /\ work[h].tid \in Tids /\ work[h].tid = lastTid
        /\ doc.host = h /\ doc.tid = 0 /\ UNCHANGED <<queue, file, requests, lastTid>>
        /\ queue[h] # <<>> /\ work[h].at = "out_handover"
    BY <1>5 DEF MoveOutHandOver, At, Carries, TypeOK, Works, IndInv, ExporterIsOwner,
       Exporting, FreshTransfer, stores, hosted, outer
  <2>2. doc'.host = doc.host /\ doc'.tid = work[h].tid /\ doc'.phase = "importing"
    <3>1. Phase(doc, "importing") \in Docs /\ Phase(doc, "importing").host = doc.host
            /\ Phase(doc, "importing").phase = "importing"
      BY DocType DEF TypeOK, Phases
    <3> QED BY <1>5, <3>1 DEF MoveOutHandOver, Docs
  <2>3. /\ work'[h].at = "out_publish" /\ work'[h].tid = work[h].tid
        /\ \A g \in Hosts : g # h => work'[g] = work[g]
    BY <1>5, GotoFacts DEF MoveOutHandOver, TypeOK, Steps, OutSteps
  <2>4. HeadInProgress'
    <3>1. Onward(h, "out_publish")
      BY <2>1, <2>3, HeadFacts, HeadsStaySteady DEF Onward, OutSteps, InSteps
    <3> QED BY <3>1, HeadOnward DEF IndInv, Steps, OutSteps
  <2>5. \A g \in Hosts : Waiting(g)' = Waiting(g)
    BY <2>1 DEF Waiting
  <2>6. Addressed'
    BY <2>1, <2>5 DEF IndInv, Addressed
  <2>7. ClaimsNothing
    BY <2>1, <2>3, <2>5 DEF ClaimsNothing, Carries
  <2>8. OneSource'
    <3> SUFFICES ASSUME NEW a \in Hosts, NEW t \in Tids, Claims(a, t)'
                 PROVE  /\ t \in 1..lastTid'
                        /\ \A b \in Hosts : Claims(b, t)' => a = b
                        /\ doc'.tid = t => doc'.host = a
      BY DEF OneSource
    <3>1. Claims(a, t) /\ \A b \in Hosts : Claims(b, t)' => Claims(b, t)
      BY <2>7, NoNewClaims
    <3>2. t \in 1..lastTid /\ \A b \in Hosts : Claims(b, t) => a = b
      BY <3>1 DEF IndInv, OneSource
    <3>3. Claims(h, work[h].tid)
      BY <2>1 DEF Claims
    <3> QED BY <2>1, <2>2, <3>1, <3>2, <3>3
  <2>9. TransferNamed'
    BY <2>1, <2>2 DEF TransferNamed, Tids
  <2>10. FreshTransfer' /\ Imports'
    BY <2>1, <2>3 DEF IndInv, FreshTransfer, Imports
  <2>11. ExporterIsOwner'
    BY <2>1, <2>2, <2>3 DEF IndInv, ExporterIsOwner, Exporting
  <2>12. OwnerHasConversation'
    BY <2>1, <2>2 DEF IndInv, OwnerHasConversation
  <2> QED BY <2>4, <2>6, <2>8, <2>9, <2>10, <2>11, <2>12 DEF IndInv
<1>6. CASE MoveOutPublish(h)
  <2> DEFINE to == Head(queue[h]).to
             c  == Cmd("move_in", h, to, work[h].tid)
  <2>1. /\ queue[h] # <<>> /\ work[h].at = "out_publish" /\ work[h].tid \in Tids
        /\ UNCHANGED <<doc, lastTid, file, requests>>
    BY <1>6 DEF MoveOutPublish, At, TypeOK, Works, mongo, stores, hosted, outer
  <2>2. to \in Hosts /\ to # h
    BY <2>1, HeadFacts, HeadType DEF TypeOK, IndInv, Addressed, OutSteps
  <2>3. c \in Cmds /\ c.type = "move_in" /\ c.from = h /\ c.to = to /\ c.tid = work[h].tid
    BY <2>1, <2>2, CmdType
  <2>4. Docile
    BY <2>1, FailingIsDocile
  <2>5. \E step \in {"ack", "out_rollback"} :
          Goto(h, step) /\ (Send(to, c) \/ UNCHANGED queue)
    BY <1>6 DEF MoveOutPublish
  <2> HIDE DEF c, to
  <2>6. CASE UNCHANGED queue
    <3>1. \E step \in {"ack", "out_rollback"} : Goto(h, step)
      BY <2>5
    <3>2. \E step \in {"ack", "out_rollback"} : Routine(h, step)
      BY <2>1, <2>6, <3>1, HeadFacts DEF Routine, OutSteps, InSteps
    <3> QED BY <2>4, <3>2, RoutineKeeps DEF Steps, OutSteps
  <2>7. CASE Send(to, c)
    <3>1. PICK step \in {"ack", "out_rollback"} : Goto(h, step)
      BY <2>5
    <3>2. /\ work'[h].at = step /\ work'[h].tid = work[h].tid
          /\ \A g \in Hosts : g # h => work'[g] = work[g]
      BY <3>1, GotoFacts DEF TypeOK, Steps, OutSteps
    <3>3. /\ HeadsStay
          /\ \A g \in Hosts : Waiting(g)' \subseteq Waiting(g) \cup {c}
          /\ \A g \in Hosts : g # to => Waiting(g)' = Waiting(g)
      BY <2>2, <2>3, <2>7, SendAdds DEF TypeOK
    <3>4. HeadInProgress'
      <4>1. Onward(h, step)
        BY <2>1, <3>2, <3>3, HeadFacts DEF Onward, OutSteps, InSteps
      <4> QED BY <4>1, HeadOnward DEF IndInv, Steps, OutSteps
    <3>5. Claims(h, work[h].tid)
      BY <2>1 DEF Claims, Carries
    <3>6. work[h].tid \in 1..lastTid
      BY <2>1, <3>5 DEF IndInv, OneSource
    <3>7. Addressed'
      BY <2>1, <2>2, <2>3, <3>3, <3>6 DEF IndInv, Addressed
    <3>8. ASSUME NEW a \in Hosts, NEW t \in Tids, Claims(a, t)' PROVE Claims(a, t)
      <4>1. CASE Carries(a, t)'
        BY <2>1, <3>2, <4>1 DEF Claims, Carries
      <4>2. ASSUME NEW g \in Hosts, NEW d \in Waiting(g)',
                   d.type = "move_in", d.from = a, d.tid = t
            PROVE  Claims(a, t)
        <5>1. CASE d \in Waiting(g)
          BY <4>2, <5>1 DEF Claims
        <5>2. CASE d = c
          BY <2>3, <3>5, <4>2, <5>2
        <5> QED BY <3>3, <5>1, <5>2
      <4> QED BY <3>8, <4>1, <4>2 DEF Claims
    <3>9. OneSource'
      BY <2>1, <3>8 DEF IndInv, OneSource
    <3>10. TransferNamed' /\ OwnerHasConversation'
      BY <2>1 DEF IndInv, TransferNamed, OwnerHasConversation
    <3>11. Imports' /\ FreshTransfer' /\ ExporterIsOwner'
      BY <2>1, <3>2 DEF IndInv, Imports, FreshTransfer, ExporterIsOwner, Exporting
    <3> QED BY <3>4, <3>7, <3>9, <3>10, <3>11 DEF IndInv
  <2> QED BY <2>5, <2>6, <2>7
<1>7. CASE MoveOutRollback(h)
  <2>1. UNCHANGED <<lastTid, requests, file, queue>>
    BY <1>7 DEF MoveOutRollback, outer
  <2>2. doc' = Phase(doc, "failed") \/ doc' = [Phase(doc, "failed") EXCEPT !.status = "active"]
    BY <1>7 DEF MoveOutRollback
  <2>3. Docile
    BY <2>1, <2>2, FailingIsDocile
  <2>4. Routine(h, "ack")
    BY <1>7 DEF MoveOutRollback, At, Routine, OutSteps, InSteps
  <2> QED BY <2>3, <2>4, RoutineKeeps DEF Steps
<1> QED BY <1>1, <1>2, <1>3, <1>4, <1>5, <1>6, <1>7 DEF MoveOut

LEMMA MoveInKeeps ==
  ASSUME TypeOK, TypeOK', IndInv, NEW h \in Hosts, MoveIn(h)
  PROVE  IndInv'
<1>1. CASE TakeMoveIn(h)
  <2>1. Docile
    BY <1>1, FailingIsDocile DEF TakeMoveIn, mongo, stores, hosted, outer
  <2>2. \E step \in {"in_prepare", "ack"} : Routine(h, step)
    BY <1>1 DEF TakeMoveIn, Taking, Routine, OutSteps, InSteps
  <2> QED BY <2>1, <2>2, RoutineKeeps DEF Steps, InSteps
<1>2. CASE MoveInPrepare(h)
  <2>1. Docile
    BY <1>2, FailingIsDocile DEF MoveInPrepare, mongo, stores, hosted, outer
  <2>2. \E step \in {"in_import", "in_spare"} : Routine(h, step)
    BY <1>2, HeadFacts DEF MoveInPrepare, AfterPrepare, At, Routine, OutSteps, InSteps
  <2> QED BY <2>1, <2>2, RoutineKeeps DEF Steps, InSteps
<1>3. CASE MoveInImport(h)
  <2>1. file' = [file EXCEPT ![h] = Imported(h)] /\ Imported(h) # "none"
    BY <1>3 DEF MoveInImport
  <2>2. file'[h] # "none" /\ \A g \in Hosts : file[g] # "none" => file'[g] # "none"
    BY <2>1 DEF TypeOK
  <2>3. UNCHANGED <<doc, lastTid, requests>>
    BY <1>3 DEF MoveInImport, mongo, stores, outer
  <2>4. Docile
    BY <2>2, <2>3, FailingIsDocile
  <2>5. \E step \in {"in_commit", "in_fail"} : Goto(h, step)
    BY <1>3 DEF MoveInImport
  <2>6. UNCHANGED queue /\ queue[h] # <<>> /\ work[h].at = "in_import"
    BY <1>3 DEF MoveInImport, At
  <2>7. \E step \in {"in_commit", "in_fail"} : Routine(h, step)
    BY <2>2, <2>5, <2>6, HeadFacts DEF Routine, OutSteps, InSteps
  <2> QED BY <2>4, <2>7, RoutineKeeps DEF Steps, InSteps
<1>4. CASE MoveInImportFails(h)
  <2>1. Docile
    BY <1>4, FailingIsDocile DEF MoveInImportFails, mongo, stores, hosted, outer
  <2>2. Routine(h, "in_fail")
    BY <1>4, HeadFacts DEF MoveInImportFails, At, Routine, OutSteps, InSteps
  <2> QED BY <2>1, <2>2, RoutineKeeps DEF Steps, InSteps
<1>5. CASE MoveInCommit(h)
  <2> DEFINE c == Head(queue[h])
  <2>1. /\ queue[h] # <<>> /\ work[h].at = "in_commit" /\ Goto(h, "in_clean")
        /\ UNCHANGED <<queue, lastTid, file, requests>> /\ doc' = Taken(h)
    BY <1>5 DEF MoveInCommit, At, hosted, outer
  <2>2. c \in Waiting(h) /\ c.type = "move_in" /\ doc.tid = c.tid /\ c.tid \in 1..lastTid
    BY <1>5, <2>1, HeadFacts DEF MoveInCommit, Awaited, InSteps, IndInv, Addressed
  <2>3. doc'.host = h /\ doc'.tid = 0
    <3>1. Unmoved(doc) \in Docs /\ Unmoved(doc).tid = 0
      BY DocType DEF TypeOK, Phases
    <3> QED BY <2>1, <3>1 DEF Taken, Docs
  <2>4. /\ work'[h].at = "in_clean" /\ work'[h].tid = work[h].tid
        /\ \A g \in Hosts : g # h => work'[g] = work[g]
    BY <2>1, GotoFacts DEF TypeOK, Steps, InSteps
  <2>5. HeadInProgress'
    <3>1. Onward(h, "in_clean")
      BY <2>1, <2>2, <2>4, HeadsStaySteady DEF Onward, OutSteps, InSteps
    <3> QED BY <3>1, HeadOnward DEF IndInv, Steps, InSteps
  <2>6. \A g \in Hosts : Waiting(g)' = Waiting(g)
    BY <2>1 DEF Waiting
  <2>7. Addressed'
    BY <2>1, <2>6 DEF IndInv, Addressed
  <2>8. ClaimsNothing
    BY <2>4, <2>6 DEF ClaimsNothing, Carries
  <2>9. OneSource'
    BY <2>1, <2>3, <2>8, KeepOneSource DEF IndInv, TypeOK, Tids
  <2>10. TransferNamed'
    BY <2>1, <2>3 DEF TransferNamed, TypeOK, Tids
  <2>11. Imports' /\ FreshTransfer'
    BY <2>1, <2>4 DEF IndInv, Imports, FreshTransfer
  <2>12. ExporterIsOwner'
    BY <2>2, <2>3, <2>4 DEF IndInv, ExporterIsOwner, Exporting
  <2>13. OwnerHasConversation'
    BY <2>1, <2>3 DEF IndInv, Imports, OwnerHasConversation
  <2> QED BY <2>5, <2>7, <2>9, <2>10, <2>11, <2>12, <2>13 DEF IndInv
<1>6. CASE MoveInCollide(h)
  <2>1. Docile
    BY <1>6, FailingIsDocile DEF MoveInCollide, mongo, stores, hosted, outer
  <2>2. Routine(h, "ack")
    BY <1>6 DEF MoveInCollide, At, Routine, OutSteps, InSteps
  <2> QED BY <2>1, <2>2, RoutineKeeps DEF Steps
<1>7. CASE MoveInCancelled(h)
  <2>1. Docile
    BY <1>7, FailingIsDocile DEF MoveInCancelled, mongo, stores, outer
  <2>2. Routine(h, "ack")
    BY <1>7 DEF MoveInCancelled, At, Routine, OutSteps, InSteps
  <2> QED BY <2>1, <2>2, RoutineKeeps DEF Steps
<1>8. CASE MoveInClean(h)
  <2>1. Docile
    BY <1>8, FailingIsDocile DEF MoveInClean, hosted, outer
  <2>2. Routine(h, "ack")
    BY <1>8 DEF MoveInClean, At, Routine, OutSteps, InSteps
  <2> QED BY <2>1, <2>2, RoutineKeeps DEF Steps
<1>9. CASE MoveInFail(h)
  <2>1. Docile
    BY <1>9, FailingIsDocile DEF MoveInFail, FailedIn, stores, outer
  <2>2. Routine(h, "in_giveback")
    BY <1>9, HeadFacts DEF MoveInFail, At, Routine, OutSteps, InSteps
  <2> QED BY <2>1, <2>2, RoutineKeeps DEF Steps, InSteps
<1>10. CASE MoveInGiveBack(h)
  <2> DEFINE from == Head(queue[h]).from
             c == Cmd("resume", from, from, 0)
  <2>1. /\ queue[h] # <<>> /\ work[h].at = "in_giveback"
        /\ Send(from, c) \/ UNCHANGED queue
        /\ UNCHANGED <<doc, lastTid, file, requests>>
    BY <1>10 DEF MoveInGiveBack, GivenBack, At, mongo, stores, hosted, outer
  <2>2. PICK step \in {"in_clean", "ack"} : Goto(h, step)
    BY <1>10 DEF MoveInGiveBack
  <2>3. from \in Hosts
    BY <2>1, HeadType DEF TypeOK
  <2>4. c \in Cmds /\ c.type = "resume"
    BY <2>3, CmdType, Bounds
  <2> HIDE DEF c, from
  <2>5. HeadsStay /\ \A g \in Hosts : Waiting(g)' \subseteq Waiting(g) \cup {c}
    <3>1. CASE Send(from, c)
      BY <2>3, <2>4, <3>1, SendAdds DEF TypeOK
    <3>2. CASE UNCHANGED queue
      BY <3>2, HeadsStaySteady DEF Waiting
    <3> QED BY <2>1, <3>1, <3>2
  <2>6. /\ work'[h].at = step /\ work'[h].tid = work[h].tid
        /\ \A g \in Hosts : g # h => work'[g] = work[g]
    BY <2>2, GotoFacts DEF TypeOK, Steps, InSteps
  <2>7. HeadInProgress'
    <3>1. Onward(h, step)
      BY <2>1, <2>5, <2>6, HeadFacts DEF Onward, OutSteps, InSteps
    <3> QED BY <3>1, HeadOnward DEF IndInv, Steps, InSteps
  <2>8. Addressed'
    BY <2>1, <2>4, <2>5 DEF IndInv, Addressed
  <2>9. ClaimsNothing
    BY <2>4, <2>5, <2>6 DEF ClaimsNothing, Carries
  <2>10. OneSource'
    BY <2>1, <2>9, KeepOneSource DEF IndInv, TypeOK, Docs, Tids
  <2>11. TransferNamed' /\ OwnerHasConversation'
    BY <2>1 DEF IndInv, TransferNamed, OwnerHasConversation
  <2>12. Imports' /\ FreshTransfer' /\ ExporterIsOwner'
    BY <2>1, <2>6 DEF IndInv, Imports, FreshTransfer, ExporterIsOwner, Exporting
  <2> QED BY <2>7, <2>8, <2>10, <2>11, <2>12 DEF IndInv
<1> QED BY <1>1, <1>2, <1>3, <1>4, <1>5, <1>6, <1>7, <1>8, <1>9, <1>10 DEF MoveIn

LEMMA OthersKeep ==
  ASSUME TypeOK, TypeOK', IndInv, NEW h \in Hosts,
         TakeResume(h) \/ TakeInput(h) \/ Ack(h) \/ Wake(h) \/ SendWaiting(h)
           \/ Expire(h) \/ Crash(h)
           \/ DiscoveryList(h) \/ DiscoverySees(h) \/ DiscoveryMisses(h)
  PROVE  IndInv'
<1>1. CASE TakeResume(h)
  <2>1. Docile
    BY <1>1, FailingIsDocile DEF TakeResume, Relaunch, stores, outer
  <2>2. Routine(h, "ack")
    BY <1>1 DEF TakeResume, Taking, Routine, OutSteps, InSteps
  <2> QED BY <2>1, <2>2, RoutineKeeps DEF Steps
<1>2. CASE TakeInput(h)
  <2>1. \A g \in Hosts : file[g] # "none" => file'[g] # "none"
    BY <1>2, TurnKeepsCopies DEF TakeInput, TypeOK
  <2>2. Docile
    BY <1>2, <2>1, FailingIsDocile DEF TakeInput, outer
  <2>3. Routine(h, "ack")
    BY <1>2 DEF TakeInput, Taking, Routine, OutSteps, InSteps
  <2> QED BY <2>2, <2>3, RoutineKeeps DEF Steps
<1>3. CASE Ack(h)
  <2>1. Docile
    BY <1>3, FailingIsDocile DEF Ack, mongo, stores, hosted, outer
  <2> QED BY <1>3, <2>1, PopKeeps DEF Ack, At
<1>4. CASE Wake(h)
  <2>1. \A g \in Hosts : file[g] # "none" => file'[g] # "none"
    BY <1>4, TurnKeepsCopies DEF Wake, TypeOK
  <2>2. Docile
    <3>1. doc' = doc \/ doc' = [doc EXCEPT !.status = "active"]
      BY <1>4 DEF Wake, Relaunch
    <3>2. UNCHANGED <<lastTid, requests>>
      BY <1>4 DEF Wake, outer
    <3> QED BY <2>1, <3>1, <3>2, FailingIsDocile
  <2>3. UNCHANGED <<queue, work>>
    BY <1>4 DEF Wake
  <2> QED BY <2>2, <2>3, SteadyKeeps
<1>5. CASE SendWaiting(h)
  <2>1. \A g \in Hosts : file[g] # "none" => file'[g] # "none"
    BY <1>5, TurnKeepsCopies DEF SendWaiting, TypeOK
  <2>2. Docile
    BY <1>5, <2>1, FailingIsDocile DEF SendWaiting, outer
  <2> QED BY <1>5, <2>2, SteadyKeeps DEF SendWaiting
<1>6. CASE Expire(h)
  <2>1. Docile
    BY <1>6, FailingIsDocile DEF Expire, mongo, stores, hosted
  <2>2. Routine(h, "ack")
    BY <1>6 DEF Expire, Routine, OutSteps, InSteps
  <2> QED BY <2>1, <2>2, RoutineKeeps DEF Steps
<1>7. CASE Crash(h)
  <2>1. Docile
    BY <1>7, FailingIsDocile DEF Crash, mongo, stores, hosted
  <2> QED BY <1>7, <2>1, PopKeeps DEF Crash
<1>8. CASE DiscoveryList(h) \/ DiscoverySees(h) \/ DiscoveryMisses(h)
  <2>1. Docile
    BY <1>8, FailingIsDocile DEF DiscoveryList, DiscoverySees, DiscoveryMisses,
       mongo, stores, hosted, outer
  <2>2. UNCHANGED <<queue, work>>
    BY <1>8 DEF DiscoveryList, DiscoverySees, DiscoveryMisses
  <2> QED BY <2>1, <2>2, SteadyKeeps
<1> QED BY <1>1, <1>2, <1>3, <1>4, <1>5, <1>6, <1>7, <1>8

LEMMA IndInvInit == Init => IndInv
<1> SUFFICES ASSUME Init PROVE IndInv
  OBVIOUS
<1>1. \A h \in Hosts : Waiting(h) = {}
  <2>1. \A h \in Hosts : queue[h] = <<>>
    BY DEF Init
  <2>2. DOMAIN <<>> = {}
    OBVIOUS
  <2> QED BY <2>1, <2>2 DEF Waiting
<1>2. HeadInProgress /\ Imports /\ FreshTransfer /\ ExporterIsOwner
  BY DEF Init, HeadInProgress, Imports, FreshTransfer, ExporterIsOwner, Exporting, Idle,
     OutSteps, InSteps
<1>3. Addressed
  BY <1>1 DEF Init, Addressed
<1>4. TransferNamed /\ OwnerHasConversation
  BY Bounds DEF Init, TransferNamed, OwnerHasConversation
<1>5. OneSource
  BY <1>1 DEF Init, OneSource, Claims, Carries, Idle
<1> QED BY <1>2, <1>3, <1>4, <1>5 DEF IndInv

LEMMA IndInvStep == TypeOK /\ TypeOK' /\ IndInv /\ [Next]_vars => IndInv'
<1> SUFFICES ASSUME TypeOK, TypeOK', IndInv, [Next]_vars PROVE IndInv'
  OBVIOUS
<1>1. CASE UNCHANGED vars
  <2>1. Docile /\ UNCHANGED <<queue, work>>
    BY <1>1, FailingIsDocile DEF vars, mongo, stores, hosted, outer
  <2> QED BY <2>1, SteadyKeeps
<1>2. CASE Next
  BY <1>2, ClientKeeps, MoveOutKeeps, MoveInKeeps, OthersKeep DEF Next, Consume
<1> QED BY <1>1, <1>2

\* Only the owner exports, and the owner always keeps the conversation: IndInv
\* holds in every state, whatever clients, crashes, losses and discovery do.
THEOREM Inductive == Spec => [](TypeOK /\ IndInv)
<1>1. Init => TypeOK /\ IndInv
  BY TypeInit, IndInvInit
<1>2. TypeOK /\ IndInv /\ [Next]_vars => (TypeOK /\ IndInv)'
  BY TypeStep, IndInvStep
<1> QED BY <1>1, <1>2, PTL DEF Spec

-----------------------------------------------------------------------------
(* What follows from it. *)

\* Wherever a move stops, the owner can resume the conversation.
THEOREM OwnerKeepsConversation == Spec => []OwnerHasConversation
<1>1. TypeOK /\ IndInv => OwnerHasConversation
  BY DEF IndInv
<1> QED BY <1>1, Inductive, PTL

\* Only the owner is past the checks of move_out, with no transfer in the document.
THEOREM OnlyOwnerExports == Spec => []ExporterIsOwner
<1>1. TypeOK /\ IndInv => ExporterIsOwner
  BY DEF IndInv
<1> QED BY <1>1, Inductive, PTL

\* A step of which the ownership sees nothing.
Unseen ==
  /\ doc'.host = doc.host /\ doc'.tid \in {0, doc.tid, lastTid} /\ history' = history
  /\ \A g \in Hosts : file'[g] # "none" <=> file[g] # "none"

LEMMA UnseenWrites ==
  ASSUME TypeOK,
         \/ doc' = doc \/ doc' = Phase(doc, "failed") \/ doc' = Unmoved(doc)
         \/ doc' = [Phase(doc, "failed") EXCEPT !.status = "active"]
         \/ \E s \in {"active", "stopped"} : doc' = [doc EXCEPT !.status = s]
         \/ doc' = [doc EXCEPT !.age = "stale"],
         UNCHANGED history,
         file' = file \/ \E h \in Hosts : Turn(h)
  PROVE  Unseen
<1>1. \A g \in Hosts : file'[g] # "none" <=> file[g] # "none"
  <2>1. ASSUME NEW h \in Hosts, Turn(h), NEW g \in Hosts
        PROVE  file'[g] # "none" <=> file[g] # "none"
    BY <2>1 DEF Turn, Behind
  <2> QED BY <2>1
<1>2. /\ Phase(doc, "failed") \in Docs /\ Phase(doc, "failed").host = doc.host
      /\ Phase(doc, "failed").tid = doc.tid
      /\ Unmoved(doc).host = doc.host /\ Unmoved(doc).tid = 0
  BY DocType DEF TypeOK, Phases
<1>3. doc'.host = doc.host /\ doc'.tid \in {0, doc.tid, lastTid}
  BY <1>2 DEF TypeOK, Docs
<1> QED BY <1>1, <1>3 DEF Unseen

\* Every step is unseen, copies the conversation, or hands the session over.
LEMMA OwnerStep ==
  ASSUME TypeOK, IndInv, [Next]_vars
  PROVE  Unseen \/ \E h \in Hosts : MoveInImport(h) \/ MoveInCommit(h)
<1>1. CASE UNCHANGED vars
  BY <1>1, UnseenWrites DEF vars, mongo, stores, hosted
<1>2. CASE Client
  <2>1. /\ doc' = doc \/ doc' = Unmoved(doc) \/ doc' = [doc EXCEPT !.age = "stale"]
        /\ UNCHANGED <<history, file>>
    BY <1>2 DEF Client, MoveRequest, Resume, Input, GrowStale, mongo, stores, hosted
  <2> QED BY <2>1, UnseenWrites
<1>3. ASSUME NEW r \in requests, MoveAccept(r) PROVE Unseen
  <2>1. doc'.host = doc.host /\ doc'.tid = 0 /\ UNCHANGED <<history, file>>
    BY <1>3 DEF MoveAccept, stores, hosted, TypeOK, Docs
  <2> QED BY <2>1 DEF Unseen
<1>4. ASSUME NEW h \in Hosts, MoveOut(h) PROVE Unseen
  <2>1. CASE MoveOutHandOver(h)
    <3>1. work[h].tid = lastTid /\ UNCHANGED <<history, file>>
      BY <2>1 DEF MoveOutHandOver, At, IndInv, FreshTransfer, stores, hosted
    <3>2. Phase(doc, "importing") \in Docs /\ Phase(doc, "importing").host = doc.host
      BY DocType DEF TypeOK, Phases
    <3>3. doc'.host = doc.host /\ doc'.tid = work[h].tid
      BY <2>1, <3>2 DEF MoveOutHandOver, Docs
    <3> QED BY <3>1, <3>3 DEF Unseen
  <2>2. CASE ~MoveOutHandOver(h)
    <3>1. /\ \/ doc' = doc \/ doc' = Phase(doc, "failed")
             \/ doc' = [Phase(doc, "failed") EXCEPT !.status = "active"]
             \/ \E s \in {"active", "stopped"} : doc' = [doc EXCEPT !.status = s]
          /\ UNCHANGED <<history, file>>
      BY <1>4, <2>2 DEF MoveOut, TakeMoveOut, MoveOutRefuse, MoveOutStop, MoveOutExport,
         MoveOutPublish, MoveOutRollback, mongo, stores, hosted
    <3> QED BY <3>1, UnseenWrites
  <2> QED BY <2>1, <2>2
<1>5. ASSUME NEW h \in Hosts, MoveIn(h), ~MoveInImport(h), ~MoveInCommit(h) PROVE Unseen
  <2>1. (doc' = doc \/ doc' = Phase(doc, "failed")) /\ UNCHANGED <<history, file>>
    BY <1>5 DEF MoveIn, TakeMoveIn, MoveInPrepare, MoveInImportFails, MoveInCollide,
       MoveInCancelled, MoveInClean, MoveInFail, FailedIn, MoveInGiveBack, mongo, stores,
       hosted
  <2> QED BY <2>1, UnseenWrites
<1>6. ASSUME NEW h \in Hosts,
             \/ TakeResume(h) \/ TakeInput(h) \/ Ack(h) \/ Wake(h) \/ SendWaiting(h)
             \/ Expire(h) \/ Crash(h)
             \/ DiscoveryList(h) \/ DiscoverySees(h) \/ DiscoveryMisses(h)
      PROVE  Unseen
  <2>1. /\ doc' = doc \/ \E s \in {"active", "stopped"} : doc' = [doc EXCEPT !.status = s]
        /\ UNCHANGED history
        /\ file' = file \/ Turn(h)
    BY <1>6 DEF TakeResume, Relaunch, TakeInput, Ack, Wake, SendWaiting, Expire, Crash,
       DiscoveryList, DiscoverySees, DiscoveryMisses, mongo, stores, hosted
  <2> QED BY <2>1, UnseenWrites
<1> QED BY <1>1, <1>2, <1>3, <1>4, <1>5, <1>6 DEF Next, Consume

\* A completed move is one the owner handed over.
LEMMA CommitFacts ==
  ASSUME TypeOK, IndInv, NEW h \in Hosts, MoveInCommit(h)
  PROVE  /\ doc'.host = h /\ h # doc.host /\ file[h] # "none" /\ file' = file
         /\ doc'.tid = 0 /\ history' = Append(history, <<doc.host, h>>)
<1> DEFINE c == Head(queue[h])
<1>1. /\ queue[h] # <<>> /\ work[h].at = "in_commit" /\ doc.tid = c.tid
      /\ doc' = Taken(h) /\ history' = Append(history, <<c.from, h>>) /\ file' = file
  BY DEF MoveInCommit, At, Awaited, hosted
<1>2. c \in Waiting(h) /\ c \in Cmds /\ c.type = "move_in"
  BY <1>1, HeadFacts DEF InSteps
<1>3. c.from # h /\ c.tid \in 1..lastTid /\ c.from \in Hosts /\ c.tid \in Tids
  BY <1>2 DEF IndInv, Addressed, Cmds
<1>4. doc.host = c.from
  BY <1>1, <1>2, <1>3 DEF IndInv, OneSource, Claims
<1>5. doc'.host = h /\ doc'.tid = 0
  <2>1. Unmoved(doc) \in Docs /\ Unmoved(doc).tid = 0
    BY DocType DEF TypeOK, Phases
  <2> QED BY <1>1, <2>1 DEF Taken, Docs
<1>6. file[h] # "none"
  BY <1>1 DEF IndInv, Imports
<1> QED BY <1>1, <1>3, <1>4, <1>5, <1>6

\* A transfer replaced or cancelled never comes back to the document.
THEOREM CancelledNeverReturns == Spec => CancelledStaysCancelled
<1>1. TypeOK /\ IndInv /\ [Next]_vars => [doc'.tid \in {0, doc.tid, lastTid}]_vars
  <2> SUFFICES ASSUME TypeOK, IndInv, [Next]_vars
               PROVE  doc'.tid \in {0, doc.tid, lastTid}
    OBVIOUS
  <2>1. ASSUME NEW h \in Hosts, MoveInImport(h) PROVE doc' = doc
    BY <2>1 DEF MoveInImport, mongo
  <2> QED BY <2>1, OwnerStep, CommitFacts DEF Unseen
<1> QED BY <1>1, Inductive, PTL DEF Spec, CancelledStaysCancelled

\* move_history is the chain of owners.
THEOREM HistoryChains == Spec => []HistoryIsChain
<1>1. Init => HistoryIsChain
  BY DEF Init, HistoryIsChain
<1>2. TypeOK /\ IndInv /\ HistoryIsChain /\ [Next]_vars => HistoryIsChain'
  <2> SUFFICES ASSUME TypeOK, IndInv, HistoryIsChain, [Next]_vars PROVE HistoryIsChain'
    OBVIOUS
  <2>1. CASE Unseen
    BY <2>1 DEF Unseen, HistoryIsChain
  <2>2. ASSUME NEW h \in Hosts, MoveInImport(h) PROVE HistoryIsChain'
    BY <2>2 DEF MoveInImport, mongo, stores, HistoryIsChain
  <2>3. ASSUME NEW h \in Hosts, MoveInCommit(h) PROVE HistoryIsChain'
    <3>1. doc'.host = h /\ history' = Append(history, <<doc.host, h>>)
      BY <2>3, CommitFacts
    <3>2. history \in Seq(Hosts \X Hosts) /\ Len(history) \in Nat
      BY DEF TypeOK
    <3>3. /\ Len(history') = Len(history) + 1
          /\ history'[Len(history) + 1] = <<doc.host, h>>
          /\ \A i \in 1..Len(history) : history'[i] = history[i]
          /\ DOMAIN history' = 1..(Len(history) + 1) /\ DOMAIN history = 1..Len(history)
      BY <3>1, <3>2
    <3>4. ASSUME NEW i \in DOMAIN history'
          PROVE  history'[i][1] = IF i - 1 = 0 THEN Home ELSE history'[i - 1][2]
      <4>1. CASE i = Len(history) + 1
        BY <3>2, <3>3, <4>1 DEF HistoryIsChain
      <4>2. CASE i \in 1..Len(history)
        BY <3>2, <3>3, <4>2 DEF HistoryIsChain
      <4> QED BY <3>2, <3>3, <4>1, <4>2
    <3>5. doc'.host = IF Len(history') = 0 THEN Home ELSE history'[Len(history')][2]
      BY <3>1, <3>2, <3>3
    <3> QED BY <3>4, <3>5 DEF HistoryIsChain
  <2> QED BY <2>1, <2>2, <2>3, OwnerStep
<1> QED BY <1>1, <1>2, Inductive, PTL DEF Spec

\* Only a discovery cycle makes a twin, on a host that is not the owner.
LEMMA TwinStep ==
  ASSUME [Next]_vars
  PROVE  \/ foreign' \subseteq foreign
         \/ \E h \in Hosts : doc.host # h /\ doc' = doc /\ foreign' = foreign \cup {h}
<1>1. CASE UNCHANGED vars
  BY <1>1 DEF vars, mongo, stores
<1>2. CASE Client \/ \E r \in requests : MoveAccept(r)
  BY <1>2 DEF Client, MoveRequest, Resume, Input, GrowStale, MoveAccept, mongo, stores
<1>3. ASSUME NEW h \in Hosts, Consume(h) \/ Wake(h) \/ SendWaiting(h)
      PROVE  foreign' = foreign
  <2>1. CASE MoveOut(h)
    BY <2>1 DEF MoveOut, TakeMoveOut, MoveOutRefuse, MoveOutStop, MoveOutExport,
       MoveOutHandOver, MoveOutPublish, MoveOutRollback, mongo, stores
  <2>2. CASE MoveIn(h)
    BY <2>2 DEF MoveIn, TakeMoveIn, MoveInPrepare, MoveInImport, MoveInImportFails,
       MoveInCommit, MoveInCollide, MoveInCancelled, MoveInClean, MoveInFail,
       MoveInGiveBack, mongo, stores
  <2>3. CASE TakeResume(h) \/ TakeInput(h) \/ Ack(h) \/ Wake(h) \/ SendWaiting(h)
    BY <2>3 DEF TakeResume, TakeInput, Ack, Wake, SendWaiting, mongo, stores
  <2> QED BY <1>3, <2>1, <2>2, <2>3 DEF Consume
<1>4. ASSUME NEW h \in Hosts,
             Expire(h) \/ Crash(h) \/ DiscoveryList(h) \/ DiscoveryMisses(h)
      PROVE  foreign' \subseteq foreign
  BY <1>4 DEF Expire, Crash, DiscoveryList, DiscoveryMisses, mongo, stores
<1>5. ASSUME NEW h \in Hosts, DiscoverySees(h)
      PROVE  foreign' = foreign \/ (doc.host # h /\ doc' = doc /\ foreign' = foreign \cup {h})
  BY <1>5 DEF DiscoverySees
<1> QED BY <1>1, <1>2, <1>3, <1>4, <1>5 DEF Next

\* A host that takes a session over has no active twin of it: discovery makes
\* none where the document is, and the unique index keeps the document away
\* from where one was made.
THEOREM OwnerHasNoTwin == Spec => []NoTwinOfOwner
<1>1. Init => NoTwinOfOwner
  BY DEF Init, NoTwinOfOwner
<1>2. TypeOK /\ IndInv /\ NoTwinOfOwner /\ [Next]_vars => NoTwinOfOwner'
  <2> SUFFICES ASSUME TypeOK, IndInv, NoTwinOfOwner, [Next]_vars PROVE NoTwinOfOwner'
    OBVIOUS
  <2>1. CASE doc'.host = doc.host
    BY <2>1, TwinStep DEF NoTwinOfOwner
  <2>2. CASE doc'.host # doc.host
    <3>1. PICK h \in Hosts : MoveInCommit(h)
      <4>1. ASSUME NEW h \in Hosts, MoveInImport(h) PROVE doc' = doc
        BY <4>1 DEF MoveInImport, mongo
      <4> QED BY <2>2, <4>1, OwnerStep DEF Unseen
    <3>2. doc'.host = h
      BY <3>1, CommitFacts
    <3>3. h \notin foreign /\ foreign' = foreign
      BY <3>1 DEF MoveInCommit, Unique
    <3> QED BY <3>2, <3>3 DEF NoTwinOfOwner
  <2> QED BY <2>1, <2>2
<1> QED BY <1>1, <1>2, Inductive, PTL DEF Spec

\* Moving a session implements SessionOwnership.
THEOREM MovingKeepsOwnership == Spec => ImplementsOwnership
<1> DEFINE kept == {h \in Hosts : file[h] # "none"}
<1>1. Init => Ownership!Init
  <2> SUFFICES ASSUME Init PROVE doc.host = Home /\ history = <<>> /\ kept = {Home}
    BY DEF Ownership!Init
  <2> QED BY Bounds DEF Init
<1>2. TypeOK /\ IndInv /\ [Next]_vars => [Ownership!Next]_(Ownership!ownership)
  <2> SUFFICES ASSUME TypeOK, IndInv, [Next]_vars
               PROVE  [Ownership!Next]_(Ownership!ownership)
    OBVIOUS
  <2>1. CASE Unseen
    BY <2>1 DEF Unseen, Ownership!ownership
  <2>2. ASSUME NEW h \in Hosts, MoveInImport(h) PROVE Ownership!Next
    <3>1. /\ file' = [file EXCEPT ![h] = Imported(h)] /\ Imported(h) # "none"
          /\ doc' = doc /\ history' = history
      BY <2>2 DEF MoveInImport, mongo, stores
    <3>2. kept' = kept \cup {h}
      BY <3>1 DEF TypeOK
    <3> QED BY <3>1, <3>2 DEF Ownership!Next, Ownership!Copy
  <2>3. ASSUME NEW h \in Hosts, MoveInCommit(h) PROVE Ownership!Next
    BY <2>3, CommitFacts DEF Ownership!Next, Ownership!HandOver
  <2> QED BY <2>1, <2>2, <2>3, OwnerStep
<1> QED BY <1>1, <1>2, Inductive, PTL DEF Spec, ImplementsOwnership, Ownership!Spec

-----------------------------------------------------------------------------
(* One move at a time: what holds as long as no mishap disturbs the moves. *)

\* A queue entry by entry.
LEMMA EntryFacts ==
  ASSUME TypeOK, NEW h \in Hosts
  PROVE  /\ Len(queue[h]) \in Nat /\ DOMAIN queue[h] = 1..Len(queue[h])
         /\ \A i \in DOMAIN queue[h] :
              /\ queue[h][i] \in Cmds /\ queue[h][i] \in Waiting(h)
              /\ queue[h][i].type \in MoveTypes \cup TalkTypes
         /\ queue[h] # <<>> <=> 1 \in DOMAIN queue[h]
         /\ queue[h] # <<>> => queue[h][1] = Head(queue[h])
         /\ \A types : Queued(h, types) <=> \E i \in DOMAIN queue[h] : queue[h][i].type \in types
<1>1. queue[h] \in Seq(Cmds)
  BY DEF TypeOK
<1>2. Len(queue[h]) \in Nat /\ DOMAIN queue[h] = 1..Len(queue[h])
  BY <1>1
<1>3. \A i \in DOMAIN queue[h] : queue[h][i] \in Cmds
  BY <1>1
<1>4. \A i \in DOMAIN queue[h] : queue[h][i].type \in MoveTypes \cup TalkTypes
  BY <1>3 DEF Cmds, MoveTypes, TalkTypes
<1>5. \A i \in DOMAIN queue[h] : queue[h][i] \in Waiting(h)
  BY DEF Waiting
<1>6. queue[h] # <<>> <=> 1 \in DOMAIN queue[h]
  BY <1>1, <1>2
<1>7. queue[h] # <<>> => queue[h][1] = Head(queue[h])
  BY <1>1
<1>8. \A types : Queued(h, types) <=> \E i \in DOMAIN queue[h] : queue[h][i].type \in types
  BY DEF Queued, Waiting
<1> QED BY <1>2, <1>3, <1>4, <1>5, <1>6, <1>7, <1>8

\* The source of a move that is not done: no other command waits anywhere.
LEMMA OutAlone ==
  ASSUME TypeOK, IndInv, InOrder, NEW h \in Hosts, queue[h] # <<>>, Leaving(h, 1)
  PROVE  /\ DOMAIN queue[h] = {1} /\ Len(queue[h]) = 1 /\ queue[h][1] = Head(queue[h])
         /\ \A g \in Hosts \ {h} : DOMAIN queue[g] = {} /\ work[g].at = "idle"
         /\ requests = {} /\ \A g \in Hosts : waking[g] = 0
         /\ doc.host = h /\ doc.target = Head(queue[h]).to
         /\ \A g \in Hosts : ~Committing(g)
         /\ file[h] = "full" /\ \A g \in Hosts \ {h} : pane[g] # "agent"
<1> DEFINE c == Head(queue[h])
<1>1. 1 \in DOMAIN queue[h] /\ queue[h][1] = c /\ c.type = "move_out"
  BY EntryFacts DEF Leaving
<1>3. 1 = Len(queue[h]) /\ doc.host = h /\ doc.target = c.to
  BY <1>1 DEF InOrder, TalkAside, OutUnderWay
<1>4. DOMAIN queue[h] = {1}
  BY <1>3, EntryFacts
<1>5. ASSUME NEW g \in Hosts \ {h}, NEW i \in DOMAIN queue[g] PROVE FALSE
  <2>1. queue[g][i].type # "move_out"
    BY <1>1, <1>5 DEF InOrder, OneMove, MoveTypes
  <2>2. queue[g][i].type # "move_in"
    BY <1>1, <1>5 DEF InOrder, OneMove
  <2>3. queue[g][i].type \notin TalkTypes
    <3>1. ~Queued(g, TalkTypes)
      BY <1>3 DEF InOrder, TalkAside
    <3> QED BY <3>1, EntryFacts
  <2> QED BY <2>1, <2>2, <2>3, EntryFacts DEF MoveTypes
<1>6. \A g \in Hosts \ {h} : DOMAIN queue[g] = {} /\ work[g].at = "idle"
  <2> TAKE g \in Hosts \ {h}
  <2>1. DOMAIN queue[g] = {}
    BY <1>5
  <2>2. queue[g] = <<>>
    BY <2>1, EntryFacts
  <2> QED BY <2>1, <2>2 DEF IndInv, HeadInProgress
<1>7. Queued(h, MoveTypes)
  BY <1>1, EntryFacts DEF MoveTypes
<1>8. requests = {}
  BY <1>7 DEF InOrder, OneMove
<1>9. \A g \in Hosts : waking[g] = 0
  <2> TAKE g \in Hosts
  <2>1. ~Settled
    BY <1>7 DEF Settled, MoveTypes
  <2>2. waking[g] \in Nat /\ ~(waking[g] > 0)
    BY <2>1 DEF InOrder, TalkAside, TypeOK
  <2> QED BY <2>2
<1>10. \A g \in Hosts : ~Committing(g)
  <2>1. ~Committing(h)
    BY <1>1 DEF Committing, IndInv, HeadInProgress, InSteps
  <2> QED BY <1>6, <2>1 DEF Committing
<1> QED BY <1>1, <1>3, <1>4, <1>6, <1>8, <1>9, <1>10 DEF InOrder, WithOwner

\* The target of a move that is not over: beside it waits at most its source's, done.
LEMMA InAlone ==
  ASSUME TypeOK, IndInv, InOrder, NEW h \in Hosts, queue[h] # <<>>, Arriving(h, 1)
  PROVE  /\ 1 \in DOMAIN queue[h] /\ queue[h][1] = Head(queue[h])
         /\ \A g \in Hosts : \A i \in DOMAIN queue[g] : ~(g = h /\ i = 1) =>
              queue[g][i].type = "move_out" /\ Stage(g, i) \in {"idle", "ack"}
         /\ \A g \in Hosts \ {h} : work[g].at \in {"idle", "ack"}
         /\ requests = {} /\ \A g \in Hosts : waking[g] = 0 /\ ~Queued(g, TalkTypes)
         /\ doc.host = Head(queue[h]).from /\ doc.host # h /\ doc.host \in Hosts
         /\ doc.phase \in {"importing", "failed"}
         /\ \A g \in Hosts \ {h} : ~Committing(g)
<1> DEFINE c == Head(queue[h])
<1>1. 1 \in DOMAIN queue[h] /\ queue[h][1] = c /\ c.type = "move_in"
  BY EntryFacts DEF Arriving
<1>2. doc.host = c.from /\ doc.phase \in {"importing", "failed"}
  BY <1>1 DEF InOrder, InUnderWay
<1>3. \A g \in Hosts : ~Queued(g, TalkTypes)
  BY <1>1 DEF InOrder, TalkAside
<1>4. ASSUME NEW g \in Hosts, NEW i \in DOMAIN queue[g], ~(g = h /\ i = 1)
      PROVE  queue[g][i].type = "move_out" /\ Stage(g, i) \notin OutSteps
  <2>1. queue[g][i].type \notin TalkTypes
    BY <1>3, EntryFacts
  <2>2. queue[g][i].type # "move_in"
    BY <1>1, <1>4 DEF InOrder, OneMove, MoveTypes
  <2>3. queue[g][i].type = "move_out" => ~Leaving(g, i)
    BY <1>1, <1>4 DEF InOrder, OneMove
  <2> QED BY <2>1, <2>2, <2>3, EntryFacts DEF MoveTypes, Leaving
<1>5. ASSUME NEW g \in Hosts, work[g].at \notin {"idle", "ack"}, g # h PROVE FALSE
  <2>1. queue[g] # <<>> /\ 1 \in DOMAIN queue[g] /\ queue[g][1] = Head(queue[g])
    BY <1>5, EntryFacts DEF IndInv, HeadInProgress
  <2>2. Head(queue[g]).type = "move_out" /\ work[g].at \notin OutSteps
    BY <1>4, <1>5, <2>1 DEF Stage
  <2>3. work[g].at \in Steps
    BY DEF TypeOK, Works
  <2> QED BY <1>5, <2>2, <2>3, HeadFacts, <2>1 DEF Steps
<1>6. \A g \in Hosts : \A i \in DOMAIN queue[g] : ~(g = h /\ i = 1) =>
        queue[g][i].type = "move_out" /\ Stage(g, i) \in {"idle", "ack"}
  BY <1>4, <1>5 DEF Stage
<1>7. Queued(h, MoveTypes)
  BY <1>1, EntryFacts DEF MoveTypes
<1>8. requests = {}
  BY <1>7 DEF InOrder, OneMove
<1>9. \A g \in Hosts : waking[g] = 0
  <2> TAKE g \in Hosts
  <2>1. ~Settled
    BY <1>7 DEF Settled, MoveTypes
  <2>2. waking[g] \in Nat /\ ~(waking[g] > 0)
    BY <2>1 DEF InOrder, TalkAside, TypeOK
  <2> QED BY <2>2
<1>10. c \in Waiting(h) /\ c.from # h
  BY <1>1, EntryFacts DEF IndInv, Addressed
<1>11. doc.host \in Hosts
  BY DEF TypeOK, Docs
<1> QED BY <1>1, <1>2, <1>3, <1>5, <1>6, <1>8, <1>9, <1>10, <1>11 DEF Committing

\* A parcel that is there is the one the source has just stored.
LEMMA OutParcels ==
  ASSUME TypeOK, IndInv, InOrder, NEW h \in Hosts, queue[h] # <<>>, Leaving(h, 1),
         NothingLost, NEW t \in Tids, parcel[t] # "none"
  PROVE  Carries(h, t)
<1>1. PICK g \in Hosts : \/ Carries(g, t)
                         \/ \E i \in DOMAIN queue[g] : Arriving(g, i) \/ Stage(g, i) = "in_clean"
  BY DEF InOrder, NothingLeft, Carried
<1>2. /\ DOMAIN queue[h] = {1} /\ queue[h][1].type = "move_out"
      /\ \A k \in Hosts \ {h} : DOMAIN queue[k] = {} /\ work[k].at = "idle"
  BY OutAlone DEF Leaving
<1>3. g = h
  BY <1>1, <1>2 DEF Carries
<1>4. \A i \in DOMAIN queue[h] : ~Arriving(h, i)
  BY <1>2 DEF Arriving
<1>5. work[h].at # "in_clean"
  <2>1. Head(queue[h]).type = "move_out"
    BY <1>2, EntryFacts
  <2> QED BY <2>1, HeadFacts DEF InSteps
<1> QED BY <1>1, <1>2, <1>3, <1>4, <1>5 DEF Stage

\* A step of the source of a move.
LEMMA OutStep ==
  ASSUME TypeOK, IndInv, InOrder, NEW h \in Hosts, queue[h] # <<>>, Leaving(h, 1),
         UNCHANGED <<queue, requests, waking, file>>,
         \A g \in Hosts \ {h} : work'[g] = work[g] /\ pane'[g] = pane[g],
         NEW step \in OutSteps \cup {"ack"}, work'[h].at = step,
         doc'.host = doc.host,
         IF step = "ack" THEN doc'.phase = "failed"
         ELSE /\ doc'.target = doc.target
              /\ IF step \in {"out_publish", "out_rollback"}
                   THEN doc'.phase \in {"exporting", "importing"} ELSE doc'.phase = "exporting"
              /\ step # "out_git" => pane'[h] # "agent"
              /\ step \in {"out_handover", "out_publish"} => parcel'[work'[h].tid] = "full"
              /\ step = "out_publish" => doc'.phase = "importing" /\ doc'.tid = work'[h].tid,
         NothingLost' => /\ step = "out_rollback" => doc'.phase = "exporting"
                         /\ \A t \in Tids : parcel'[t] # "none" => Carries(h, t)'
  PROVE  InOrder'
<1> DEFINE c == Head(queue[h])
<1>1. /\ DOMAIN queue[h] = {1} /\ queue[h][1] = c /\ Len(queue[h]) = 1
      /\ \A g \in Hosts \ {h} : DOMAIN queue[g] = {} /\ work[g].at = "idle"
      /\ requests = {} /\ \A g \in Hosts : waking[g] = 0
      /\ doc.host = h /\ doc.target = c.to
      /\ file[h] = "full" /\ \A g \in Hosts \ {h} : pane[g] # "agent"
  BY OutAlone
<1>2. \A g \in Hosts : \A i \in DOMAIN queue'[g] : g = h /\ i = 1
  BY <1>1
<1>3. 1 \in DOMAIN queue'[h] /\ queue'[h][1] = c /\ c.type = "move_out" /\ Stage(h, 1)' = step
  BY <1>1 DEF Stage, Leaving
<1>4. OneMove'
  <2>1. requests' = {}
    BY <1>1
  <2> QED BY <1>2, <1>3, <2>1 DEF OneMove
<1>5. TalkAside'
  <2>1. \A g \in Hosts : ~Queued(g, TalkTypes)' /\ ~Queued(g, {"input"})'
    BY <1>1, <1>3 DEF Queued, Waiting, TalkTypes
  <2>2. \A g \in Hosts : ~(waking'[g] > 0)
    BY <1>1
  <2>3. Len(queue'[h]) = 1
    BY <1>1
  <2> QED BY <1>2, <1>3, <2>1, <2>2, <2>3 DEF TalkAside, Arriving
<1>6. step # "ack" /\ step # "out_git" => NoAgent'
  BY <1>1 DEF NoAgent
<1>7. OutUnderWay'
  <2>1. step = "ack" => ~Leaving(h, 1)'
    BY <1>3 DEF Leaving, OutSteps
  <2> QED BY <1>1, <1>2, <1>3, <1>6, <2>1 DEF OutUnderWay
<1>8. InUnderWay'
  BY <1>2, <1>3 DEF InUnderWay, Arriving
<1>9. WithOwner'
  BY <1>1 DEF WithOwner, InOrder
<1>10. NothingLeft'
  <2> SUFFICES ASSUME NothingLost' PROVE NothingLeft'
    BY DEF NothingLeft
  <2>1. doc'.phase = "exporting" => Leaving(h, 1)' /\ Stage(h, 1)' # "ack"
    BY <1>3 DEF Leaving, OutSteps
  <2>2. doc'.phase = "importing" => work'[h].at = "out_publish"
    OBVIOUS
  <2>3. \A t \in Tids : parcel'[t] # "none" => Carried(t)'
    BY DEF Carried
  <2> QED BY <1>3, <2>1, <2>2, <2>3 DEF NothingLeft
<1> QED BY <1>4, <1>5, <1>7, <1>8, <1>9, <1>10 DEF InOrder

\* A step of the target of a move that has not been taken over or given back.
LEMMA InStep ==
  ASSUME TypeOK, IndInv, InOrder, NEW h \in Hosts, queue[h] # <<>>, Arriving(h, 1),
         UNCHANGED <<queue, requests, waking>>, NothingLost' => NothingLost,
         \A g \in Hosts \ {h} : work'[g] = work[g] /\ pane'[g] = pane[g],
         \A g \in Hosts \ {h} : file'[g] = file[g],
         NEW step \in InSteps, work'[h].at = step,
         IF step = "in_clean" THEN doc'.host = h /\ doc'.phase = "none"
         ELSE /\ doc'.host = doc.host
              /\ IF step = "in_giveback" THEN doc'.phase = "failed"
                 ELSE doc'.phase = "importing" /\ doc'.tid = Head(queue[h]).tid
              /\ step # "in_commit" => pane'[h] # "agent"
              /\ step \notin {"in_commit", "in_giveback"} => parcel'[Head(queue[h]).tid] = "full",
         work[h].at = "in_commit" => step = "in_clean",
         step \in {"in_commit", "in_clean"} => file'[h] = "full",
         \A t \in Tids : parcel'[t] # "none" => parcel[t] # "none"
  PROVE  InOrder'
<1> DEFINE c == Head(queue[h])
<1>1. /\ 1 \in DOMAIN queue[h] /\ queue[h][1] = c
      /\ \A g \in Hosts : \A i \in DOMAIN queue[g] : ~(g = h /\ i = 1) =>
           queue[g][i].type = "move_out" /\ Stage(g, i) \in {"idle", "ack"}
      /\ \A g \in Hosts \ {h} : work[g].at \in {"idle", "ack"}
      /\ requests = {} /\ \A g \in Hosts : waking[g] = 0 /\ ~Queued(g, TalkTypes)
      /\ doc.host = c.from /\ doc.host # h /\ doc.host \in Hosts
  BY InAlone
<1>2. /\ Stage(h, 1) = work[h].at /\ Stage(h, 1)' = step
      /\ queue'[h][1] = c /\ 1 \in DOMAIN queue'[h] /\ c.type = "move_in"
  BY <1>1 DEF Stage, Arriving
<1>3. \A g \in Hosts : \A i \in DOMAIN queue'[g] : ~(g = h /\ i = 1) =>
        /\ queue'[g][i].type = "move_out" /\ Stage(g, i)' \in {"idle", "ack"}
        /\ ~Leaving(g, i)' /\ ~Arriving(g, i)'
  <2>1. doc'.phase # "exporting"
    OBVIOUS
  <2> SUFFICES ASSUME NEW g \in Hosts, NEW i \in DOMAIN queue[g], ~(g = h /\ i = 1)
               PROVE  /\ queue'[g][i].type = "move_out" /\ Stage(g, i)' \in {"idle", "ack"}
                      /\ ~Leaving(g, i)' /\ ~Arriving(g, i)'
    OBVIOUS
  <2>2. queue[g][i].type = "move_out" /\ Stage(g, i) \in {"idle", "ack"}
    BY <1>1
  <2>3. Stage(g, i)' \in {"idle", "ack"}
    BY <1>1, <2>2 DEF Stage
  <2> QED BY <2>1, <2>2, <2>3 DEF Leaving, Arriving, OutSteps
<1>4. ~Leaving(h, 1)'
  BY <1>2 DEF Leaving
<1>5. OneMove'
  <2>1. requests' = {}
    BY <1>1
  <2>2. \A g, k \in Hosts : \A i \in DOMAIN queue'[g], j \in DOMAIN queue'[k] :
          queue'[g][i].type = queue'[k][j].type /\ queue'[g][i].type \in MoveTypes => g = k /\ i = j
    BY DEF InOrder, OneMove
  <2>3. \A g \in Hosts : \A i \in DOMAIN queue'[g] : ~Leaving(g, i)'
    BY <1>3, <1>4
  <2> QED BY <2>1, <2>2, <2>3 DEF OneMove
<1>6. TalkAside'
  <2>1. \A g \in Hosts : ~Queued(g, TalkTypes)'
    BY <1>1 DEF Queued, Waiting
  <2>2. \A g \in Hosts : ~Queued(g, {"input"})'
    BY <2>1 DEF Queued, TalkTypes
  <2>3. \A g \in Hosts : ~(waking'[g] > 0)
    BY <1>1
  <2> QED BY <1>3, <1>4, <2>1, <2>2, <2>3 DEF TalkAside
<1>7. OutUnderWay'
  BY <1>3, <1>4 DEF OutUnderWay
<1>8. \A g \in Hosts \ {h} : pane[g] # "agent"
  <2>1. work[h].at = "in_commit" => \A g \in Hosts \ {h} : pane[g] # "agent"
    BY <1>1, <1>2 DEF InOrder, InUnderWay
  <2>2. work[h].at # "in_commit" => NoAgent
    BY <1>1, <1>2 DEF InOrder, InUnderWay
  <2> QED BY <2>1, <2>2 DEF NoAgent
<1>9. InUnderWay'
  <2>1. step \notin {"in_clean", "in_commit"} => NoAgent'
    BY <1>8 DEF NoAgent
  <2>2. \A g \in Hosts : \A i \in DOMAIN queue'[g] : Arriving(g, i)' => g = h /\ i = 1
    BY <1>3
  <2>3. CASE step = "in_clean"
    <3>1. ~Arriving(h, 1)'
      BY <1>2, <2>3 DEF Arriving
    <3> QED BY <2>2, <3>1 DEF InUnderWay
  <2>4. CASE step # "in_clean"
    <3>1. doc'.host = c.from
      BY <1>1, <2>4
    <3> QED BY <1>2, <1>8, <2>1, <2>2, <2>4, <3>1 DEF InUnderWay
  <2> QED BY <2>3, <2>4
<1>11. WithOwner'
  <2>1. \A g \in Hosts : pane'[g] = "agent" => doc'.host = g \/ Committing(g)'
    BY <1>8 DEF Committing
  <2>2. step # "in_commit" => file'[doc'.host] = "full"
    <3>1. step # "in_clean" => file[doc.host] = "full"
      BY <1>1 DEF InOrder, WithOwner, Committing
    <3> QED BY <1>1, <3>1
  <2> QED BY <2>1, <2>2 DEF WithOwner, Committing
<1>12. NothingLeft'
  <2> SUFFICES ASSUME NothingLost' PROVE NothingLeft'
    BY DEF NothingLeft
  <2>1. step # "in_clean" => Arriving(h, 1)' /\ Stage(h, 1)' # "ack"
    BY <1>2 DEF Arriving, InSteps
  <2>2. ASSUME NEW t \in Tids, parcel'[t] # "none" PROVE Carried(t)'
    <3>1. PICK g \in Hosts : \/ Carries(g, t)
                             \/ \E i \in DOMAIN queue[g] :
                                  /\ queue[g][i].tid = t
                                  /\ Arriving(g, i) \/ Stage(g, i) = "in_clean"
      BY <2>2 DEF InOrder, NothingLeft, Carried
    <3>2. ~Carries(g, t)
      <4>1. ~Carries(h, t)
        BY <1>1, <1>2 DEF Carries, IndInv, HeadInProgress, OutSteps
      <4> QED BY <1>1, <4>1 DEF Carries
    <3>3. c.tid = t
      BY <1>1, <3>1, <3>2 DEF Arriving
    <3>4. Stage(h, 1)' # "ack" /\ (Arriving(h, 1)' \/ Stage(h, 1)' = "in_clean")
      BY <1>2, <2>1 DEF InSteps
    <3> QED BY <1>2, <3>3, <3>4 DEF Carried
  <2> QED BY <1>2, <2>1, <2>2 DEF NothingLeft
<1> QED BY <1>5, <1>6, <1>7, <1>9, <1>11, <1>12 DEF InOrder

\* A worker that talks to the session: whatever moves waits behind, or is over.
LEMMA TalkAlone ==
  ASSUME TypeOK, IndInv, InOrder, NEW h \in Hosts, queue[h] # <<>>,
         Head(queue[h]).type \in TalkTypes
  PROVE  /\ doc.host = h /\ file[h] = "full" /\ work[h].at \in {"idle", "ack"}
         /\ \A g \in Hosts : ~Committing(g) /\ work[g].at \notin OutSteps
         /\ \A g \in Hosts : \A i \in DOMAIN queue[g] :
              /\ ~Arriving(g, i)
              /\ Leaving(g, i) => g = h /\ Stage(g, i) = "idle"
<1>1. 1 \in DOMAIN queue[h] /\ queue[h][1] = Head(queue[h])
  BY EntryFacts
<1>2. Queued(h, TalkTypes)
  BY <1>1, EntryFacts
<1>3. doc.host = h
  BY <1>2 DEF InOrder, TalkAside
<1>4. \A g \in Hosts : \A i \in DOMAIN queue[g] : ~Arriving(g, i)
  BY <1>2 DEF InOrder, TalkAside
<1>5. work[h].at \in {"idle", "ack"}
  <2>1. work[h].at \in Steps
    BY DEF TypeOK, Works
  <2> QED BY <2>1 DEF IndInv, HeadInProgress, Steps, TalkTypes
<1>6. \A g \in Hosts : \A i \in DOMAIN queue[g] :
        Leaving(g, i) => g = h /\ Stage(g, i) = "idle"
  <2> SUFFICES ASSUME NEW g \in Hosts, NEW i \in DOMAIN queue[g], Leaving(g, i)
               PROVE  g = h /\ Stage(g, i) = "idle"
    OBVIOUS
  <2>1. g = h
    BY <1>3 DEF InOrder, OutUnderWay
  <2>2. i # 1
    BY <1>1, <2>1 DEF TalkTypes, Leaving
  <2> QED BY <2>1, <2>2 DEF Stage
<1>7. ASSUME NEW g \in Hosts PROVE ~Committing(g) /\ work[g].at \notin OutSteps
  <2>1. ASSUME queue[g] # <<>> PROVE 1 \in DOMAIN queue[g] /\ queue[g][1] = Head(queue[g])
    BY <2>1, EntryFacts
  <2>2. Stage(g, 1) = work[g].at
    BY DEF Stage
  <2>3. ~Committing(g)
    <3>1. SUFFICES ASSUME work[g].at = "in_commit" PROVE FALSE
      BY DEF Committing
    <3>2. queue[g] # <<>> /\ Head(queue[g]).type = "move_in"
      BY <3>1 DEF IndInv, HeadInProgress, InSteps
    <3>3. Arriving(g, 1)
      BY <2>1, <2>2, <3>1, <3>2 DEF Arriving, InSteps
    <3> QED BY <1>4, <2>1, <3>2, <3>3
  <2>4. work[g].at \notin OutSteps
    <3>1. SUFFICES ASSUME work[g].at \in OutSteps PROVE FALSE
      OBVIOUS
    <3>2. queue[g] # <<>> /\ Head(queue[g]).type = "move_out" /\ work[g].at # "idle"
      BY <3>1 DEF IndInv, HeadInProgress, OutSteps
    <3>3. Leaving(g, 1)
      BY <2>1, <2>2, <3>1, <3>2 DEF Leaving
    <3> QED BY <1>6, <2>1, <2>2, <3>2, <3>3
  <2> QED BY <2>3, <2>4
<1>8. file[h] = "full"
  BY <1>3, <1>7 DEF InOrder, WithOwner
<1> QED BY <1>3, <1>4, <1>5, <1>6, <1>7, <1>8

\* A step that moves no move on: queues and phases stay, and what changes is with
\* the owner.
Aside ==
  /\ UNCHANGED <<queue, requests>>
  /\ doc'.host = doc.host /\ doc'.target = doc.target
  /\ doc'.phase = doc.phase /\ doc'.tid = doc.tid
  /\ \A g \in Hosts : waking'[g] > 0 => waking[g] > 0 \/ Queued(g, {"input"})
  /\ \A t \in Tids : parcel'[t] # "none" => parcel[t] # "none"
  /\ NothingLost' => NothingLost

\* A step of a worker that talks to the session.
LEMMA TalkStep ==
  ASSUME TypeOK, IndInv, InOrder, NEW h \in Hosts, queue[h] # <<>>,
         Head(queue[h]).type \in TalkTypes, Aside,
         \A g \in Hosts \ {h} : work'[g] = work[g] /\ pane'[g] = pane[g],
         work'[h].at = "ack", file'[h] = "full"
  PROVE  InOrder'
<1>1. /\ doc.host = h /\ work[h].at \in {"idle", "ack"}
      /\ \A g \in Hosts : ~Committing(g) /\ work[g].at \notin OutSteps
      /\ \A g \in Hosts : \A i \in DOMAIN queue[g] :
           ~Arriving(g, i) /\ (Leaving(g, i) => g = h /\ Stage(g, i) = "idle")
  BY TalkAlone
<1>2. 1 \in DOMAIN queue[h] /\ queue[h][1].type \notin MoveTypes
  BY EntryFacts DEF TalkTypes, MoveTypes
<1>3. \A g \in Hosts : \A i \in DOMAIN queue[g] :
        queue[g][i].type \in MoveTypes => Stage(g, i)' = Stage(g, i)
  BY <1>2 DEF Stage
<1>4. \A g \in Hosts : \A i \in DOMAIN queue[g] :
        (Leaving(g, i)' <=> Leaving(g, i)) /\ (Arriving(g, i)' <=> Arriving(g, i))
  BY <1>3 DEF Leaving, Arriving, Aside, MoveTypes
<1>5. OneMove'
  BY <1>4 DEF InOrder, OneMove, Aside, Queued, Waiting
<1>6. TalkAside'
  <2>1. \A types : \A g \in Hosts : Queued(g, types)' <=> Queued(g, types)
    BY DEF Aside, Queued, Waiting
  <2>2. Settled' <=> Settled
    BY <2>1 DEF Settled, Aside
  <2>3. \A g \in Hosts : Queued(g, {"input"}) \/ waking'[g] > 0 => Settled /\ g = doc.host
    BY DEF InOrder, TalkAside, Aside
  <2>4. \A g \in Hosts : \A i \in DOMAIN queue[g] : Leaving(g, i)' => i = Len(queue[g])
    BY <1>4 DEF InOrder, TalkAside
  <2> QED BY <1>1, <1>4, <2>1, <2>2, <2>3, <2>4 DEF InOrder, TalkAside, Aside
<1>7. OutUnderWay'
  <2> SUFFICES ASSUME NEW g \in Hosts, NEW i \in DOMAIN queue[g], Leaving(g, i)'
               PROVE  /\ doc.host = g /\ doc.target = queue[g][i].to /\ doc.phase = "exporting"
                      /\ Stage(g, i)' = "idle"
    BY DEF OutUnderWay, Aside, OutSteps
  <2>1. Leaving(g, i) /\ g = h /\ Stage(g, i) = "idle"
    BY <1>1, <1>4
  <2>2. Stage(g, i)' = "idle"
    BY <1>3, <2>1 DEF Leaving, MoveTypes
  <2> QED BY <2>1, <2>2 DEF InOrder, OutUnderWay
<1>8. InUnderWay'
  BY <1>1, <1>4 DEF InUnderWay, Aside
<1>9. WithOwner'
  BY <1>1 DEF InOrder, WithOwner, Aside, Committing
<1>10. NothingLeft'
  <2> SUFFICES ASSUME NothingLost' PROVE NothingLeft'
    BY DEF NothingLeft
  <2>1. NothingLost /\ NothingLeft
    BY DEF Aside, InOrder
  <2>2. doc'.phase = "exporting" =>
          \E g \in Hosts : \E i \in DOMAIN queue[g] : Leaving(g, i)' /\ Stage(g, i)' # "ack"
    <3>1. ASSUME NEW g \in Hosts, NEW i \in DOMAIN queue[g], Leaving(g, i)
          PROVE  Leaving(g, i)' /\ Stage(g, i)' = "idle"
      BY <1>1, <1>3, <1>4, <3>1 DEF Leaving, MoveTypes
    <3> QED BY <2>1, <3>1 DEF NothingLeft, Aside
  <2>3. doc'.phase # "importing"
    BY <1>1, <2>1 DEF NothingLeft, Aside, OutSteps
  <2>4. ASSUME NEW t \in Tids, parcel'[t] # "none" PROVE Carried(t)'
    <3>1. PICK g \in Hosts : \/ Carries(g, t)
                             \/ \E i \in DOMAIN queue[g] :
                                  /\ queue[g][i].tid = t /\ Stage(g, i) # "ack"
                                  /\ Arriving(g, i) \/ Stage(g, i) = "in_clean"
      BY <2>1, <2>4 DEF NothingLeft, Carried, Aside
    <3>2. ~Carries(g, t)
      BY <1>1 DEF Carries, OutSteps
    <3>3. PICK i \in DOMAIN queue[g] : queue[g][i].tid = t /\ Stage(g, i) = "in_clean"
      BY <1>1, <3>1, <3>2
    <3>4. g # h /\ Stage(g, i)' = Stage(g, i)
      BY <1>1, <3>3 DEF Stage
    <3>5. i \in DOMAIN queue'[g] /\ queue'[g][i] = queue[g][i]
      BY DEF Aside
    <3> QED BY <3>3, <3>4, <3>5 DEF Carried
  <2> QED BY <2>2, <2>3, <2>4 DEF NothingLeft, Aside
<1> QED BY <1>5, <1>6, <1>7, <1>8, <1>9, <1>10 DEF InOrder

\* While no move is queued none is under way.
LEMMA QuietFacts ==
  ASSUME TypeOK, IndInv, \A g \in Hosts : ~Queued(g, MoveTypes)
  PROVE  /\ \A g \in Hosts : \A i \in DOMAIN queue[g] : queue[g][i].type \in TalkTypes
         /\ \A g \in Hosts : ~Committing(g) /\ work[g].at \in {"idle", "ack"}
         /\ \A t \in Tids : ~Carried(t)
<1>1. \A g \in Hosts : \A i \in DOMAIN queue[g] : queue[g][i].type \in TalkTypes
  BY EntryFacts
<1>2. ASSUME NEW g \in Hosts PROVE work[g].at \in {"idle", "ack"}
  <2>1. work[g].at \in Steps
    BY DEF TypeOK, Works
  <2>2. queue[g] # <<>> => Head(queue[g]).type \in TalkTypes
    BY <1>1, EntryFacts
  <2>3. work[g].at # "idle" => queue[g] # <<>>
    BY DEF IndInv, HeadInProgress
  <2>4. work[g].at \notin OutSteps \cup InSteps
    BY <2>2, <2>3 DEF IndInv, HeadInProgress, TalkTypes, OutSteps, InSteps
  <2> QED BY <2>1, <2>4 DEF Steps
<1>3. \A t \in Tids : ~Carried(t)
  BY <1>1, <1>2 DEF Carried, Carries, Arriving, Stage, TalkTypes
<1> QED BY <1>1, <1>2, <1>3 DEF Committing

LEMMA SettledIsQuiet == Settled => requests = {} /\ \A g \in Hosts : ~Queued(g, MoveTypes)
BY DEF Settled, MoveTypes

\* A step of no consumer: it relaunches the agent only while no move is under way,
\* and what an agent writes, it writes where the whole conversation is.
LEMMA AsideStep ==
  ASSUME TypeOK, IndInv, InOrder, Aside, work' = work,
         \A g \in Hosts : pane'[g] = pane[g] \/ (Settled /\ g = doc.host),
         \A g \in Hosts : file[g] = "full" /\ (Committing(g) \/ (g = doc.host /\ \A k \in Hosts : ~Committing(k)))
           => file'[g] = "full",
         NoAgent /\ ~Settled => parcel' = parcel
  PROVE  InOrder'
<1>1. \A g, i : Stage(g, i)' = Stage(g, i)
  BY DEF Stage
<1>2. \A g, i : (Leaving(g, i)' <=> Leaving(g, i)) /\ (Arriving(g, i)' <=> Arriving(g, i))
  BY <1>1 DEF Leaving, Arriving, Aside
<1>3. OneMove'
  BY <1>2 DEF InOrder, OneMove, Aside, Queued, Waiting
<1>4. \A types : \A g \in Hosts : Queued(g, types)' <=> Queued(g, types)
  BY DEF Aside, Queued, Waiting
<1>5. Settled' <=> Settled
  BY <1>4 DEF Settled, Aside
<1>6. \A g \in Hosts : Queued(g, {"input"}) \/ waking'[g] > 0 => Settled /\ g = doc.host
  BY DEF InOrder, TalkAside, Aside
<1>7. TalkAside'
  BY <1>2, <1>4, <1>5, <1>6 DEF InOrder, TalkAside, Aside
<1>8. ASSUME Settled PROVE OutUnderWay' /\ InUnderWay'
  <2>1. \A g \in Hosts : \A i \in DOMAIN queue[g] : ~Leaving(g, i) /\ ~Arriving(g, i)
    BY <1>8, QuietFacts, SettledIsQuiet DEF Leaving, Arriving, TalkTypes
  <2>2. OutUnderWay' /\ InUnderWay'
    BY <1>2, <2>1 DEF OutUnderWay, InUnderWay, Aside
  <2> QED BY <2>2
<1>9. ASSUME ~Settled PROVE OutUnderWay' /\ InUnderWay'
  <2>1. NoAgent' <=> NoAgent
    BY <1>9 DEF NoAgent
  <2>2. NoAgent => parcel' = parcel
    BY <1>9
  <2>3. OutUnderWay'
    <3> SUFFICES ASSUME NEW h \in Hosts, NEW i \in DOMAIN queue[h], Leaving(h, i)
                 PROVE  LET step == Stage(h, i) IN
                        /\ doc'.host = h /\ doc'.target = queue[h][i].to
                        /\ IF step \in {"out_publish", "out_rollback"}
                             THEN doc'.phase \in {"exporting", "importing"}
                             ELSE doc'.phase = "exporting"
                        /\ step \in OutSteps \ {"out_git"} => NoAgent
                        /\ step \in {"out_handover", "out_publish"} => parcel'[work[h].tid] = "full"
                        /\ step = "out_publish" => doc'.phase = "importing" /\ doc'.tid = work[h].tid
      BY <1>1, <1>2, <2>1 DEF OutUnderWay, Aside
    <3>1. LET step == Stage(h, i) IN
          /\ doc.host = h /\ doc.target = queue[h][i].to
          /\ IF step \in {"out_publish", "out_rollback"}
               THEN doc.phase \in {"exporting", "importing"} ELSE doc.phase = "exporting"
          /\ step \in OutSteps \ {"out_git"} => NoAgent
          /\ step \in {"out_handover", "out_publish"} => parcel[work[h].tid] = "full"
          /\ step = "out_publish" => doc.phase = "importing" /\ doc.tid = work[h].tid
      BY DEF InOrder, OutUnderWay
    <3>2. Stage(h, i) \in {"out_handover", "out_publish"} => NoAgent
      BY <3>1 DEF OutSteps
    <3> QED BY <2>2, <3>1, <3>2 DEF Aside
  <2>4. InUnderWay'
    <3> SUFFICES ASSUME NEW h \in Hosts, NEW i \in DOMAIN queue[h], Arriving(h, i)
                 PROVE  LET c == queue[h][i]  step == Stage(h, i) IN
                        /\ doc'.host = c.from /\ step # "in_clean"
                        /\ IF step = "in_giveback" THEN doc'.phase = "failed"
                           ELSE doc'.phase = "importing" /\ doc'.tid = c.tid
                        /\ IF step = "in_commit"
                             THEN file'[h] = "full" /\ \A g \in Hosts \ {h} : pane'[g] # "agent"
                             ELSE NoAgent
                        /\ step \notin {"in_commit", "in_giveback"} => parcel'[c.tid] = "full"
      BY <1>1, <1>2, <2>1 DEF InUnderWay, Aside
    <3>1. LET c == queue[h][i]  step == Stage(h, i) IN
          /\ doc.host = c.from /\ step # "in_clean"
          /\ IF step = "in_giveback" THEN doc.phase = "failed"
             ELSE doc.phase = "importing" /\ doc.tid = c.tid
          /\ IF step = "in_commit"
               THEN file[h] = "full" /\ \A g \in Hosts \ {h} : pane[g] # "agent"
               ELSE NoAgent
          /\ step \notin {"in_commit", "in_giveback"} => parcel[c.tid] = "full"
      BY DEF InOrder, InUnderWay
    <3>2. Stage(h, i) \notin {"in_commit", "in_giveback"} => parcel'[queue[h][i].tid] = "full"
      BY <2>2, <3>1
    <3>3. Stage(h, i) = "in_commit" => Committing(h)
      BY DEF Stage, Committing
    <3>4. Stage(h, i) = "in_commit" => file'[h] = "full" /\ \A g \in Hosts \ {h} : pane'[g] # "agent"
      BY <1>9, <3>1, <3>3
    <3> QED BY <3>1, <3>2, <3>4 DEF Aside
  <2> QED BY <2>3, <2>4
<1>10. WithOwner'
  <2>1. doc.host \in Hosts
    BY DEF TypeOK, Docs
  <2>2. \A g \in Hosts : Committing(g)' <=> Committing(g)
    BY DEF Committing
  <2>3. \A g \in Hosts : pane'[g] = "agent" => doc'.host = g \/ Committing(g)'
    BY <2>2 DEF InOrder, WithOwner, Aside
  <2>4. file'[doc'.host] = "full" \/ \E h \in Hosts : Committing(h)'
    BY <2>1, <2>2 DEF InOrder, WithOwner, Aside
  <2> QED BY <2>3, <2>4 DEF WithOwner
<1>11. NothingLeft'
  <2>1. \A t \in Tids : Carried(t) => Carried(t)'
    BY <1>1, <1>2 DEF Carried, Carries, Aside
  <2> QED BY <1>1, <1>2, <2>1 DEF InOrder, NothingLeft, Aside
<1> QED BY <1>3, <1>7, <1>8, <1>9, <1>10, <1>11 DEF InOrder

\* A command that no longer moves the session, or that expired, is done with.
LEMMA DropKeepsOrder ==
  ASSUME TypeOK, IndInv, InOrder, NEW h \in Hosts, queue[h] # <<>>, work[h].at = "idle",
         Goto(h, "ack"), UNCHANGED <<doc, pane, parcel, file, waking, queue, requests>>,
         NothingLost' => NothingLost /\ ~Leaving(h, 1) /\ ~Arriving(h, 1)
  PROVE  InOrder'
<1>1. work'[h].at = "ack" /\ \A g \in Hosts : g # h => work'[g] = work[g]
  BY GotoFacts DEF TypeOK, Steps
<1>2. \A g \in Hosts : \A i \in DOMAIN queue[g] :
        \/ g = h /\ i = 1 /\ Stage(g, i) = "idle" /\ Stage(g, i)' = "ack"
        \/ /\ ~(g = h /\ i = 1) /\ Stage(g, i)' = Stage(g, i)
           /\ Stage(g, i) # "idle" => work'[g] = work[g]
  BY <1>1 DEF Stage
<1>3. \A g \in Hosts : \A i \in DOMAIN queue[g] :
        (Leaving(g, i)' <=> Leaving(g, i)) /\ (Arriving(g, i)' <=> Arriving(g, i))
  BY <1>2 DEF Leaving, Arriving, OutSteps, InSteps
<1>4. OneMove'
  BY <1>3 DEF InOrder, OneMove, Queued, Waiting
<1>5. TalkAside'
  <2>1. \A types : \A g \in Hosts : Queued(g, types)' <=> Queued(g, types)
    BY DEF Queued, Waiting
  <2>2. Settled' <=> Settled
    BY <2>1 DEF Settled
  <2> QED BY <1>3, <2>1, <2>2 DEF InOrder, TalkAside
<1>6. NoAgent' <=> NoAgent
  BY DEF NoAgent
<1>7. OutUnderWay'
  BY <1>2, <1>3, <1>6 DEF InOrder, OutUnderWay, OutSteps
<1>8. InUnderWay'
  BY <1>2, <1>3, <1>6 DEF InOrder, InUnderWay
<1>9. \A g \in Hosts : Committing(g)' <=> Committing(g)
  BY <1>1 DEF Committing
<1>10. WithOwner'
  BY <1>9 DEF InOrder, WithOwner
<1>11. NothingLeft'
  <2> SUFFICES ASSUME NothingLost' PROVE NothingLeft'
    BY DEF NothingLeft
  <2>1. /\ doc.phase = "exporting" =>
             \E g \in Hosts : \E i \in DOMAIN queue[g] : Leaving(g, i) /\ Stage(g, i) # "ack"
        /\ doc.phase = "importing" =>
             \E g \in Hosts :
               \/ work[g].at = "out_publish"
               \/ \E i \in DOMAIN queue[g] : Arriving(g, i) /\ Stage(g, i) # "ack"
        /\ \A t \in Tids : parcel[t] # "none" => Carried(t)
    BY DEF InOrder, NothingLeft
  <2>2. \A g \in Hosts : \A i \in DOMAIN queue[g] :
          /\ Leaving(g, i) => Leaving(g, i)' /\ Stage(g, i)' = Stage(g, i)
          /\ Arriving(g, i) => Arriving(g, i)' /\ Stage(g, i)' = Stage(g, i)
          /\ Stage(g, i) = "in_clean" => Stage(g, i)' = "in_clean"
    BY <1>2, <1>3
  <2>3. \A g \in Hosts : work[g].at = "out_publish" => work'[g].at = "out_publish"
    BY <1>1
  <2>4. \A t \in Tids : Carried(t) => Carried(t)'
    <3> SUFFICES ASSUME NEW t \in Tids, NEW g \in Hosts,
                        \/ Carries(g, t)
                        \/ \E i \in DOMAIN queue[g] :
                             /\ queue[g][i].tid = t /\ Stage(g, i) # "ack"
                             /\ Arriving(g, i) \/ Stage(g, i) = "in_clean"
                 PROVE  Carried(t)'
      BY DEF Carried
    <3>1. CASE Carries(g, t)
      <4>1. Carries(g, t)'
        BY <1>1, <3>1 DEF Carries
      <4> QED BY <4>1 DEF Carried
    <3>2. CASE \E i \in DOMAIN queue[g] :
                 /\ queue[g][i].tid = t /\ Stage(g, i) # "ack"
                 /\ Arriving(g, i) \/ Stage(g, i) = "in_clean"
      BY <2>2, <3>2 DEF Carried
    <3> QED BY <3>1, <3>2
  <2> QED BY <2>1, <2>2, <2>3, <2>4 DEF NothingLeft
<1> QED BY <1>4, <1>5, <1>7, <1>8, <1>10, <1>11 DEF InOrder

\* What the step of a source rests on.
LEMMA OutFacts ==
  ASSUME TypeOK, IndInv, InOrder, NEW h \in Hosts, queue[h] # <<>>, Leaving(h, 1)
  PROVE  /\ IF work[h].at \in {"out_publish", "out_rollback"}
              THEN doc.phase \in {"exporting", "importing"} ELSE doc.phase = "exporting"
         /\ work[h].at \in OutSteps \ {"out_git"} => NoAgent
         /\ work[h].at \in {"out_handover", "out_publish"} => parcel[work[h].tid] = "full"
         /\ work[h].at = "out_publish" => doc.phase = "importing" /\ doc.tid = work[h].tid
<1>1. 1 \in DOMAIN queue[h] /\ queue[h][1] = Head(queue[h])
  BY EntryFacts
<1>2. Stage(h, 1) = work[h].at
  BY DEF Stage
<1> QED BY <1>1, <1>2 DEF InOrder, OutUnderWay

\* A worker past the check of move_out is moving the session.
LEMMA OutIsLeaving ==
  ASSUME TypeOK, IndInv, NEW h \in Hosts, work[h].at \in OutSteps
  PROVE  queue[h] # <<>> /\ Head(queue[h]).type = "move_out" /\ Leaving(h, 1)
<1>1. queue[h] # <<>> /\ Head(queue[h]).type = "move_out"
  BY DEF IndInv, HeadInProgress, OutSteps
<1>2. 1 \in DOMAIN queue[h] /\ queue[h][1] = Head(queue[h])
  BY <1>1, EntryFacts
<1> QED BY <1>1, <1>2 DEF Leaving, Stage

\* The source hands the move over: its command is done, the target's waits.
LEMMA PublishKeepsOrder ==
  ASSUME TypeOK, IndInv, InOrder, NEW h \in Hosts, At(h, "out_publish"), Goto(h, "ack"),
         Send(Head(queue[h]).to, Cmd("move_in", h, Head(queue[h]).to, work[h].tid)),
         UNCHANGED <<mongo, hosted, tasks, requests>>, NothingLost' => NothingLost
  PROVE  InOrder'
<1> PICK k : k = Head(queue[h]).to
  OBVIOUS
<1> PICK m : m = Cmd("move_in", h, k, work[h].tid)
  OBVIOUS
<1>1. /\ At(h, "out_publish") /\ Send(k, m) /\ Goto(h, "ack")
      /\ UNCHANGED <<mongo, hosted, tasks, requests>>
  OBVIOUS
<1>2. /\ queue[h] # <<>> /\ work[h].at = "out_publish" /\ Head(queue[h]).type = "move_out"
      /\ Head(queue[h]) \in Cmds /\ Head(queue[h]) \in Waiting(h) /\ Leaving(h, 1)
  BY <1>1, HeadFacts, OutIsLeaving DEF At, OutSteps
<1>3. k \in Hosts /\ k # h /\ work[h].tid \in Tids
  BY <1>2 DEF IndInv, Addressed, Cmds, TypeOK, Works
<1>4. m \in Cmds /\ m.type = "move_in" /\ m.from = h /\ m.to = k /\ m.tid = work[h].tid
  BY <1>3, CmdType
<1>5. /\ DOMAIN queue[h] = {1} /\ queue[h][1] = Head(queue[h])
      /\ \A g \in Hosts \ {h} : DOMAIN queue[g] = {} /\ work[g].at = "idle"
      /\ requests = {} /\ \A g \in Hosts : waking[g] = 0
      /\ doc.host = h /\ file[h] = "full"
  BY <1>2, OutAlone
<1>6. doc.phase = "importing" /\ NoAgent /\ parcel[work[h].tid] = "full" /\ doc.tid = work[h].tid
  BY <1>2, OutFacts DEF OutSteps
<1>7. /\ work'[h].at = "ack" /\ work'[k].at = "idle"
      /\ \A g \in Hosts : work'[g].at \in {"idle", "ack"}
  <2>1. work'[h].at = "ack" /\ \A g \in Hosts : g # h => work'[g] = work[g]
    BY <1>1, GotoFacts DEF TypeOK, Steps
  <2> QED BY <1>3, <1>5, <2>1
<1>8. queue'[h] = queue[h] /\ queue'[k] = <<m>> /\ \A g \in Hosts \ {h, k} : queue'[g] = queue[g]
  <2>1. queue[k] \in Seq(Cmds) /\ queue[k] = <<>>
    BY <1>3, <1>5, EntryFacts DEF TypeOK
  <2>2. queue'[k] = Append(queue[k], m) /\ \A g \in Hosts \ {k} : queue'[g] = queue[g]
    BY <1>1, <1>3 DEF Send, TypeOK
  <2> QED BY <1>3, <1>4, <2>1, <2>2
<1>9. DOMAIN queue'[h] = {1} /\ DOMAIN queue'[k] = {1} /\ queue'[k][1] = m
  BY <1>5, <1>8
<1>10. \A g \in Hosts : \A i \in DOMAIN queue'[g] :
         \/ g = h /\ i = 1 /\ queue'[g][i].type = "move_out" /\ Stage(g, i)' = "ack"
         \/ g = k /\ i = 1 /\ queue'[g][i] = m /\ Stage(g, i)' = "idle"
  BY <1>2, <1>5, <1>7, <1>8, <1>9 DEF Stage
<1>11. /\ UNCHANGED <<doc, parcel, pane, file, requests, waking>>
       /\ requests' = {}
  BY <1>1, <1>5 DEF mongo, stores, hosted, tasks
<1>x. \A g \in Hosts : \A i \in DOMAIN queue'[g] :
        /\ ~Leaving(g, i)'
        /\ Arriving(g, i)' => g = k /\ i = 1 /\ queue'[g][i] = m /\ Stage(g, i)' = "idle"
  BY <1>4, <1>6, <1>10, <1>11 DEF Leaving, Arriving, OutSteps
<1>12. OneMove'
  BY <1>3, <1>4, <1>10, <1>11, <1>x DEF OneMove
<1>13. TalkAside'
  <2>1. \A g \in Hosts : ~Queued(g, TalkTypes)' /\ ~Queued(g, {"input"})'
    BY <1>4, <1>10 DEF Queued, Waiting, TalkTypes
  <2>2. \A g \in Hosts : ~(waking'[g] > 0)
    BY <1>5, <1>11
  <2> QED BY <1>x, <2>1, <2>2 DEF TalkAside
<1>14. OutUnderWay'
  BY <1>x DEF OutUnderWay
<1>15. InUnderWay'
  <2>1. NoAgent'
    BY <1>6, <1>11 DEF NoAgent
  <2> QED BY <1>4, <1>5, <1>6, <1>11, <1>x, <2>1 DEF InUnderWay
<1>16. WithOwner'
  BY <1>5, <1>6, <1>11 DEF InOrder, WithOwner, NoAgent
<1>17. NothingLeft'
  <2> SUFFICES ASSUME NothingLost' PROVE NothingLeft'
    BY DEF NothingLeft
  <2>1. 1 \in DOMAIN queue'[k] /\ queue'[k][1] = m /\ Stage(k, 1)' = "idle" /\ Arriving(k, 1)'
    BY <1>3, <1>4, <1>6, <1>9, <1>10, <1>11 DEF Arriving
  <2>2. ASSUME NEW t \in Tids, parcel[t] # "none" PROVE Carried(t)'
    <3>1. Carries(h, t)
      BY <1>2, <2>2, OutParcels
    <3>2. m.tid = t
      BY <1>4, <3>1 DEF Carries
    <3> QED BY <1>3, <2>1, <3>2 DEF Carried
  <2> QED BY <1>3, <1>6, <1>11, <2>1, <2>2 DEF NothingLeft
<1> QED BY <1>12, <1>13, <1>14, <1>15, <1>16, <1>17 DEF InOrder

LEMMA MoveOutKeepsOrder ==
  ASSUME TypeOK, IndInv, InOrder, NEW h \in Hosts, MoveOut(h),
         NothingLost' => NothingLost, "doubled" \notin mishaps'
  PROVE  InOrder'
<1>1. queue[h] # <<>> /\ (work[h].at = "idle" \/ work[h].at \in OutSteps)
  BY DEF MoveOut, TakeMoveOut, MoveOutRefuse, MoveOutStop, MoveOutExport, MoveOutHandOver,
     MoveOutPublish, MoveOutRollback, Taking, At, OutSteps
<1>0. CASE ~Leaving(h, 1)
  <2>1. work[h].at \notin OutSteps
    BY <1>0, OutIsLeaving
  <2>2. TakeMoveOut(h)
    BY <2>1 DEF MoveOut, MoveOutRefuse, MoveOutStop, MoveOutExport, MoveOutHandOver,
       MoveOutPublish, MoveOutRollback, At, OutSteps
  <2>3. queue[h][1] = Head(queue[h]) /\ Head(queue[h]).type = "move_out"
    BY <1>1, <2>2, EntryFacts DEF TakeMoveOut, Taking
  <2>4. ~Exportable(h)
    BY <1>0, <2>3 DEF Leaving, Exportable
  <2>5. /\ work[h].at = "idle" /\ Goto(h, "ack")
        /\ UNCHANGED <<doc, pane, parcel, file, waking, queue, requests>>
    BY <2>2, <2>4 DEF TakeMoveOut, Taking, mongo, stores, hosted, tasks, outer
  <2>6. ~Arriving(h, 1)
    BY <2>3 DEF Arriving
  <2> QED BY <1>0, <1>1, <2>5, <2>6, DropKeepsOrder
<1> SUFFICES ASSUME Leaving(h, 1) PROVE InOrder'
  BY <1>0
<1>2. /\ doc.host = h /\ doc.target = Head(queue[h]).to /\ file[h] = "full"
      /\ work[h].at \notin {"out_publish", "out_rollback"} => doc.phase = "exporting"
      /\ work[h].at \in OutSteps \ {"out_git"} => NoAgent
      /\ work[h].at \in {"out_handover", "out_publish"} => parcel[work[h].tid] = "full"
      /\ work[h].at = "out_publish" => doc.phase = "importing" /\ doc.tid = work[h].tid
  BY <1>1, OutAlone, OutFacts
<1>3. NothingLost' => \A t \in Tids : parcel[t] # "none" => Carries(h, t)
  BY <1>1, OutParcels
<1>4. doc \in Docs /\ pane \in [Hosts -> Panes] /\ parcel \in [Tids -> Copies] /\ work \in [Hosts -> Works]
  BY DEF TypeOK
<1>5. CASE TakeMoveOut(h)
  <2>1. /\ work[h].at = "idle" /\ Goto(h, "out_git")
        /\ UNCHANGED <<doc, pane, parcel, file, queue, requests, waking>>
    BY <1>2, <1>5 DEF TakeMoveOut, Taking, Exportable, OutSteps, mongo, stores, hosted, tasks, outer
  <2>2. work'[h].at = "out_git" /\ \A g \in Hosts : g # h => work'[g] = work[g]
    BY <2>1, GotoFacts DEF TypeOK, Steps, OutSteps
  <2>3. NothingLost' => \A t \in Tids : parcel'[t] = "none"
    BY <1>3, <2>1 DEF Carries
  <2> QED BY <1>1, <1>2, <2>1, <2>2, <2>3, OutStep DEF OutSteps
<1>6. CASE MoveOutRefuse(h)
  <2>1. /\ work[h].at = "out_git" /\ Goto(h, "ack") /\ doc' = Phase(doc, "failed")
        /\ UNCHANGED <<pane, parcel, file, queue, requests, waking>>
    BY <1>6 DEF MoveOutRefuse, At, stores, hosted, tasks, outer
  <2>2. work'[h].at = "ack" /\ \A g \in Hosts : g # h => work'[g] = work[g]
    BY <2>1, GotoFacts DEF TypeOK, Steps
  <2>3. NothingLost' => \A t \in Tids : parcel'[t] = "none"
    BY <1>3, <2>1 DEF Carries
  <2>4. doc'.host = doc.host /\ doc'.phase = "failed"
    BY <1>4, <2>1, DocType DEF Phases
  <2> QED BY <1>1, <1>2, <2>1, <2>2, <2>3, <2>4, OutStep
<1>7. CASE MoveOutStop(h)
  <2>1. /\ work[h].at = "out_git" /\ Goto(h, "out_export") /\ pane' = [pane EXCEPT ![h] = "none"]
        /\ UNCHANGED <<doc, parcel, file, queue, requests, waking>>
    BY <1>7 DEF MoveOutStop, StoppedPane, At, mongo, stores, tasks, outer
  <2>2. work'[h].at = "out_export" /\ \A g \in Hosts : g # h => work'[g] = work[g]
    BY <2>1, GotoFacts DEF TypeOK, Steps, OutSteps
  <2>3. NothingLost' => \A t \in Tids : parcel'[t] = "none"
    BY <1>3, <2>1 DEF Carries
  <2>4. pane'[h] = "none" /\ \A g \in Hosts \ {h} : pane'[g] = pane[g]
    BY <1>4, <2>1
  <2> QED BY <1>1, <1>2, <2>1, <2>2, <2>3, <2>4, OutStep DEF OutSteps
<1>8. CASE MoveOutExport(h)
  <2>1. PICK stored \in BOOLEAN :
          /\ parcel' = IF stored THEN [parcel EXCEPT ![lastTid'] = file[h]] ELSE parcel
          /\ work' = [work EXCEPT ![h] = [at |-> IF stored THEN "out_handover" ELSE "out_rollback",
                                          tid |-> lastTid']]
    BY <1>8 DEF MoveOutExport
  <2>2. /\ work[h].at = "out_export" /\ doc' = [doc EXCEPT !.status = "stopped"]
        /\ lastTid' = lastTid + 1 /\ lastTid' \in Tids
        /\ UNCHANGED <<pane, file, queue, requests, waking>>
    <3>1. lastTid \in 0..MaxTransfers
      BY DEF TypeOK, Tids
    <3>2. /\ work[h].at = "out_export" /\ doc' = [doc EXCEPT !.status = "stopped"]
          /\ lastTid < MaxTransfers /\ lastTid' = lastTid + 1
          /\ UNCHANGED <<pane, file, queue, requests, waking>>
      BY <1>8 DEF MoveOutExport, At, hosted, tasks, outer
    <3> QED BY <3>1, <3>2, Bounds DEF Tids
  <2>3. PICK step \in {"out_handover", "out_rollback"} :
          /\ step = IF stored THEN "out_handover" ELSE "out_rollback"
          /\ work' = [work EXCEPT ![h] = [at |-> step, tid |-> lastTid']]
    BY <2>1
  <2>4. /\ work'[h].at = step /\ work'[h].tid = lastTid'
        /\ \A g \in Hosts \ {h} : work'[g] = work[g]
    BY <1>4, <2>3
  <2>5. doc'.host = doc.host /\ doc'.target = doc.target /\ doc'.phase = "exporting"
    BY <1>2, <1>4, <2>2 DEF Docs
  <2>6. step = "out_handover" => parcel'[lastTid'] = "full"
    BY <1>2, <1>4, <2>1, <2>2, <2>3
  <2>7. ASSUME NothingLost', NEW t \in Tids, parcel'[t] # "none" PROVE Carries(h, t)'
    <3>1. parcel[t] = "none"
      BY <1>3, <2>2, <2>7 DEF Carries
    <3>2. t = lastTid'
      BY <1>4, <2>1, <2>2, <2>7, <3>1
    <3> QED BY <2>4, <3>2 DEF Carries
  <2>8. pane'[h] # "agent"
    BY <1>2, <2>2 DEF OutSteps, NoAgent
  <2> QED BY <1>1, <2>2, <2>4, <2>5, <2>6, <2>7, <2>8, OutStep DEF OutSteps
<1>9. CASE MoveOutHandOver(h)
  <2>1. /\ work[h].at = "out_handover" /\ Goto(h, "out_publish")
        /\ doc' = [Phase(doc, "importing") EXCEPT !.tid = work[h].tid]
        /\ UNCHANGED <<pane, parcel, file, queue, requests, waking>>
    BY <1>9 DEF MoveOutHandOver, At, stores, hosted, tasks, outer
  <2>2. /\ work'[h].at = "out_publish" /\ work'[h].tid = work[h].tid
        /\ \A g \in Hosts : g # h => work'[g] = work[g]
    BY <2>1, GotoFacts DEF TypeOK, Steps, OutSteps
  <2>3. NothingLost' => \A t \in Tids : parcel'[t] # "none" => Carries(h, t)'
    BY <1>3, <2>1, <2>2 DEF Carries
  <2>4. /\ doc'.host = doc.host /\ doc'.target = doc.target
        /\ doc'.phase = "importing" /\ doc'.tid = work'[h].tid
    BY <1>4, <2>1, <2>2 DEF Docs, Phase
  <2>5. pane'[h] # "agent" /\ parcel'[work'[h].tid] = "full"
    BY <1>2, <2>1, <2>2 DEF OutSteps, NoAgent
  <2> QED BY <1>1, <2>1, <2>2, <2>3, <2>4, <2>5, OutStep DEF OutSteps
<1>10. CASE MoveOutRollback(h)
  <2>1. /\ work[h].at = "out_rollback" /\ Goto(h, "ack")
        /\ parcel' = [parcel EXCEPT ![work[h].tid] = "none"]
        /\ UNCHANGED <<file, queue, requests, waking>>
    BY <1>10 DEF MoveOutRollback, At, tasks, outer
  <2>2. \A g \in Hosts \ {h} : pane'[g] = pane[g]
    BY <1>4, <1>10 DEF MoveOutRollback
  <2>3. doc'.host = doc.host /\ doc'.phase = "failed"
    <3>1. /\ Phase(doc, "failed") \in Docs /\ Phase(doc, "failed").host = doc.host
          /\ Phase(doc, "failed").phase = "failed"
      BY <1>4, DocType DEF Phases
    <3>2. doc' = Phase(doc, "failed") \/ doc' = [Phase(doc, "failed") EXCEPT !.status = "active"]
      BY <1>10 DEF MoveOutRollback
    <3> QED BY <3>1, <3>2 DEF Docs
  <2>4. work'[h].at = "ack" /\ \A g \in Hosts : g # h => work'[g] = work[g]
    BY <2>1, GotoFacts DEF TypeOK, Steps
  <2>5. NothingLost' => \A t \in Tids : parcel'[t] = "none"
    BY <1>3, <1>4, <2>1 DEF Carries
  <2> QED BY <1>1, <2>1, <2>2, <2>3, <2>4, <2>5, OutStep
<1>11. CASE MoveOutPublish(h)
  <2>1. CASE Goto(h, "ack")
    <3>1. /\ At(h, "out_publish") /\ UNCHANGED <<mongo, hosted, tasks, requests>>
          /\ Send(Head(queue[h]).to, Cmd("move_in", h, Head(queue[h]).to, work[h].tid))
      <4>1. ~Goto(h, "out_rollback")
        BY <1>4, <2>1 DEF Goto, Works
      <4> QED BY <1>11, <4>1 DEF MoveOutPublish
    <3> QED BY <2>1, <3>1, PublishKeepsOrder
  <2>2. CASE ~Goto(h, "ack")
    <3>1. /\ work[h].at = "out_publish" /\ Goto(h, "out_rollback") /\ Befalls("lost")
          /\ UNCHANGED <<doc, pane, parcel, file, queue, requests, waking>>
      BY <1>11, <2>2 DEF MoveOutPublish, At, Befalls, mongo, stores, hosted, tasks
    <3>2. /\ work'[h].at = "out_rollback" /\ \A g \in Hosts : g # h => work'[g] = work[g]
      BY <3>1, GotoFacts DEF TypeOK, Steps, OutSteps
    <3>3. ~NothingLost'
      BY <3>1 DEF NothingLost, Befalls
    <3>4. pane'[h] # "agent"
      BY <1>2, <3>1 DEF OutSteps, NoAgent
    <3> QED BY <1>1, <1>2, <3>1, <3>2, <3>3, <3>4, OutStep DEF OutSteps
  <2> QED BY <2>1, <2>2
<1> QED BY <1>5, <1>6, <1>7, <1>8, <1>9, <1>10, <1>11 DEF MoveOut

\* What the step of a target rests on.
LEMMA InFacts ==
  ASSUME TypeOK, IndInv, InOrder, NEW h \in Hosts, queue[h] # <<>>, Arriving(h, 1)
  PROVE  /\ work[h].at # "in_clean"
         /\ IF work[h].at = "in_giveback" THEN doc.phase = "failed"
            ELSE doc.phase = "importing" /\ doc.tid = Head(queue[h]).tid
         /\ IF work[h].at = "in_commit"
              THEN file[h] = "full" /\ \A g \in Hosts \ {h} : pane[g] # "agent"
            ELSE NoAgent
         /\ work[h].at \notin {"in_commit", "in_giveback"} =>
              parcel[Head(queue[h]).tid] = "full"
<1>1. 1 \in DOMAIN queue[h] /\ queue[h][1] = Head(queue[h])
  BY EntryFacts
<1>2. Stage(h, 1) = work[h].at
  BY DEF Stage
<1> QED BY <1>1, <1>2 DEF InOrder, InUnderWay

\* A worker past the check of move_in is moving the session, until it cleans up.
LEMMA InIsArriving ==
  ASSUME TypeOK, IndInv, NEW h \in Hosts, work[h].at \in InSteps \ {"in_clean"}
  PROVE  queue[h] # <<>> /\ Head(queue[h]).type = "move_in" /\ Arriving(h, 1)
<1>1. queue[h] # <<>> /\ Head(queue[h]).type = "move_in"
  BY DEF IndInv, HeadInProgress, InSteps
<1>2. 1 \in DOMAIN queue[h] /\ queue[h][1] = Head(queue[h])
  BY <1>1, EntryFacts
<1> QED BY <1>1, <1>2 DEF Arriving, Stage

\* A queue with one more command at its end.
LEMMA Appended ==
  ASSUME NEW S, NEW q \in Seq(S), NEW m \in S
  PROVE  /\ \A i \in DOMAIN Append(q, m) :
              (i \in DOMAIN q /\ Append(q, m)[i] = q[i]) \/ Append(q, m)[i] = m
         /\ DOMAIN q \subseteq DOMAIN Append(q, m)
<1>1. DOMAIN q = 1..Len(q) /\ Len(q) \in Nat
  OBVIOUS
<1>2. DOMAIN Append(q, m) = 1..Len(q) + 1
  OBVIOUS
<1>3. Append(q, m)[Len(q) + 1] = m
  OBVIOUS
<1>4. \A i \in 1..Len(q) : Append(q, m)[i] = q[i]
  OBVIOUS
<1> QED BY <1>1, <1>2, <1>3, <1>4

\* The target gives the session back: the source will resume it, if it is told.
LEMMA GiveBackKeepsOrder ==
  ASSUME TypeOK, IndInv, InOrder, NEW h \in Hosts, MoveInGiveBack(h),
         NothingLost' => NothingLost
  PROVE  InOrder'
<1> PICK c : c = Head(queue[h])
  OBVIOUS
<1> PICK m : m = Cmd("resume", c.from, c.from, 0)
  OBVIOUS
<1>1. PICK step \in {"in_clean", "ack"} :
        /\ queue[h] # <<>> /\ work[h].at = "in_giveback" /\ Goto(h, step)
        /\ Send(c.from, m) \/ UNCHANGED queue
        /\ UNCHANGED <<doc, parcel, pane, file, requests, waking>>
        /\ NothingLost' => step = "in_clean"
  BY DEF MoveInGiveBack, GivenBack, At, Befalls, NothingLost, mongo, stores, hosted, tasks
<1>2. Arriving(h, 1) /\ c.type = "move_in" /\ c \in Cmds
  BY <1>1, HeadFacts, InIsArriving DEF InSteps
<1>3. c.from \in Hosts /\ m.type = "resume" /\ m \in Cmds
  <2>1. c.from \in Hosts
    BY <1>2 DEF Cmds
  <2> QED BY <2>1, CmdType, Bounds
<1>4. /\ 1 \in DOMAIN queue[h] /\ queue[h][1] = c
      /\ \A g \in Hosts : \A i \in DOMAIN queue[g] : ~(g = h /\ i = 1) =>
           queue[g][i].type = "move_out" /\ Stage(g, i) \in {"idle", "ack"}
      /\ \A g \in Hosts \ {h} : work[g].at \in {"idle", "ack"}
      /\ requests = {} /\ \A g \in Hosts : waking[g] = 0
      /\ doc.host = c.from /\ doc.host # h
  BY <1>1, <1>2, InAlone
<1>5. doc.phase = "failed" /\ NoAgent
  BY <1>1, <1>2, InFacts
<1>6. work'[h].at = step /\ \A g \in Hosts : g # h => work'[g] = work[g]
  BY <1>1, GotoFacts DEF TypeOK, Steps, InSteps
<1>7. \A g \in Hosts : \A i \in DOMAIN queue'[g] :
        \/ i \in DOMAIN queue[g] /\ queue'[g][i] = queue[g][i]
        \/ g = doc.host /\ queue'[g][i] = m
  <2>1. CASE UNCHANGED queue
    BY <2>1
  <2>2. CASE Send(c.from, m)
    <3>1. /\ queue[c.from] \in Seq(Cmds) /\ queue'[c.from] = Append(queue[c.from], m)
          /\ \A g \in Hosts \ {c.from} : queue'[g] = queue[g]
      BY <1>3, <2>2 DEF Send, TypeOK
    <3>2. PICK q \in Seq(Cmds) : q = queue[c.from]
      BY <3>1
    <3>3. queue'[c.from] = Append(q, m) /\ queue[c.from] = q
      BY <3>1, <3>2
    <3>4. \A i \in DOMAIN Append(q, m) :
            (i \in DOMAIN q /\ Append(q, m)[i] = q[i]) \/ Append(q, m)[i] = m
      BY <1>3, Appended
    <3>5. \A i \in DOMAIN queue'[c.from] :
            \/ i \in DOMAIN queue[c.from] /\ queue'[c.from][i] = queue[c.from][i]
            \/ queue'[c.from][i] = m
      BY <3>3, <3>4, Zenon
    <3> QED BY <1>4, <3>1, <3>5
  <2> QED BY <1>1, <2>1, <2>2
<1>8. 1 \in DOMAIN queue'[h] /\ queue'[h][1] = c
  <2>1. queue'[h] = queue[h]
    BY <1>1, <1>3, <1>4 DEF Send, TypeOK
  <2> QED BY <1>4, <2>1
<1>9. \A g \in Hosts : \A i \in DOMAIN queue'[g] :
        \/ g = h /\ i = 1 /\ queue'[g][i] = c /\ Stage(g, i)' = step
        \/ /\ queue'[g][i].type \in {"move_out", "resume"}
           /\ queue'[g][i].type = "move_out" => Stage(g, i)' \in {"idle", "ack"}
           /\ queue'[g][i].type = "resume" => g = doc.host
  <2> SUFFICES ASSUME NEW g \in Hosts, NEW i \in DOMAIN queue'[g], ~(g = h /\ i = 1)
               PROVE  /\ queue'[g][i].type \in {"move_out", "resume"}
                      /\ queue'[g][i].type = "move_out" => Stage(g, i)' \in {"idle", "ack"}
                      /\ queue'[g][i].type = "resume" => g = doc.host
    BY <1>6, <1>8 DEF Stage
  <2>1. CASE i \in DOMAIN queue[g] /\ queue'[g][i] = queue[g][i]
    <3>1. queue[g][i].type = "move_out" /\ Stage(g, i) \in {"idle", "ack"}
      BY <1>4, <2>1
    <3>2. Stage(g, i)' \in {"idle", "ack"}
      BY <1>6, <3>1 DEF Stage
    <3> QED BY <2>1, <3>1, <3>2
  <2>2. CASE g = doc.host /\ queue'[g][i] = m
    BY <1>3, <2>2
  <2> QED BY <1>7, <2>1, <2>2
<1>10. \A g \in Hosts : \A i \in DOMAIN queue'[g] : ~Leaving(g, i)' /\ ~Arriving(g, i)'
  BY <1>1, <1>2, <1>5, <1>9 DEF Leaving, Arriving, OutSteps, InSteps
<1>11. OneMove'
  <2>1. \A g, k \in Hosts : \A i \in DOMAIN queue'[g], j \in DOMAIN queue'[k] :
          queue'[g][i].type = queue'[k][j].type /\ queue'[g][i].type \in MoveTypes => g = k /\ i = j
    <3> SUFFICES ASSUME NEW g \in Hosts, NEW k \in Hosts,
                        NEW i \in DOMAIN queue'[g], NEW j \in DOMAIN queue'[k],
                        queue'[g][i].type = queue'[k][j].type, queue'[g][i].type \in MoveTypes
                 PROVE  g = k /\ i = j
      OBVIOUS
    <3>1. queue'[g][i] # m /\ queue'[k][j] # m
      BY <1>3 DEF MoveTypes
    <3>2. i \in DOMAIN queue[g] /\ queue'[g][i] = queue[g][i]
      BY <1>7, <3>1
    <3>3. j \in DOMAIN queue[k] /\ queue'[k][j] = queue[k][j]
      BY <1>7, <3>1
    <3> QED BY <3>2, <3>3 DEF InOrder, OneMove
  <2>2. requests' = {}
    BY <1>1, <1>4
  <2> QED BY <1>10, <2>1, <2>2 DEF OneMove
<1>12. TalkAside'
  <2>1. \A g \in Hosts : Queued(g, TalkTypes)' => g = doc.host
    BY <1>2, <1>9 DEF Queued, Waiting, TalkTypes
  <2>2. \A g \in Hosts : ~Queued(g, {"input"})'
    BY <1>2, <1>9 DEF Queued, Waiting
  <2>3. \A g \in Hosts : ~(waking'[g] > 0)
    BY <1>1, <1>4
  <2> QED BY <1>1, <1>10, <2>1, <2>2, <2>3 DEF TalkAside
<1>13. OutUnderWay' /\ InUnderWay'
  BY <1>10 DEF OutUnderWay, InUnderWay
<1>14. WithOwner'
  <2>1. \A g \in Hosts : ~Committing(g)
    BY <1>1, <1>4 DEF Committing
  <2> QED BY <1>1, <1>5, <2>1 DEF InOrder, WithOwner, NoAgent
<1>15. NothingLeft'
  <2> SUFFICES ASSUME NothingLost', NEW t \in Tids, parcel[t] # "none" PROVE Carried(t)'
    BY <1>1, <1>5 DEF NothingLeft
  <2>1. PICK g \in Hosts : \/ Carries(g, t)
                           \/ \E i \in DOMAIN queue[g] :
                                /\ queue[g][i].tid = t
                                /\ Arriving(g, i) \/ Stage(g, i) = "in_clean"
    BY DEF InOrder, NothingLeft, Carried
  <2>2. ~Carries(g, t)
    <3>1. ~Carries(h, t)
      BY <1>1 DEF Carries
    <3> QED BY <1>4, <3>1 DEF Carries
  <2>3. c.tid = t
    BY <1>4, <2>1, <2>2 DEF Arriving
  <2>4. Stage(h, 1)' = "in_clean"
    BY <1>1, <1>6 DEF Stage
  <2> QED BY <1>8, <2>3, <2>4 DEF Carried
<1> QED BY <1>11, <1>12, <1>13, <1>14, <1>15 DEF InOrder

\* The last step of a target, over or given back: talk may already be under way.
LEMMA CleanKeepsOrder ==
  ASSUME TypeOK, IndInv, InOrder, NEW h \in Hosts, MoveInClean(h),
         NothingLost' => NothingLost
  PROVE  InOrder'
<1> PICK c : c = Head(queue[h])
  OBVIOUS
<1>1. /\ queue[h] # <<>> /\ work[h].at = "in_clean" /\ Goto(h, "ack")
      /\ parcel' = [parcel EXCEPT ![c.tid] = "none"]
      /\ UNCHANGED <<doc, queue, pane, file, requests, waking>>
  BY DEF MoveInClean, At, hosted, tasks, outer
<1>2. c.type = "move_in" /\ c \in Cmds /\ 1 \in DOMAIN queue[h] /\ queue[h][1] = c
  BY <1>1, HeadFacts, EntryFacts DEF InSteps
<1>3. work'[h].at = "ack" /\ \A g \in Hosts : g # h => work'[g] = work[g]
  BY <1>1, GotoFacts DEF TypeOK, Steps
<1>4. \A g \in Hosts : \A i \in DOMAIN queue[g] :
        \/ g = h /\ i = 1 /\ Stage(g, i) = "in_clean" /\ Stage(g, i)' = "ack"
        \/ (g # h \/ i # 1) /\ queue[g][i].type # "move_in" /\ Stage(g, i)' = Stage(g, i)
  BY <1>1, <1>2, <1>3 DEF Stage, InOrder, OneMove, MoveTypes
<1>5. \A g \in Hosts : \A i \in DOMAIN queue[g] : ~Leaving(g, i) /\ ~Arriving(g, i)
  <2>1. \A g \in Hosts : \A i \in DOMAIN queue[g] : ~Leaving(g, i)
    BY <1>2 DEF InOrder, OneMove, Leaving
  <2>2. ~Arriving(h, 1)
    BY <1>1, InFacts
  <2> QED BY <1>4, <2>1, <2>2 DEF Arriving
<1>6. \A g \in Hosts : \A i \in DOMAIN queue[g] : ~Leaving(g, i)' /\ ~Arriving(g, i)'
  BY <1>1, <1>4, <1>5 DEF Leaving, Arriving, OutSteps, InSteps
<1>7. OneMove'
  <2>1. requests' = {}
    <3>1. Queued(h, MoveTypes)
      BY <1>2, EntryFacts DEF MoveTypes
    <3> QED BY <1>1, <3>1 DEF InOrder, OneMove
  <2> QED BY <1>1, <1>6, <2>1 DEF InOrder, OneMove
<1>8. TalkAside'
  <2>1. \A types : \A g \in Hosts : Queued(g, types)' <=> Queued(g, types)
    BY <1>1 DEF Queued, Waiting
  <2>2. Settled' <=> Settled
    BY <1>1, <2>1 DEF Settled
  <2> QED BY <1>1, <1>6, <2>1, <2>2 DEF InOrder, TalkAside
<1>9. OutUnderWay' /\ InUnderWay'
  BY <1>1, <1>6 DEF OutUnderWay, InUnderWay
<1>10. WithOwner'
  <2>1. \A g \in Hosts : Committing(g)' <=> Committing(g)
    BY <1>1, <1>3 DEF Committing
  <2> QED BY <1>1, <2>1 DEF InOrder, WithOwner
<1>11. NothingLeft'
  <2> SUFFICES ASSUME NothingLost'
               PROVE  /\ doc.phase # "exporting" /\ doc.phase # "importing"
                      /\ \A t \in Tids : parcel'[t] # "none" => Carried(t)'
    BY <1>1 DEF NothingLeft
  <2>1. doc.phase # "exporting"
    BY <1>5 DEF InOrder, NothingLeft
  <2>2. doc.phase # "importing"
    <3>1. ASSUME NEW g \in Hosts, work[g].at = "out_publish" PROVE FALSE
      <4>1. queue[g] # <<>> /\ Leaving(g, 1)
        BY <3>1, OutIsLeaving DEF OutSteps
      <4>2. 1 \in DOMAIN queue[g]
        BY <4>1, EntryFacts
      <4> QED BY <1>5, <4>1, <4>2
    <3> QED BY <1>5, <3>1 DEF InOrder, NothingLeft
  <2>3. ASSUME NEW t \in Tids, parcel'[t] # "none" PROVE Carried(t)'
    <3>1. parcel[t] # "none" /\ t # c.tid
      BY <1>1, <2>3 DEF TypeOK
    <3>2. PICK g \in Hosts : \/ Carries(g, t)
                             \/ \E i \in DOMAIN queue[g] :
                                  queue[g][i].tid = t /\ Stage(g, i) = "in_clean"
      BY <1>5, <3>1 DEF InOrder, NothingLeft, Carried
    <3>3. CASE Carries(g, t)
      <4>1. g # h
        BY <1>1, <3>3 DEF Carries
      <4> QED BY <1>3, <3>3, <4>1 DEF Carries, Carried
    <3>4. ASSUME NEW i \in DOMAIN queue[g], queue[g][i].tid = t, Stage(g, i) = "in_clean"
          PROVE  Carried(t)'
      <4>1. Stage(g, i)' = "in_clean"
        BY <1>2, <1>4, <3>1, <3>4
      <4> QED BY <1>1, <3>4, <4>1 DEF Carried
    <3> QED BY <3>2, <3>3, <3>4
  <2> QED BY <2>1, <2>2, <2>3
<1> QED BY <1>7, <1>8, <1>9, <1>10, <1>11 DEF InOrder

LEMMA MoveInKeepsOrder ==
  ASSUME TypeOK, IndInv, InOrder, NEW h \in Hosts, MoveIn(h),
         NothingLost' => NothingLost, "stranded" \notin mishaps'
  PROVE  InOrder'
<1>1. CASE MoveInClean(h)
  BY <1>1, CleanKeepsOrder
<1>2. CASE MoveInGiveBack(h)
  BY <1>2, GiveBackKeepsOrder
<1>3. SUFFICES ASSUME ~MoveInClean(h), ~MoveInGiveBack(h) PROVE InOrder'
  BY <1>1, <1>2
<1>0. CASE ~Arriving(h, 1)
  <2>1. work[h].at \notin InSteps \ {"in_clean"}
    BY <1>0, InIsArriving
  <2>2. TakeMoveIn(h)
    BY <1>3, <2>1 DEF MoveIn, MoveInPrepare, MoveInImport, MoveInImportFails, MoveInCommit,
       MoveInCollide, MoveInCancelled, MoveInFail, At, InSteps
  <2>3. queue[h] # <<>> /\ queue[h][1] = Head(queue[h]) /\ Head(queue[h]).type = "move_in"
    BY <2>2, EntryFacts DEF TakeMoveIn, Taking
  <2>4. ~(Awaited(h) /\ doc.phase = "importing")
    BY <1>0, <2>3 DEF Arriving, Awaited
  <2>5. /\ work[h].at = "idle" /\ Goto(h, "ack")
        /\ UNCHANGED <<doc, pane, parcel, file, waking, queue, requests>>
    BY <2>2, <2>4 DEF TakeMoveIn, Taking, mongo, stores, hosted, tasks, outer
  <2>6. ~Leaving(h, 1)
    BY <2>3 DEF Leaving
  <2> QED BY <1>0, <2>3, <2>5, <2>6, DropKeepsOrder
<1> SUFFICES ASSUME Arriving(h, 1) PROVE InOrder'
  BY <1>0
<1>4. queue[h] # <<>> /\ Head(queue[h]).type = "move_in"
  <2>1. queue[h] # <<>>
    BY <1>3 DEF MoveIn, TakeMoveIn, MoveInPrepare, MoveInImport, MoveInImportFails, MoveInCommit,
       MoveInCollide, MoveInCancelled, MoveInFail, Taking, At
  <2> QED BY <2>1, EntryFacts DEF Arriving
<1> PICK c : c = Head(queue[h])
  OBVIOUS
<1>5. /\ IF work[h].at = "in_giveback" THEN doc.phase = "failed"
         ELSE doc.phase = "importing" /\ doc.tid = c.tid
      /\ IF work[h].at = "in_commit"
           THEN file[h] = "full" /\ \A g \in Hosts \ {h} : pane[g] # "agent"
         ELSE NoAgent
      /\ work[h].at \notin {"in_commit", "in_giveback"} => parcel[c.tid] = "full"
  BY <1>4, InFacts
<1>6. doc \in Docs /\ pane \in [Hosts -> Panes] /\ file \in [Hosts -> Copies] /\ work \in [Hosts -> Works]
  BY DEF TypeOK
<1>7. UNCHANGED <<queue, requests, waking, parcel>>
  BY <1>3 DEF MoveIn, TakeMoveIn, MoveInPrepare, MoveInImport, MoveInImportFails, MoveInCommit,
     MoveInCollide, MoveInCancelled, MoveInFail, mongo, stores, tasks, outer
<1>8. ASSUME NEW step \in InSteps, Goto(h, step)
      PROVE  work'[h].at = step /\ \A g \in Hosts \ {h} : work'[g] = work[g]
  BY <1>8, GotoFacts DEF TypeOK, Steps
<1>9. CASE TakeMoveIn(h)
  <2>1. work[h].at = "idle" /\ Goto(h, "in_prepare") /\ UNCHANGED <<doc, pane, file>>
    BY <1>4, <1>5, <1>9 DEF TakeMoveIn, Taking, Awaited, mongo, hosted
  <2>2. work'[h].at = "in_prepare" /\ \A g \in Hosts \ {h} : work'[g] = work[g]
    BY <1>8, <2>1 DEF InSteps
  <2>3. pane'[h] # "agent"
    BY <1>5, <2>1 DEF NoAgent
  <2> QED BY <1>4, <1>5, <1>7, <2>1, <2>2, <2>3, InStep DEF InSteps
<1>10. CASE MoveInPrepare(h)
  <2>1. PICK step \in {"in_import", "in_spare"} : Goto(h, step)
    BY <1>10 DEF MoveInPrepare, AfterPrepare
  <2>2. work[h].at = "in_prepare" /\ UNCHANGED <<doc, pane, file>>
    BY <1>10 DEF MoveInPrepare, At, mongo, hosted
  <2>3. work'[h].at = step /\ \A g \in Hosts \ {h} : work'[g] = work[g]
    BY <1>8, <2>1 DEF InSteps
  <2>4. pane'[h] # "agent"
    BY <1>5, <2>2 DEF NoAgent
  <2> QED BY <1>4, <1>5, <1>7, <2>2, <2>3, <2>4, InStep DEF InSteps
<1>11. CASE MoveInImport(h)
  <2>1. /\ work[h].at = "in_import" /\ doc' = doc
        /\ file' = [file EXCEPT ![h] = parcel[c.tid]]
    BY <1>11 DEF MoveInImport, Imported, At, mongo
  <2>2. file'[h] = "full" /\ \A g \in Hosts \ {h} : file'[g] = file[g]
    BY <1>5, <1>6, <2>1
  <2>3. PICK step \in {"in_commit", "in_fail"} :
          /\ Goto(h, step) /\ (step = "in_fail" => pane'[h] # "agent")
          /\ \A g \in Hosts \ {h} : pane'[g] = pane[g]
    <3>1. CASE \E p \in Launched(h, parcel[c.tid]) :
                 /\ pane' = [pane EXCEPT ![h] = p]
                 /\ Goto(h, IF p = "agent" THEN "in_commit" ELSE "in_fail")
      BY <1>6, <3>1
    <3>2. CASE Goto(h, "in_fail") /\ UNCHANGED pane
      BY <1>5, <2>1, <3>2 DEF NoAgent
    <3> QED BY <1>11, <3>1, <3>2 DEF MoveInImport, Imported
  <2>4. work'[h].at = step /\ \A g \in Hosts \ {h} : work'[g] = work[g]
    BY <1>8, <2>3 DEF InSteps
  <2> QED BY <1>4, <1>5, <1>7, <2>1, <2>2, <2>3, <2>4, InStep DEF InSteps
<1>12. CASE MoveInImportFails(h)
  <2>1. work[h].at = "in_import" /\ Goto(h, "in_fail") /\ UNCHANGED <<doc, pane, file>>
    BY <1>12 DEF MoveInImportFails, At, mongo, hosted
  <2>2. work'[h].at = "in_fail" /\ \A g \in Hosts \ {h} : work'[g] = work[g]
    BY <1>8, <2>1 DEF InSteps
  <2>3. pane'[h] # "agent"
    BY <1>5, <2>1 DEF NoAgent
  <2> QED BY <1>4, <1>5, <1>7, <2>1, <2>2, <2>3, InStep DEF InSteps
<1>13. CASE MoveInFail(h)
  <2>1. /\ work[h].at \in {"in_fail", "in_spare"} /\ Goto(h, "in_giveback") /\ file' = file
        /\ doc' = Phase(doc, "failed") /\ (pane' = pane \/ pane' = [pane EXCEPT ![h] = "none"])
    BY <1>13 DEF MoveInFail, At, FailedIn, StoppedPane
  <2>2. work'[h].at = "in_giveback" /\ \A g \in Hosts \ {h} : work'[g] = work[g]
    BY <1>8, <2>1 DEF InSteps
  <2>3. pane'[h] # "agent" /\ \A g \in Hosts \ {h} : pane'[g] = pane[g]
    BY <1>5, <1>6, <2>1 DEF NoAgent
  <2>4. doc'.host = doc.host /\ doc'.phase = "failed"
    BY <1>6, <2>1, DocType DEF Phases
  <2>5. work[h].at # "in_commit"
    BY <2>1
  <2> QED BY <1>4, <1>7, <2>1, <2>2, <2>3, <2>4, <2>5, InStep DEF InSteps
<1>14. CASE MoveInCommit(h)
  <2>1. work[h].at = "in_commit" /\ Goto(h, "in_clean") /\ doc' = Taken(h) /\ UNCHANGED <<pane, file>>
    BY <1>14 DEF MoveInCommit, At, hosted
  <2>2. work'[h].at = "in_clean" /\ \A g \in Hosts \ {h} : work'[g] = work[g]
    BY <1>8, <2>1 DEF InSteps
  <2>3. doc'.host = h /\ doc'.phase = "none"
    <3>1. Unmoved(doc) \in Docs /\ Unmoved(doc).phase = "none"
      BY <1>6, DocType DEF Phases
    <3> QED BY <2>1, <3>1 DEF Taken, Docs
  <2>4. file'[h] = "full"
    BY <1>5, <2>1
  <2> QED BY <1>4, <1>7, <2>1, <2>2, <2>3, <2>4, InStep DEF InSteps
<1>15. ~MoveInCollide(h)
  BY DEF MoveInCollide, Befalls
<1>16. ~MoveInCancelled(h)
  BY <1>5 DEF MoveInCancelled, At, Awaited
<1> QED BY <1>3, <1>9, <1>10, <1>11, <1>12, <1>13, <1>14, <1>15, <1>16 DEF MoveIn

\* resume and input leave the conversation whole where the messages go.
LEMMA TalkKeepsOrder ==
  ASSUME TypeOK, IndInv, InOrder, NEW h \in Hosts, TakeResume(h) \/ TakeInput(h)
  PROVE  InOrder'
<1>1. /\ queue[h] # <<>> /\ Head(queue[h]).type \in TalkTypes /\ Goto(h, "ack")
      /\ UNCHANGED <<queue, requests, spent, mishaps>>
  BY DEF TakeResume, TakeInput, Taking, TalkTypes, stores, tasks, outer
<1>2. work'[h].at = "ack" /\ \A g \in Hosts \ {h} : work'[g] = work[g]
  BY <1>1, GotoFacts DEF TypeOK, Steps
<1>a. NothingLost' => NothingLost
  BY <1>1 DEF NothingLost
<1>3. file[h] = "full"
  BY <1>1, TalkAlone
<1>4. CASE TakeResume(h)
  <2>1. UNCHANGED <<parcel, file, waking>>
    BY <1>4 DEF TakeResume, stores, tasks
  <2>2. \A g \in Hosts \ {h} : pane'[g] = pane[g]
    BY <1>4 DEF TakeResume, Relaunch, TypeOK
  <2>3. /\ doc'.host = doc.host /\ doc'.target = doc.target
        /\ doc'.phase = doc.phase /\ doc'.tid = doc.tid
    BY <1>4 DEF TakeResume, Relaunch, TypeOK, Docs
  <2>4. Aside
    BY <1>1, <1>a, <2>1, <2>3 DEF Aside
  <2> QED BY <1>1, <1>2, <1>3, <2>1, <2>2, <2>4, TalkStep
<1>5. CASE TakeInput(h)
  <2>1. UNCHANGED <<doc, pane>>
    BY <1>5 DEF TakeInput
  <2>2. file'[h] = "full"
    BY <1>3, <1>5 DEF TakeInput, Turn
  <2>3. \A t \in Tids : parcel'[t] # "none" => parcel[t] # "none"
    BY <1>5 DEF TakeInput, Turn, Behind
  <2>4. \A g \in Hosts : waking'[g] > 0 => waking[g] > 0 \/ Queued(g, {"input"})
    <3>1. Queued(h, {"input"})
      <4>1. 1 \in DOMAIN queue[h] /\ queue[h][1].type = "input"
        BY <1>5, EntryFacts DEF TakeInput, Taking
      <4> QED BY <4>1, EntryFacts
    <3>2. \A g \in Hosts \ {h} : waking'[g] = waking[g]
      BY <1>5 DEF TakeInput, TypeOK
    <3> QED BY <3>1, <3>2
  <2>5. Aside
    BY <1>1, <1>a, <2>1, <2>3, <2>4 DEF Aside
  <2> QED BY <1>1, <1>2, <2>1, <2>2, <2>5, TalkStep
<1> QED BY <1>4, <1>5

\* A client's step, or a move given up before it began: none is under way.
LEMMA QuietStep ==
  ASSUME TypeOK, IndInv, InOrder, \A g \in Hosts : ~Queued(g, MoveTypes),
         UNCHANGED <<work, pane, file, parcel>>, NothingLost' => NothingLost,
         doc'.host = doc.host, NothingLost' => doc'.phase \in {doc.phase, "none"},
         \A r, q \in requests' : r = q /\ r.from = doc.host,
         \A g \in Hosts : \A i \in DOMAIN queue'[g] : queue'[g][i].type \in TalkTypes,
         \A g \in Hosts : Queued(g, TalkTypes)' => g = doc.host,
         \A g \in Hosts : Queued(g, {"input"})' \/ waking'[g] > 0 => requests' = {} /\ g = doc.host
  PROVE  InOrder'
<1>1. /\ \A g \in Hosts : ~Committing(g) /\ work[g].at \in {"idle", "ack"}
      /\ \A t \in Tids : ~Carried(t)
      /\ \A g \in Hosts : \A i \in DOMAIN queue[g] : queue[g][i].type \in TalkTypes
  BY QuietFacts
<1>2. \A g \in Hosts : \A i \in DOMAIN queue'[g] :
        queue'[g][i].type \notin MoveTypes /\ queue'[g][i].type # "move_out"
          /\ queue'[g][i].type # "move_in"
  BY DEF TalkTypes, MoveTypes
<1>3. \A g \in Hosts : ~Queued(g, MoveTypes)' /\ ~Queued(g, {"move_out", "move_in"})'
  BY <1>2 DEF Queued, Waiting, MoveTypes
<1>4. OneMove'
  BY <1>2, <1>3 DEF OneMove
<1>5. TalkAside'
  BY <1>2, <1>3 DEF TalkAside, Settled, Leaving, Arriving
<1>6. OutUnderWay' /\ InUnderWay'
  BY <1>2 DEF OutUnderWay, InUnderWay, Leaving, Arriving
<1>7. WithOwner'
  BY <1>1 DEF InOrder, WithOwner, Committing
<1>8. NothingLeft'
  <2> SUFFICES ASSUME NothingLost
               PROVE  /\ doc.phase # "exporting" /\ doc.phase # "importing"
                      /\ \A t \in Tids : parcel[t] = "none"
    BY DEF NothingLeft
  <2> QED BY <1>1 DEF InOrder, NothingLeft, Leaving, Arriving, TalkTypes
<1> QED BY <1>4, <1>5, <1>6, <1>7, <1>8 DEF InOrder

\* What a client appends to the queue of the session's host.
LEMMA AppendFacts ==
  ASSUME TypeOK, NEW h \in Hosts, NEW c \in Cmds, Send(h, c)
  PROVE  /\ \A g \in Hosts \ {h} : queue'[g] = queue[g]
         /\ Len(queue[h]) \in Nat /\ Len(queue'[h]) = Len(queue[h]) + 1
         /\ DOMAIN queue[h] = 1..Len(queue[h]) /\ DOMAIN queue'[h] = 1..(Len(queue[h]) + 1)
         /\ queue'[h][Len(queue[h]) + 1] = c
         /\ \A i \in DOMAIN queue[h] : queue'[h][i] = queue[h][i]
<1>1. queue[h] \in Seq(Cmds) /\ queue'[h] = Append(queue[h], c)
  BY DEF TypeOK, Send
<1>2. \A g \in Hosts \ {h} : queue'[g] = queue[g]
  BY DEF TypeOK, Send
<1> QED BY <1>1, <1>2

LEMMA TalkSent ==
  ASSUME TypeOK, IndInv, InOrder, Settled, NEW c \in Cmds, c.type \in TalkTypes,
         Send(doc.host, c), UNCHANGED <<work, pane, file, stores, tasks, requests>>,
         NothingLost' => NothingLost,
         doc'.host = doc.host, doc'.phase \in {doc.phase, "none"}
  PROVE  InOrder'
<1>1. doc.host \in Hosts
  BY DEF TypeOK, Docs
<1>2. \A g \in Hosts : \A i \in DOMAIN queue'[g] :
        \/ i \in DOMAIN queue[g] /\ queue'[g][i] = queue[g][i]
        \/ g = doc.host /\ queue'[g][i] = c
  <2> SUFFICES ASSUME NEW g \in Hosts, NEW i \in DOMAIN queue'[g]
               PROVE  \/ i \in DOMAIN queue[g] /\ queue'[g][i] = queue[g][i]
                      \/ g = doc.host /\ queue'[g][i] = c
    OBVIOUS
  <2>1. CASE g # doc.host
    BY <1>1, <2>1, AppendFacts
  <2>2. CASE g = doc.host
    BY <1>1, <2>2, AppendFacts
  <2> QED BY <2>1, <2>2
<1>3. \A g \in Hosts : \A i \in DOMAIN queue[g] : queue[g][i].type \in TalkTypes
  BY SettledIsQuiet, QuietFacts
<1>4. \A g \in Hosts : \A i \in DOMAIN queue'[g] : queue'[g][i].type \in TalkTypes
  BY <1>2, <1>3
<1>5. \A g \in Hosts : Queued(g, TalkTypes)' => g = doc.host
  <2> SUFFICES ASSUME NEW g \in Hosts, NEW i \in DOMAIN queue'[g] PROVE g = doc.host
    BY DEF Queued, Waiting
  <2>1. ASSUME i \in DOMAIN queue[g] PROVE Queued(g, TalkTypes)
    BY <1>3, <2>1, EntryFacts
  <2> QED BY <1>2, <2>1 DEF InOrder, TalkAside
<1>6. \A g \in Hosts : Queued(g, {"input"})' \/ waking'[g] > 0 => requests' = {} /\ g = doc.host
  <2>1. \A g \in Hosts : Queued(g, {"input"})' => Queued(g, TalkTypes)'
    BY DEF Queued, TalkTypes
  <2>2. requests' = {}
    BY SettledIsQuiet
  <2>3. \A g \in Hosts : waking'[g] > 0 => g = doc.host
    BY DEF InOrder, TalkAside, tasks
  <2> QED BY <1>5, <2>1, <2>2, <2>3
<1>7. \A r, q \in requests' : r = q /\ r.from = doc.host
  BY SettledIsQuiet
<1> QED BY <1>4, <1>5, <1>6, <1>7, SettledIsQuiet, QuietStep DEF stores, tasks

LEMMA ClientKeepsOrder ==
  ASSUME TypeOK, IndInv, InOrder, Client, "haste" \notin mishaps'
  PROVE  InOrder'
<1> USE Bounds
<1>1. doc \in Docs /\ doc.host \in Hosts /\ spent \in Spent
  BY DEF TypeOK, Docs
<1>a. ASSUME NEW until, Waits(until) PROVE until /\ mishaps' = mishaps
  BY <1>a DEF Waits, Befalls
<1>b. ASSUME NEW k \in {"moves", "resumes", "inputs"}, NEW max, Spend(k, max), mishaps' = mishaps
      PROVE  NothingLost' => NothingLost
  BY <1>1, <1>b DEF Spend, Spent, NothingLost
<1>2. ASSUME NEW to \in Hosts, MoveRequest(to) PROVE InOrder'
  <2>0. Delivered /\ mishaps' = mishaps
    BY <1>2, <1>a DEF MoveRequest
  <2>1. /\ Settled /\ \A g \in Hosts : ~Queued(g, {"input"}) /\ waking[g] = 0
        /\ requests' = requests \cup {[from |-> doc.host, to |-> to]}
        /\ UNCHANGED <<doc, stores, hosted, queue, work, tasks>>
    BY <1>2, <2>0 DEF MoveRequest, Delivered, mongo
  <2>2. NothingLost' => NothingLost
    BY <1>2, <1>b, <2>0 DEF MoveRequest
  <2>3. requests' = {[from |-> doc.host, to |-> to]}
    BY <2>1, SettledIsQuiet
  <2>4. \A g \in Hosts : Queued(g, {"input"})' \/ waking'[g] > 0 => FALSE
    BY <2>1 DEF Queued, Waiting, tasks
  <2>5. \A g \in Hosts : Queued(g, TalkTypes)' => g = doc.host
    BY <2>1 DEF Queued, Waiting, InOrder, TalkAside
  <2>6. \A g \in Hosts : \A i \in DOMAIN queue'[g] : queue'[g][i].type \in TalkTypes
    BY <2>1, SettledIsQuiet, QuietFacts
  <2> QED BY <2>1, <2>2, <2>3, <2>4, <2>5, <2>6, SettledIsQuiet, QuietStep DEF stores, hosted, tasks
<1>3. CASE Resume
  <2> PICK c : c = Cmd("resume", doc.host, doc.host, 0)
    OBVIOUS
  <2>1. c \in Cmds /\ c.type \in TalkTypes
    BY <1>1, CmdType DEF TalkTypes
  <2>2. /\ Settled /\ Send(doc.host, c) /\ UNCHANGED <<stores, hosted, work, tasks, requests>>
        /\ NothingLost' => NothingLost
    <3>1. Settled /\ mishaps' = mishaps
      BY <1>3, <1>a DEF Resume
    <3>2. NothingLost' => NothingLost
      BY <1>3, <1>b, <3>1 DEF Resume
    <3> QED BY <1>3, <3>1, <3>2 DEF Resume
  <2>3. doc'.host = doc.host /\ doc'.phase \in {doc.phase, "none"}
    BY <1>1, <1>3, DocType DEF Resume, Phases
  <2> QED BY <2>1, <2>2, <2>3, TalkSent DEF hosted
<1>4. CASE Input
  <2> PICK c : c = Cmd("input", doc.host, doc.host, 0)
    OBVIOUS
  <2>1. c \in Cmds /\ c.type \in TalkTypes
    BY <1>1, CmdType DEF TalkTypes
  <2>2. /\ Settled /\ Send(doc.host, c) /\ UNCHANGED <<doc, stores, hosted, work, tasks, requests>>
        /\ NothingLost' => NothingLost
    <3>1. Settled /\ mishaps' = mishaps
      BY <1>4, <1>a DEF Input
    <3>2. NothingLost' => NothingLost
      BY <1>4, <1>b, <3>1 DEF Input
    <3> QED BY <1>4, <3>1, <3>2 DEF Input, mongo
  <2> QED BY <2>1, <2>2, TalkSent DEF hosted
<1>5. CASE GrowStale
  <2>1. UNCHANGED <<stores, hosted, queue, work, tasks, outer>>
    BY <1>5 DEF GrowStale
  <2>2. /\ doc'.host = doc.host /\ doc'.target = doc.target
        /\ doc'.phase = doc.phase /\ doc'.tid = doc.tid
    BY <1>1, <1>5 DEF GrowStale, Docs
  <2>3. Aside
    BY <2>1, <2>2 DEF Aside, NothingLost, stores, tasks, outer
  <2> QED BY <2>1, <2>3, AsideStep DEF hosted, stores
<1> QED BY <1>2, <1>3, <1>4, <1>5 DEF Client

\* The API writes the move it validated, and nobody else is at work on the session.
LEMMA AcceptKeepsOrder ==
  ASSUME TypeOK, IndInv, InOrder, NEW r \in requests, MoveAccept(r)
  PROVE  InOrder'
<1> PICK s : s = doc.host
  OBVIOUS
<1> PICK c : c = Cmd("move_out", r.from, r.to, 0)
  OBVIOUS
<1> PICK n : n = Len(queue[s]) + 1
  OBVIOUS
<1>1. /\ s \in Hosts /\ r.from = s /\ r.to \in Hosts /\ requests = {r}
      /\ \A g \in Hosts : ~Queued(g, MoveTypes)
  <2>1. s \in Hosts /\ r.from \in Hosts /\ r.to \in Hosts
    BY DEF TypeOK, Docs
  <2> QED BY <2>1 DEF InOrder, OneMove
<1>2. c \in Cmds /\ c.type = "move_out" /\ c.to = r.to
  BY <1>1, CmdType, Bounds
<1>3. requests' = {} /\ UNCHANGED <<work, pane, file, parcel, waking, spent>>
  BY <1>1 DEF MoveAccept, stores, hosted, tasks
<1>4. doc'.host = s /\ doc'.target = r.to /\ doc'.phase = "exporting"
  BY DEF MoveAccept, TypeOK, Docs
<1>5. /\ \A g \in Hosts : ~Committing(g) /\ work[g].at \in {"idle", "ack"}
      /\ \A t \in Tids : ~Carried(t)
      /\ \A g \in Hosts : \A i \in DOMAIN queue[g] : queue[g][i].type \in TalkTypes
  BY <1>1, QuietFacts
<1>11. \A g \in Hosts : ~Queued(g, {"input"}) /\ ~(waking[g] > 0)
  <2>1. ~Settled
    BY SettledIsQuiet
  <2> QED BY <2>1 DEF InOrder, TalkAside
<1>0. CASE Befalls("lost") /\ UNCHANGED queue
  <2>1. ~NothingLost'
    BY <1>0 DEF Befalls, NothingLost
  <2>2. \A g \in Hosts : ~Queued(g, {"input"})' /\ ~(waking'[g] > 0)
    BY <1>0, <1>3, <1>11 DEF Queued, Waiting
  <2>3. \A g \in Hosts : Queued(g, TalkTypes)' => g = doc.host
    BY <1>0 DEF Queued, Waiting, InOrder, TalkAside
  <2> QED BY <1>0, <1>1, <1>3, <1>4, <1>5, <2>1, <2>2, <2>3, QuietStep
<1> SUFFICES ASSUME Send(s, c), UNCHANGED mishaps PROVE InOrder'
  BY <1>0, <1>1 DEF MoveAccept
<1>6. /\ \A g \in Hosts \ {s} : queue'[g] = queue[g]
      /\ n \in DOMAIN queue'[s] /\ n = Len(queue'[s]) /\ queue'[s][n] = c
      /\ \A i \in DOMAIN queue'[s] : i = n \/ (i \in DOMAIN queue[s] /\ queue'[s][i] = queue[s][i])
  <2>1. /\ \A g \in Hosts \ {s} : queue'[g] = queue[g]
        /\ Len(queue[s]) \in Nat /\ Len(queue'[s]) = Len(queue[s]) + 1
        /\ DOMAIN queue[s] = 1..Len(queue[s]) /\ DOMAIN queue'[s] = 1..(Len(queue[s]) + 1)
        /\ queue'[s][Len(queue[s]) + 1] = c
        /\ \A i \in DOMAIN queue[s] : queue'[s][i] = queue[s][i]
    BY <1>1, <1>2, <1>3, AppendFacts
  <2> QED BY <2>1
<1>7. Stage(s, n)' = "idle"
  <2>1. n = 1 => work[s].at = "idle"
    <3>1. SUFFICES ASSUME n = 1 PROVE queue[s] = <<>>
      BY <1>1 DEF IndInv, HeadInProgress
    <3> QED BY <1>1, <3>1, EntryFacts
  <2> QED BY <1>3, <2>1 DEF Stage
<1>8. \A g \in Hosts : \A i \in DOMAIN queue'[g] :
        \/ g = s /\ i = n
        \/ i \in DOMAIN queue[g] /\ queue'[g][i].type \in TalkTypes
  BY <1>5, <1>6
<1>9. \A g \in Hosts : \A i \in DOMAIN queue'[g] : queue'[g][i].type \in MoveTypes => g = s /\ i = n
  BY <1>8 DEF TalkTypes, MoveTypes
<1>10. OneMove'
  BY <1>2, <1>3, <1>6, <1>9 DEF OneMove, MoveTypes
<1>12. TalkAside'
  <2>1. \A g \in Hosts : Queued(g, TalkTypes)' => g = s
    <3> SUFFICES ASSUME NEW g \in Hosts, NEW i \in DOMAIN queue'[g], g # s PROVE FALSE
      BY DEF Queued, Waiting
    <3>1. i \in DOMAIN queue[g] /\ queue[g][i].type \in TalkTypes
      BY <1>6, <1>8
    <3>2. Queued(g, TalkTypes)
      BY <3>1, EntryFacts
    <3> QED BY <3>2 DEF InOrder, TalkAside
  <2>2. \A g \in Hosts : ~Queued(g, {"input"})' /\ ~(waking'[g] > 0)
    <3> SUFFICES ASSUME NEW g \in Hosts, NEW i \in DOMAIN queue'[g] PROVE queue'[g][i].type # "input"
      BY <1>3, <1>11 DEF Queued, Waiting
    <3>1. CASE g = s /\ i = n
      BY <1>2, <1>6, <3>1
    <3>2. CASE ~(g = s /\ i = n)
      <4>1. i \in DOMAIN queue[g] /\ queue'[g][i] = queue[g][i]
        BY <1>6, <3>2
      <4> QED BY <1>11, <4>1, EntryFacts
    <3> QED BY <3>1, <3>2
  <2>3. \A g \in Hosts : \A i \in DOMAIN queue'[g] :
          /\ queue'[g][i].type = "move_out" => i = Len(queue'[g])
          /\ queue'[g][i].type # "move_in"
    BY <1>2, <1>6, <1>9 DEF MoveTypes
  <2> QED BY <1>4, <2>1, <2>2, <2>3 DEF TalkAside, Leaving, Arriving
<1>13. OutUnderWay'
  <2>1. \A g \in Hosts : \A i \in DOMAIN queue'[g] : Leaving(g, i)' => g = s /\ i = n
    BY <1>9 DEF Leaving, MoveTypes
  <2> QED BY <1>2, <1>4, <1>6, <1>7, <2>1 DEF OutUnderWay, OutSteps
<1>14. InUnderWay'
  BY <1>2, <1>6, <1>9 DEF InUnderWay, Arriving, MoveTypes
<1>15. WithOwner'
  BY <1>3, <1>4, <1>5 DEF InOrder, WithOwner, Committing
<1>16. NothingLeft'
  <2>1. Leaving(s, n)' /\ Stage(s, n)' # "ack"
    BY <1>2, <1>4, <1>6, <1>7 DEF Leaving
  <2>2. NothingLost' => \A t \in Tids : parcel'[t] = "none"
    BY <1>3, <1>5 DEF InOrder, NothingLeft, NothingLost
  <2> QED BY <1>1, <1>4, <1>6, <2>1, <2>2 DEF NothingLeft
<1> QED BY <1>10, <1>12, <1>13, <1>14, <1>15, <1>16 DEF InOrder

\* A worker is done with a command, or gone: its queue is as it was or has lost its
\* head, and the rest moves up, idle.
LEMMA PopKeepsOrder ==
  ASSUME TypeOK, IndInv, InOrder, NEW h \in Hosts, ~Committing(h),
         work' = [work EXCEPT ![h] = Idle], UNCHANGED <<doc, pane, parcel, file, requests>>,
         UNCHANGED queue \/ (queue[h] # <<>> /\ queue' = [queue EXCEPT ![h] = Tail(@)]),
         \A g \in Hosts : waking'[g] > 0 => waking[g] > 0,
         NothingLost' => NothingLost /\ work[h].at = "ack"
  PROVE  InOrder'
<1>1. PICK k \in {0, 1} :
        \/ k = 0 /\ UNCHANGED queue
        \/ k = 1 /\ queue[h] # <<>> /\ queue' = [queue EXCEPT ![h] = Tail(@)]
  OBVIOUS
<1> DEFINE From(g, i) == IF g = h THEN i + k ELSE i
<1>2. work'[h].at = "idle" /\ \A g \in Hosts \ {h} : work'[g] = work[g] /\ queue'[g] = queue[g]
  BY <1>1 DEF TypeOK, Idle
<1>3. /\ queue[h] \in Seq(Cmds) /\ \A g \in Hosts : Waiting(g)' \subseteq Waiting(g)
      /\ \A g \in Hosts : Len(queue[g]) \in Nat /\ DOMAIN queue[g] = 1..Len(queue[g])
  <2>1. \A g \in Hosts : Waiting(g)' \subseteq Waiting(g)
    <3>1. CASE UNCHANGED queue
      BY <3>1 DEF Waiting
    <3>2. CASE queue[h] # <<>> /\ queue' = [queue EXCEPT ![h] = Tail(@)]
      BY <3>2, PopLeaves DEF TypeOK
    <3> QED BY <1>1, <3>1, <3>2
  <2> QED BY <2>1, EntryFacts DEF TypeOK
<1>4. k = 1 => /\ Len(queue[h]) \in Nat \ {0} /\ Len(queue'[h]) = Len(queue[h]) - 1
               /\ DOMAIN queue'[h] = 1..(Len(queue[h]) - 1)
               /\ \A i \in DOMAIN queue'[h] : queue'[h][i] = queue[h][i + 1]
  <2> SUFFICES ASSUME k = 1 PROVE /\ Len(queue[h]) \in Nat \ {0} /\ Len(queue'[h]) = Len(queue[h]) - 1
                                  /\ DOMAIN queue'[h] = 1..(Len(queue[h]) - 1)
                                  /\ \A i \in DOMAIN queue'[h] : queue'[h][i] = queue[h][i + 1]
    OBVIOUS
  <2>1. queue'[h] = Tail(queue[h]) /\ queue[h] # <<>>
    BY <1>1 DEF TypeOK
  <2>2. Len(queue[h]) \in Nat \ {0}
    BY <1>3, <2>1
  <2>3. /\ Len(Tail(queue[h])) = Len(queue[h]) - 1
        /\ DOMAIN Tail(queue[h]) = 1..(Len(queue[h]) - 1)
    BY <1>3, <2>1
  <2>4. ASSUME NEW i \in 1..(Len(queue[h]) - 1) PROVE Tail(queue[h])[i] = queue[h][i + 1]
    BY <1>3, <2>1, <2>2
  <2> QED BY <2>1, <2>2, <2>3, <2>4
<1>5. \A g \in Hosts : \A i \in DOMAIN queue'[g] :
        /\ i \in Nat /\ From(g, i) \in DOMAIN queue[g] /\ queue'[g][i] = queue[g][From(g, i)]
        /\ From(g, i) = Len(queue[g]) => i = Len(queue'[g])
        /\ Stage(g, i)' # "idle" =>
             g # h /\ Stage(g, i)' = Stage(g, From(g, i)) /\ work'[g] = work[g]
        /\ Stage(g, From(g, i)) = "in_commit" => Stage(g, i)' = "in_commit"
  <2> SUFFICES ASSUME NEW g \in Hosts, NEW i \in DOMAIN queue'[g]
               PROVE  /\ i \in Nat /\ From(g, i) \in DOMAIN queue[g]
                      /\ queue'[g][i] = queue[g][From(g, i)]
                      /\ From(g, i) = Len(queue[g]) => i = Len(queue'[g])
                      /\ Stage(g, i)' # "idle" =>
                           g # h /\ Stage(g, i)' = Stage(g, From(g, i)) /\ work'[g] = work[g]
                      /\ Stage(g, From(g, i)) = "in_commit" => Stage(g, i)' = "in_commit"
    OBVIOUS
  <2>1. CASE g # h
    BY <1>2, <1>3, <2>1 DEF Stage
  <2>2. CASE g = h
    <3>1. i \in Nat /\ From(h, i) \in DOMAIN queue[h] /\ queue'[h][i] = queue[h][From(h, i)]
      <4>1. CASE k = 0
        BY <1>1, <1>3, <2>2, <4>1
      <4>2. CASE k = 1
        <5>1. i \in Nat /\ i + 1 \in 1..Len(queue[h])
          BY <1>4, <2>2, <4>2
        <5> QED BY <1>3, <1>4, <2>2, <4>2, <5>1
      <4> QED BY <4>1, <4>2
    <3>2. From(h, i) = Len(queue[h]) => i = Len(queue'[h])
      BY <1>1, <1>3, <1>4, <2>2, <3>1
    <3>3. Stage(h, i)' = "idle"
      BY <1>2 DEF Stage
    <3>4. Stage(h, From(h, i)) # "in_commit"
      BY DEF Stage, Committing
    <3> QED BY <2>2, <3>1, <3>2, <3>3, <3>4
  <2> QED BY <2>1, <2>2
<1>6. \A g \in Hosts : \A j \in DOMAIN queue[g] : NothingLost' /\ Stage(g, j) # "ack" =>
        \E i \in DOMAIN queue'[g] : queue'[g][i] = queue[g][j] /\ Stage(g, i)' = Stage(g, j)
  <2> SUFFICES ASSUME NEW g \in Hosts, NEW j \in DOMAIN queue[g], NothingLost', Stage(g, j) # "ack"
               PROVE  \E i \in DOMAIN queue'[g] : queue'[g][i] = queue[g][j] /\ Stage(g, i)' = Stage(g, j)
    OBVIOUS
  <2>1. CASE g = h
    <3>1. j # 1 /\ Stage(h, j) = "idle" /\ \A i : Stage(h, i)' = "idle"
      BY <1>2, <2>1 DEF Stage
    <3>2. j - k \in DOMAIN queue'[h] /\ queue'[h][j - k] = queue[h][j]
      <4>1. CASE k = 0
        BY <1>1, <1>3, <2>1, <4>1
      <4>2. CASE k = 1
        <5>1. j - 1 \in 1..(Len(queue[h]) - 1) /\ (j - 1) + 1 = j
          BY <1>3, <1>4, <2>1, <3>1, <4>2
        <5> QED BY <1>4, <4>2, <5>1
      <4> QED BY <4>1, <4>2
    <3> QED BY <2>1, <3>1, <3>2
  <2>2. CASE g # h
    BY <1>2, <2>2 DEF Stage
  <2> QED BY <2>1, <2>2
<1>x. \A g \in Hosts : \A i, j \in DOMAIN queue'[g] : From(g, i) = From(g, j) => i = j
  BY <1>5
<1> HIDE DEF From
<1>7. \A g \in Hosts : \A i \in DOMAIN queue'[g] :
        /\ Leaving(g, i)' => Leaving(g, From(g, i))
        /\ Arriving(g, i)' => Arriving(g, From(g, i))
        /\ Leaving(g, i)' /\ Stage(g, i)' = "idle" => doc.phase = "exporting"
        /\ Arriving(g, i)' /\ Stage(g, i)' = "idle" =>
             doc.phase = "importing" /\ doc.tid = queue'[g][i].tid
  BY <1>5 DEF Leaving, Arriving, OutSteps, InSteps
<1>8. \A types : \A g \in Hosts : Queued(g, types)' => Queued(g, types)
  BY <1>3 DEF Queued
<1>9. Settled => Settled'
  BY <1>8 DEF Settled
<1>10. OneMove'
  <2>1. requests' # {} => \A g \in Hosts : ~Queued(g, MoveTypes)'
    BY <1>8 DEF InOrder, OneMove
  <2>2. \A g, f \in Hosts : \A i \in DOMAIN queue'[g], j \in DOMAIN queue'[f] :
          LET a == queue'[g][i].type  b == queue'[f][j].type IN
          /\ a = b /\ a \in MoveTypes => g = f /\ i = j
          /\ a = "move_out" /\ b = "move_in" => ~Leaving(g, i)'
    <3> SUFFICES ASSUME NEW g \in Hosts, NEW f \in Hosts,
                        NEW i \in DOMAIN queue'[g], NEW j \in DOMAIN queue'[f]
                 PROVE  /\ queue'[g][i].type = queue'[f][j].type /\ queue'[g][i].type \in MoveTypes =>
                             g = f /\ i = j
                        /\ queue'[g][i].type = "move_out" /\ queue'[f][j].type = "move_in" =>
                             ~Leaving(g, i)'
      OBVIOUS
    <3>1. From(g, i) \in DOMAIN queue[g] /\ queue'[g][i] = queue[g][From(g, i)]
      BY <1>5
    <3>2. From(f, j) \in DOMAIN queue[f] /\ queue'[f][j] = queue[f][From(f, j)]
      BY <1>5
    <3>3. g = f /\ From(g, i) = From(f, j) => i = j
      BY <1>x
    <3> QED BY <1>7, <3>1, <3>2, <3>3 DEF InOrder, OneMove
  <2> QED BY <2>1, <2>2 DEF InOrder, OneMove
<1>11. TalkAside'
  <2>1. \A g \in Hosts : Queued(g, TalkTypes)' => g = doc'.host
    BY <1>8 DEF InOrder, TalkAside
  <2>2. \A g \in Hosts : Queued(g, {"input"})' \/ waking'[g] > 0 => Settled' /\ g = doc'.host
    BY <1>8, <1>9 DEF InOrder, TalkAside
  <2>3. \A g \in Hosts : \A i \in DOMAIN queue'[g] :
          /\ Leaving(g, i)' => i = Len(queue'[g])
          /\ Arriving(g, i)' => \A f \in Hosts : ~Queued(f, TalkTypes)'
    BY <1>5, <1>7, <1>8 DEF InOrder, TalkAside
  <2> QED BY <2>1, <2>2, <2>3 DEF TalkAside
<1>12. NoAgent' <=> NoAgent
  BY DEF NoAgent
<1>13. OutUnderWay'
  <2> SUFFICES ASSUME NEW g \in Hosts, NEW i \in DOMAIN queue'[g], Leaving(g, i)'
               PROVE  LET step == Stage(g, i)' IN
                      /\ doc.host = g /\ doc.target = queue'[g][i].to
                      /\ IF step \in {"out_publish", "out_rollback"}
                           THEN doc.phase \in {"exporting", "importing"} ELSE doc.phase = "exporting"
                      /\ step \in OutSteps \ {"out_git"} => NoAgent
                      /\ step \in {"out_handover", "out_publish"} => parcel[work'[g].tid] = "full"
                      /\ step = "out_publish" => doc.phase = "importing" /\ doc.tid = work'[g].tid
    BY <1>12 DEF OutUnderWay
  <2>1. /\ From(g, i) \in DOMAIN queue[g] /\ queue'[g][i] = queue[g][From(g, i)]
        /\ Leaving(g, From(g, i))
    BY <1>5, <1>7
  <2>2. LET step == Stage(g, From(g, i)) IN
        /\ doc.host = g /\ doc.target = queue'[g][i].to
        /\ IF step \in {"out_publish", "out_rollback"}
             THEN doc.phase \in {"exporting", "importing"} ELSE doc.phase = "exporting"
        /\ step \in OutSteps \ {"out_git"} => NoAgent
        /\ step \in {"out_handover", "out_publish"} => parcel[work[g].tid] = "full"
        /\ step = "out_publish" => doc.phase = "importing" /\ doc.tid = work[g].tid
    BY <2>1 DEF InOrder, OutUnderWay
  <2>3. CASE Stage(g, i)' = "idle"
    BY <1>7, <2>2, <2>3 DEF OutSteps
  <2>4. CASE Stage(g, i)' # "idle"
    <3>1. Stage(g, i)' = Stage(g, From(g, i)) /\ work'[g] = work[g]
      BY <1>5, <2>4
    <3> QED BY <2>2, <3>1
  <2> QED BY <2>3, <2>4
<1>14. InUnderWay'
  <2> SUFFICES ASSUME NEW g \in Hosts, NEW i \in DOMAIN queue'[g], Arriving(g, i)'
               PROVE  LET c == queue'[g][i]  step == Stage(g, i)' IN
                      /\ doc.host = c.from /\ step # "in_clean"
                      /\ IF step = "in_giveback" THEN doc.phase = "failed"
                         ELSE doc.phase = "importing" /\ doc.tid = c.tid
                      /\ IF step = "in_commit"
                           THEN file[g] = "full" /\ \A f \in Hosts \ {g} : pane[f] # "agent"
                         ELSE NoAgent
                      /\ step \notin {"in_commit", "in_giveback"} => parcel[c.tid] = "full"
    BY <1>12 DEF InUnderWay
  <2>1. /\ From(g, i) \in DOMAIN queue[g] /\ queue'[g][i] = queue[g][From(g, i)]
        /\ Arriving(g, From(g, i))
    BY <1>5, <1>7
  <2>2. LET c == queue'[g][i]  step == Stage(g, From(g, i)) IN
        /\ doc.host = c.from /\ step # "in_clean"
        /\ IF step = "in_giveback" THEN doc.phase = "failed"
           ELSE doc.phase = "importing" /\ doc.tid = c.tid
        /\ IF step = "in_commit"
             THEN file[g] = "full" /\ \A f \in Hosts \ {g} : pane[f] # "agent"
           ELSE NoAgent
        /\ step \notin {"in_commit", "in_giveback"} => parcel[c.tid] = "full"
    BY <2>1 DEF InOrder, InUnderWay
  <2>3. CASE Stage(g, i)' = "idle"
    <3>1. doc.phase = "importing" /\ doc.tid = queue'[g][i].tid
      BY <1>7, <2>3
    <3>2. Stage(g, From(g, i)) \notin {"in_commit", "in_giveback"}
      BY <1>5, <2>2, <2>3, <3>1
    <3> QED BY <2>2, <2>3, <3>1, <3>2
  <2>4. CASE Stage(g, i)' # "idle"
    <3>1. Stage(g, i)' = Stage(g, From(g, i))
      BY <1>5, <2>4
    <3> QED BY <2>2, <3>1
  <2> QED BY <2>3, <2>4
<1>15. \A g \in Hosts : Committing(g)' <=> Committing(g)
  BY <1>2 DEF Committing
<1>16. WithOwner'
  BY <1>15 DEF InOrder, WithOwner
<1>17. NothingLeft'
  <2> SUFFICES ASSUME NothingLost' PROVE NothingLeft'
    BY DEF NothingLeft
  <2>1. ASSUME NEW g \in Hosts, NEW j \in DOMAIN queue[g], Stage(g, j) # "ack"
        PROVE  \E i \in DOMAIN queue'[g] :
                 /\ queue'[g][i].tid = queue[g][j].tid /\ Stage(g, i)' = Stage(g, j)
                 /\ (Leaving(g, i)' <=> Leaving(g, j)) /\ (Arriving(g, i)' <=> Arriving(g, j))
    <3>1. PICK i \in DOMAIN queue'[g] : queue'[g][i] = queue[g][j] /\ Stage(g, i)' = Stage(g, j)
      BY <1>6, <2>1
    <3> QED BY <3>1 DEF Leaving, Arriving
  <2>2. \A t \in Tids : Carried(t) => Carried(t)'
    <3> SUFFICES ASSUME NEW t \in Tids, NEW g \in Hosts,
                        \/ Carries(g, t)
                        \/ \E j \in DOMAIN queue[g] :
                             /\ queue[g][j].tid = t /\ Stage(g, j) # "ack"
                             /\ Arriving(g, j) \/ Stage(g, j) = "in_clean"
                 PROVE  Carried(t)'
      BY DEF Carried
    <3>1. CASE Carries(g, t)
      <4>1. g # h
        BY <3>1 DEF Carries
      <4> QED BY <1>2, <3>1, <4>1 DEF Carries, Carried
    <3>2. ASSUME NEW j \in DOMAIN queue[g], queue[g][j].tid = t, Stage(g, j) # "ack",
                 Arriving(g, j) \/ Stage(g, j) = "in_clean"
          PROVE  Carried(t)'
      <4>1. PICK i \in DOMAIN queue'[g] :
              /\ queue'[g][i].tid = t /\ Stage(g, i)' = Stage(g, j)
              /\ Arriving(g, i)' <=> Arriving(g, j)
        BY <2>1, <3>2
      <4> QED BY <3>2, <4>1 DEF Carried
    <3> QED BY <3>1, <3>2
  <2>3. \A g \in Hosts : work[g].at = "out_publish" => work'[g].at = "out_publish"
    BY <1>2
  <2>4. /\ doc.phase = "exporting" =>
             \E g \in Hosts : \E i \in DOMAIN queue[g] : Leaving(g, i) /\ Stage(g, i) # "ack"
        /\ doc.phase = "importing" =>
             \E g \in Hosts :
               \/ work[g].at = "out_publish"
               \/ \E i \in DOMAIN queue[g] : Arriving(g, i) /\ Stage(g, i) # "ack"
        /\ \A t \in Tids : parcel[t] # "none" => Carried(t)
    BY DEF InOrder, NothingLeft
  <2>5. doc.phase = "exporting" =>
          \E g \in Hosts : \E i \in DOMAIN queue'[g] : Leaving(g, i)' /\ Stage(g, i)' # "ack"
    BY <2>1, <2>4
  <2>6. doc.phase = "importing" =>
          \E g \in Hosts :
            \/ work'[g].at = "out_publish"
            \/ \E i \in DOMAIN queue'[g] : Arriving(g, i)' /\ Stage(g, i)' # "ack"
    BY <2>1, <2>3, <2>4
  <2> QED BY <2>2, <2>4, <2>5, <2>6 DEF NothingLeft
<1> QED BY <1>10, <1>11, <1>13, <1>14, <1>16, <1>17 DEF InOrder

\* The command ends, the worker dies, or the command expired in its queue.
LEMMA EndsKeepOrder ==
  ASSUME TypeOK, IndInv, InOrder, NEW h \in Hosts, Ack(h) \/ Crash(h) \/ Expire(h),
         "stranded" \notin mishaps'
  PROVE  InOrder'
<1>1. CASE Ack(h)
  <2>1. /\ work[h].at = "ack" /\ queue[h] # <<>> /\ queue' = [queue EXCEPT ![h] = Tail(@)]
        /\ work' = [work EXCEPT ![h] = Idle]
        /\ UNCHANGED <<doc, pane, parcel, file, requests, waking, spent, mishaps>>
    BY <1>1 DEF Ack, At, mongo, stores, hosted, tasks, outer
  <2>2. NothingLost' => NothingLost
    BY <2>1 DEF NothingLost
  <2>3. ~Committing(h)
    BY <2>1 DEF Committing
  <2> QED BY <2>1, <2>2, <2>3, PopKeepsOrder
<1>2. CASE Crash(h)
  <2>1. /\ work' = [work EXCEPT ![h] = Idle] /\ waking' = [waking EXCEPT ![h] = 0]
        /\ UNCHANGED queue \/ (queue[h] # <<>> /\ queue' = [queue EXCEPT ![h] = Tail(@)])
        /\ UNCHANGED <<doc, pane, parcel, file, requests>>
    BY <1>2 DEF Crash, mongo, stores, hosted
  <2>2. ~Committing(h)
    BY <1>2 DEF Crash, Befalls
  <2>3. ~NothingLost'
    <3>1. spent \in Spent
      BY DEF TypeOK
    <3>2. spent["crashes"] \in Nat /\ spent'["crashes"] = spent["crashes"] + 1
      BY <1>2, <3>1 DEF Crash, Spend, Spent
    <3> QED BY <3>2 DEF NothingLost
  <2>4. \A g \in Hosts : waking'[g] > 0 => waking[g] > 0
    BY <2>1 DEF TypeOK
  <2> QED BY <2>1, <2>2, <2>3, <2>4, PopKeepsOrder
<1>3. CASE Expire(h)
  <2>1. /\ work[h].at = "idle" /\ queue[h] # <<>> /\ Goto(h, "ack")
        /\ UNCHANGED <<doc, pane, parcel, file, waking, queue, requests>>
    BY <1>3 DEF Expire, mongo, stores, hosted, tasks
  <2>2. ~NothingLost'
    <3>1. spent \in Spent
      BY DEF TypeOK
    <3>2. spent["expired"] \in Nat /\ spent'["expired"] = spent["expired"] + 1
      BY <1>3, <3>1 DEF Expire, Spend, Spent
    <3> QED BY <3>2 DEF NothingLost
  <2> QED BY <2>1, <2>2, DropKeepsOrder
<1> QED BY <1>1, <1>2, <1>3

\* The tasks that wake the session or type to it.
LEMMA TasksKeepOrder ==
  ASSUME TypeOK, IndInv, InOrder, NEW h \in Hosts, Wake(h) \/ SendWaiting(h)
  PROVE  InOrder'
<1>1. UNCHANGED <<queue, work, requests>> /\ (NothingLost' => NothingLost)
  BY DEF Wake, SendWaiting, outer, NothingLost
<1>2. \A t \in Tids : parcel'[t] # "none" => parcel[t] # "none"
  BY DEF Wake, SendWaiting, Turn, Behind
<1>3. CASE Wake(h)
  <2>1. waking[h] > 0 /\ Settled /\ h = doc.host
    BY <1>3 DEF Wake, InOrder, TalkAside
  <2>2. \A g \in Hosts : ~Committing(g)
    BY <2>1, QuietFacts, SettledIsQuiet
  <2>3. \A g \in Hosts : waking'[g] > 0 => waking[g] > 0
    BY <1>3, <2>1 DEF Wake, TypeOK
  <2>4. /\ doc'.host = doc.host /\ doc'.target = doc.target
        /\ doc'.phase = doc.phase /\ doc'.tid = doc.tid
    BY <1>3 DEF Wake, Relaunch, TypeOK, Docs
  <2>5. \A g \in Hosts : pane'[g] = pane[g] \/ (Settled /\ g = doc.host)
    BY <1>3, <2>1 DEF Wake, Relaunch, TypeOK
  <2>6. file'[h] = file[h]
    BY <1>3 DEF Wake, Turn
  <2>7. Aside
    BY <1>1, <1>2, <2>3, <2>4 DEF Aside
  <2> QED BY <1>1, <2>1, <2>2, <2>5, <2>6, <2>7, AsideStep
<1>4. CASE SendWaiting(h)
  <2>1. UNCHANGED <<doc, pane, waking>>
    BY <1>4 DEF SendWaiting
  <2>2. Aside
    BY <1>1, <1>2, <2>1 DEF Aside
  <2>3. CASE pane[h] = "agent"
    <3>1. file'[h] = file[h]
      BY <1>4, <2>3 DEF SendWaiting, Turn
    <3>2. \A g \in Hosts : Committing(g) => g = h
      <4> SUFFICES ASSUME NEW g \in Hosts, Committing(g), g # h PROVE FALSE
        OBVIOUS
      <4>1. work[g].at = "in_commit" /\ queue[g] # <<>> /\ Arriving(g, 1)
        BY InIsArriving DEF Committing, InSteps
      <4> QED BY <2>3, <4>1, InFacts
    <3>3. doc.host = h \/ Committing(h)
      BY <2>3 DEF InOrder, WithOwner
    <3>4. ~NoAgent
      BY <2>3 DEF NoAgent
    <3>5. \A g \in Hosts : file[g] = "full" /\ (Committing(g) \/ (g = doc.host /\ \A k \in Hosts : ~Committing(k)))
            => file'[g] = "full"
      BY <3>1, <3>2, <3>3
    <3> QED BY <1>1, <2>1, <2>2, <3>4, <3>5, AsideStep
  <2>4. CASE pane[h] # "agent"
    <3>1. UNCHANGED <<file, parcel>>
      BY <1>4, <2>4 DEF SendWaiting
    <3> QED BY <1>1, <2>1, <2>2, <3>1, AsideStep
  <2> QED BY <2>3, <2>4
<1> QED BY <1>3, <1>4

\* Discovery writes the session's status and its own twin documents, no more.
LEMMA DiscoveryKeepsOrder ==
  ASSUME TypeOK, IndInv, InOrder, NEW h \in Hosts,
         DiscoveryList(h) \/ DiscoverySees(h) \/ DiscoveryMisses(h)
  PROVE  InOrder'
<1>1. UNCHANGED <<queue, work, requests, pane, file, parcel, waking>> /\ (NothingLost' => NothingLost)
  BY DEF DiscoveryList, DiscoverySees, DiscoveryMisses, mongo, stores, hosted, outer, NothingLost
<1>2. /\ doc'.host = doc.host /\ doc'.target = doc.target
      /\ doc'.phase = doc.phase /\ doc'.tid = doc.tid
  BY DEF DiscoveryList, DiscoverySees, DiscoveryMisses, mongo, TypeOK, Docs
<1>3. Aside
  BY <1>1, <1>2 DEF Aside
<1> QED BY <1>1, <1>3, AsideStep

LEMMA InOrderInit == Init => InOrder
<1> SUFFICES ASSUME Init PROVE InOrder
  OBVIOUS
<1>1. \A h \in Hosts : queue[h] = <<>> /\ DOMAIN queue[h] = {}
  <2> TAKE h \in Hosts
  <2>1. queue[h] = <<>>
    BY DEF Init
  <2>2. DOMAIN queue[h] = 1..Len(queue[h])
    BY TypeInit, EntryFacts
  <2> QED BY <2>1, <2>2
<1>2. \A types : \A h \in Hosts : ~Queued(h, types)
  BY <1>1 DEF Queued, Waiting
<1>3. OneMove /\ OutUnderWay /\ InUnderWay
  BY <1>1 DEF Init, OneMove, OutUnderWay, InUnderWay
<1>4. TalkAside
  BY <1>1, <1>2 DEF Init, TalkAside
<1>5. WithOwner
  BY Bounds DEF Init, WithOwner
<1>6. NothingLeft
  BY DEF Init, NothingLeft
<1> QED BY <1>3, <1>4, <1>5, <1>6 DEF InOrder

\* What went wrong stays on record.
LEMMA MishapsStay ==
  ASSUME TypeOK, [Next]_vars
  PROVE  mishaps \subseteq mishaps' /\ (NothingLost' => NothingLost)
<1>1. mishaps \subseteq mishaps'
  BY DEF Next, Client, MoveRequest, Resume, Input, GrowStale, MoveAccept, Consume, MoveOut, MoveIn,
     TakeMoveOut, MoveOutRefuse, MoveOutStop, MoveOutExport, MoveOutHandOver, MoveOutPublish,
     MoveOutRollback, TakeMoveIn, MoveInPrepare, MoveInImport, MoveInImportFails, MoveInCommit,
     MoveInCollide, MoveInCancelled, MoveInClean, MoveInFail, MoveInGiveBack, TakeResume,
     TakeInput, Ack, Wake, SendWaiting, Expire, Crash, DiscoveryList, DiscoverySees,
     DiscoveryMisses, Waits, Befalls, outer, vars
<1>2. \/ UNCHANGED spent
      \/ \E k \in {"moves", "resumes", "inputs", "expired", "crashes"} :
           spent' = [spent EXCEPT ![k] = @ + 1]
  BY DEF Next, Client, MoveRequest, Resume, Input, GrowStale, MoveAccept, Consume, MoveOut, MoveIn,
     TakeMoveOut, MoveOutRefuse, MoveOutStop, MoveOutExport, MoveOutHandOver, MoveOutPublish,
     MoveOutRollback, TakeMoveIn, MoveInPrepare, MoveInImport, MoveInImportFails, MoveInCommit,
     MoveInCollide, MoveInCancelled, MoveInClean, MoveInFail, MoveInGiveBack, TakeResume,
     TakeInput, Ack, Wake, SendWaiting, Expire, Crash, DiscoveryList, DiscoverySees,
     DiscoveryMisses, Spend, outer, vars
<1>3. \A k \in {"expired", "crashes"} : spent[k] \in Nat /\ (spent'[k] = 0 => spent[k] = 0)
  BY <1>2 DEF TypeOK, Spent
<1> QED BY <1>1, <1>3 DEF NothingLost

LEMMA InOrderStep ==
  ASSUME TypeOK, IndInv, InOrder, [Next]_vars, Undisturbed'
  PROVE  InOrder'
<1>0. /\ NothingLost' => NothingLost
      /\ "haste" \notin mishaps' /\ "doubled" \notin mishaps' /\ "stranded" \notin mishaps'
  BY MishapsStay DEF Undisturbed
<1>1. CASE UNCHANGED vars
  <2>1. UNCHANGED <<doc, parcel, pane, file, queue, work, waking, requests>>
    BY <1>1 DEF vars, mongo, stores, hosted, tasks, outer
  <2>2. Aside
    BY <1>0, <2>1 DEF Aside
  <2> QED BY <2>1, <2>2, AsideStep
<1>2. CASE Client
  BY <1>0, <1>2, ClientKeepsOrder
<1>3. ASSUME NEW r \in requests, MoveAccept(r) PROVE InOrder'
  BY <1>3, AcceptKeepsOrder
<1>4. ASSUME NEW h \in Hosts, Consume(h) PROVE InOrder'
  BY <1>0, <1>4, MoveOutKeepsOrder, MoveInKeepsOrder, TalkKeepsOrder, EndsKeepOrder DEF Consume
<1>5. ASSUME NEW h \in Hosts, Wake(h) \/ SendWaiting(h) \/ Expire(h) \/ Crash(h) PROVE InOrder'
  BY <1>0, <1>5, TasksKeepOrder, EndsKeepOrder
<1>6. ASSUME NEW h \in Hosts, DiscoveryList(h) \/ DiscoverySees(h) \/ DiscoveryMisses(h)
      PROVE  InOrder'
  BY <1>6, DiscoveryKeepsOrder
<1> QED BY <1>1, <1>2, <1>3, <1>4, <1>5, <1>6 DEF Next

\* Until a client acts in haste, a hand-over that raised arrives all the same, or a
\* worker leaves the agent of a move it has not committed: whatever crashes, losses,
\* expiries, failures and discovery do, one move at a time is under way and has
\* left, at each step, what the next one needs.
THEOREM MovesAreOrderly == Spec => []Orderly
<1>1. Init => Orderly
  BY InOrderInit DEF Orderly
<1>2. TypeOK /\ IndInv /\ Orderly /\ [Next]_vars => Orderly'
  <2> SUFFICES ASSUME TypeOK, IndInv, Orderly, [Next]_vars, Undisturbed' PROVE InOrder'
    BY DEF Orderly
  <2>1. Undisturbed
    BY MishapsStay DEF Undisturbed
  <2> QED BY <2>1, InOrderStep DEF Orderly
<1> QED BY <1>1, <1>2, Inductive, PTL DEF Spec

\* An agent runs where messages are sent, or where ownership is being taken.
LEMMA InOrderAgents ==
  ASSUME TypeOK, IndInv, InOrder
  PROVE  OneWriter /\ NoOrphanAgent
<1>1. ASSUME NEW g \in Hosts, NEW h \in Hosts, pane[g] = "agent", Committing(h)
      PROVE  g = h
  <2>1. work[h].at = "in_commit" /\ queue[h] # <<>> /\ Arriving(h, 1)
    BY <1>1, InIsArriving DEF Committing, InSteps
  <2> QED BY <1>1, <2>1, InFacts
<1>2. \A h \in Hosts : pane[h] = "agent" => doc.host = h \/ Committing(h)
  BY DEF InOrder, WithOwner
<1>3. OneWriter
  BY <1>1, <1>2 DEF OneWriter
<1>4. NoOrphanAgent
  <2>1. Settled => \A h \in Hosts : ~Committing(h)
    BY QuietFacts, SettledIsQuiet
  <2> QED BY <1>2, <2>1 DEF NoOrphanAgent
<1> QED BY <1>3, <1>4

\* One claude at a time writes the conversation, and once everything settled none
\* lives on but where messages are sent; crashes, lost publishes and discovery
\* included, until one of the three mishaps that really break it.
THEOREM OneAgentAtATime == Spec => []OneAgent
<1>1. TypeOK /\ IndInv /\ Orderly => OneAgent
  BY InOrderAgents DEF Orderly, OneAgent
<1> QED BY <1>1, MovesAreOrderly, Inductive, PTL

LEMMA InOrderSettles ==
  ASSUME TypeOK, IndInv, InOrder
  PROVE  KeepsEveryTurn /\ SettledIsOver
<1>1. ASSUME Settled PROVE /\ \A g \in Hosts : \A i \in DOMAIN queue[g] : queue[g][i].type \in TalkTypes
                           /\ \A g \in Hosts : ~Committing(g) /\ work[g].at \in {"idle", "ack"}
                           /\ \A t \in Tids : ~Carried(t)
  BY <1>1, QuietFacts, SettledIsQuiet
<1>2. KeepsEveryTurn
  BY <1>1 DEF KeepsEveryTurn, InOrder, WithOwner
<1>3. SettledIsOver
  <2> SUFFICES ASSUME Settled, NothingLost
               PROVE  doc.phase \in {"none", "failed"} /\ \A t \in Tids : parcel[t] = "none"
    BY DEF SettledIsOver
  <2>1. doc.phase # "exporting" /\ doc.phase # "importing"
    BY <1>1 DEF InOrder, NothingLeft, Leaving, Arriving, TalkTypes
  <2>2. \A t \in Tids : parcel[t] = "none"
    BY <1>1 DEF InOrder, NothingLeft
  <2> QED BY <2>1, <2>2 DEF TypeOK, Docs, Phases
<1> QED BY <1>2, <1>3

\* Whatever steps of the move failed, crashed or were lost, a settled session has
\* every turn on its host; and if nothing was lost, nothing is left of the move.
THEOREM SettledSessionIsWhole == Spec => []SettledIsWhole
<1>1. TypeOK /\ IndInv /\ Orderly => SettledIsWhole
  BY InOrderSettles DEF Orderly, SettledIsWhole
<1> QED BY <1>1, MovesAreOrderly, Inductive, PTL
=============================================================================
