------------------------------ MODULE Bridges ------------------------------
(***************************************************************************)
(* The command bridges of one host: sessions whose pane is the host's      *)
(* shell, with no agent, which every `sf command <host>` is to reuse.      *)
(*                                                                         *)
(* A caller lists the sessions, creates a bridge if there is none, claims  *)
(* it and runs its command with a heartbeat.  The scheduler's tick makes a *)
(* list of the bridges that are to die (nobody used them for half an hour, *)
(* their owner is gone, another one is newer), and then removes each       *)
(* document by its id and publishes a delete by its name.  The worker does *)
(* what is published, in order.                                            *)
(*                                                                         *)
(* Which bridge was active last is not kept: callers reuse any, and any    *)
(* that is not idle outlives the others.  Services (keep_alive), aliases   *)
(* and what commands print are left out, and nothing published is lost.    *)
(***************************************************************************)
EXTENDS Naturals, Sequences, FiniteSets

CONSTANTS
  Callers,    \* sessions in which `sf command` is run
  Names,      \* names of bridges
  Nobody,     \* no owner
  MaxCalls,   \* calls of each
  MaxLives,   \* documents that bridges are given
  MaxExits    \* shells that exit, and callers that die

VARIABLES
  docs,    \* documents of bridges: status, id, owner, whether the TTL passed
  shells,  \* names with a pane
  alive,   \* callers whose session is alive
  calls,   \* the call of each caller: where it is, and with which bridge
  queue,   \* commands published to the host
  due,     \* what the tick has listed and not purged: names with ids
  spent

vars == <<docs, shells, alive, calls, queue, due, spent>>

NoDoc == [status |-> "none", id |-> 0, owner |-> Nobody, idle |-> FALSE]
Quiet == [at |-> "off", name |-> CHOOSE n \in Names : TRUE, id |-> 0]
Running == {n \in Names : docs[n].status = "running"}

TypeOK ==
  /\ docs \in [Names -> [status : {"none", "running", "stopped"}, id : 0..MaxLives,
                         owner : Callers \cup {Nobody}, idle : BOOLEAN]]
  /\ shells \subseteq Names /\ alive \subseteq Callers
  /\ calls \in [Callers -> [at : {"off", "create", "wait", "claim", "busy"},
                            name : Names, id : 0..MaxLives]]
  /\ queue \in Seq([op : {"create", "delete"}, name : Names])
  /\ due \subseteq (Names \X (1..MaxLives))
  /\ spent \in [calls : [Callers -> 0..MaxCalls], lives : 0..MaxLives, exits : 0..MaxExits]

Init ==
  /\ docs = [n \in Names |-> NoDoc] /\ shells = {} /\ alive = Callers
  /\ calls = [c \in Callers |-> Quiet]
  /\ queue = <<>> /\ due = {}
  /\ spent = [calls |-> [c \in Callers |-> 0], lives |-> 0, exits |-> 0]

Move(c, at, n, id) == calls' = [calls EXCEPT ![c] = [at |-> at, name |-> n, id |-> id]]
Publish(op, n) == queue' = Append(queue, [op |-> op, name |-> n])

(***************************************************************************)
(* sf command                                                              *)
(***************************************************************************)
\* _find_command_bridge: a running one, or else a name that is free.
CallerLists(c) ==
  /\ c \in alive /\ calls[c].at = "off" /\ spent.calls[c] < MaxCalls
  /\ spent' = [spent EXCEPT !.calls[c] = @ + 1]
  /\ \/ \E n \in Running : Move(c, "claim", n, docs[n].id)
     \/ Running = {} /\ \E n \in Names : Move(c, "create", n, 0)
  /\ UNCHANGED <<docs, shells, alive, queue, due>>

\* create_session refuses a second bridge of the host, and the caller takes the
\* one that is there; else a stopped document of that name loses its owner.
CallerCreates(c) ==
  /\ calls[c].at = "create"
  /\ \/ /\ \E n \in Running : Move(c, "claim", n, docs[n].id)
        /\ UNCHANGED <<docs, queue>>
     \/ /\ Running = {}
        /\ docs' = [docs EXCEPT ![calls[c].name].owner = Nobody]
        /\ Publish("create", calls[c].name)
        /\ Move(c, "wait", calls[c].name, 0)
  /\ UNCHANGED <<shells, alive, due, spent>>

\* wait_running: it came up, or the caller gives up.
CallerWaits(c) ==
  /\ calls[c].at = "wait"
  /\ \/ calls[c].name \in Running /\ Move(c, "claim", calls[c].name, docs[calls[c].name].id)
     \/ calls[c].name \notin Running /\ Move(c, "off", calls[c].name, 0)
  /\ UNCHANGED <<docs, shells, alive, queue, due, spent>>

\* set_bridge, which a document that is gone answers with 404.
Claimed(c) ==
  [n \in Names |-> IF docs[n].status # "none" /\ docs[n].id = calls[c].id
                   THEN [docs[n] EXCEPT !.owner = c, !.idle = FALSE] ELSE docs[n]]

CallerClaims(c) ==
  /\ calls[c].at = "claim"
  /\ docs' = Claimed(c)
  /\ Move(c, "busy", calls[c].name, calls[c].id)
  /\ UNCHANGED <<shells, alive, queue, due, spent>>

CallerBeats(c) ==
  /\ calls[c].at = "busy"
  /\ docs' = Claimed(c)
  /\ UNCHANGED <<shells, alive, calls, queue, due, spent>>

\* The command ended, or its time did.
CallerEnds(c) ==
  /\ calls[c].at = "busy"
  /\ Move(c, "off", calls[c].name, 0)
  /\ UNCHANGED <<docs, shells, alive, queue, due, spent>>

\* Its session ends, and what runs in it.
CallerDies(c) ==
  /\ c \in alive /\ spent.exits < MaxExits
  /\ spent' = [spent EXCEPT !.exits = @ + 1]
  /\ alive' = alive \ {c}
  /\ calls' = [calls EXCEPT ![c] = Quiet]
  /\ UNCHANGED <<docs, shells, queue, due>>

(***************************************************************************)
(* _command_bridges_tick: three queries, and then one bridge after another *)
(***************************************************************************)
Idle == {n \in Names : docs[n].status # "none" /\ docs[n].idle}
Ownerless == {n \in Names : docs[n].owner \notin alive \cup {Nobody}}
Newest == IF Running \ Idle = {} THEN Running ELSE Running \ Idle
DuplicatesOf(newest) == Running \ {newest}

ListDue(ns) == due' = {<<n, docs[n].id>> : n \in ns}

TickReads_NoDedupe ==
  /\ due = {}
  /\ Idle \cup Ownerless # {} /\ ListDue(Idle \cup Ownerless)
  /\ UNCHANGED <<docs, shells, alive, calls, queue, spent>>

TickReads ==
  /\ due = {}
  /\ \/ Running = {} /\ Idle \cup Ownerless # {} /\ ListDue(Idle \cup Ownerless)
     \/ \E newest \in Newest :
          /\ Idle \cup Ownerless \cup DuplicatesOf(newest) # {}
          /\ ListDue(Idle \cup Ownerless \cup DuplicatesOf(newest))
  /\ UNCHANGED <<docs, shells, alive, calls, queue, spent>>

TickPurges ==
  /\ \E d \in due :
       /\ due' = due \ {d}
       /\ docs' = [n \in Names |-> IF docs[n].id = d[2] THEN NoDoc ELSE docs[n]]
       /\ Publish("delete", d[1])
  /\ UNCHANGED <<shells, alive, calls, spent>>

(***************************************************************************)
(* The worker of the host, and what happens to shells                      *)
(***************************************************************************)
\* _handle_create: refused if the pane is there; the document is upserted by
\* its name, with no owner.
WorkerCreates ==
  /\ queue # <<>> /\ Head(queue).op = "create"
  /\ queue' = Tail(queue)
  /\ LET n == Head(queue).name
         new == docs[n].status = "none"
     IN \/ n \in shells /\ UNCHANGED <<docs, shells, spent>>
        \/ /\ n \notin shells
           /\ new => spent.lives < MaxLives
           /\ spent' = [spent EXCEPT !.lives = IF new THEN @ + 1 ELSE @]
           /\ shells' = shells \cup {n}
           /\ docs' = [docs EXCEPT ![n] =
                [status |-> "running", owner |-> Nobody, idle |-> FALSE,
                 id |-> IF new THEN spent.lives + 1 ELSE @.id]]
  /\ UNCHANGED <<alive, calls, due>>

\* _handle_delete: by the name, whatever document has it now.
WorkerDeletes ==
  /\ queue # <<>> /\ Head(queue).op = "delete"
  /\ queue' = Tail(queue)
  /\ shells' = shells \ {Head(queue).name}
  /\ docs' = [docs EXCEPT ![Head(queue).name] = NoDoc]
  /\ UNCHANGED <<alive, calls, due, spent>>

\* Half an hour without a claim or a heartbeat.
TtlPasses(n) ==
  /\ docs[n].status # "none" /\ ~docs[n].idle
  /\ \A c \in Callers : calls[c].at \in {"claim", "busy"} => calls[c].id # docs[n].id
  /\ docs' = [docs EXCEPT ![n].idle = TRUE]
  /\ UNCHANGED <<shells, alive, calls, queue, due, spent>>

ShellExits(n) ==
  /\ n \in shells /\ spent.exits < MaxExits
  /\ spent' = [spent EXCEPT !.exits = @ + 1]
  /\ shells' = shells \ {n}
  /\ UNCHANGED <<docs, alive, calls, queue, due>>

\* The cycle of discovery.
DiscoveryStops(n) ==
  /\ n \in Running \ shells
  /\ docs' = [docs EXCEPT ![n].status = "stopped"]
  /\ UNCHANGED <<shells, alive, calls, queue, due, spent>>

Caller(c) == CallerCreates(c) \/ CallerWaits(c) \/ CallerClaims(c) \/ CallerEnds(c)
Tick == TickReads \/ TickPurges
Worker == WorkerCreates \/ WorkerDeletes
Next == \/ \E c \in Callers : Caller(c) \/ CallerLists(c) \/ CallerBeats(c) \/ CallerDies(c)
        \/ Tick \/ Worker
        \/ \E n \in Names : TtlPasses(n) \/ ShellExits(n) \/ DiscoveryStops(n)
Spec == Init /\ [][Next]_vars
Fairness == /\ WF_vars(Tick) /\ WF_vars(Worker)
            /\ \A c \in Callers : WF_vars(Caller(c))
            /\ \A n \in Names : WF_vars(DiscoveryStops(n))
FairSpec == Spec /\ Fairness

\* "UMA ponte por host": whatever callers that listed at once have created, and
\* whoever dies, in the end at most one bridge is left, no dead session owns it
\* and every shell has its document.
OneBridgeIsLeft ==
  <>[](/\ Cardinality(Running) <= 1
       /\ Ownerless = {}
       /\ shells = Running)
=============================================================================
