-------------------------------- MODULE MCApi --------------------------------
(***************************************************************************)
(* The scheduler (EXTENDS) and what else the API serves: the events, the   *)
(* bridges of `sf command`, the commands to hosts and the demands, each an *)
(* instance of its module.  Parts do not read one another's state, so a    *)
(* behaviour is one of a single part, named by part, and the other parts   *)
(* stay as they begin.                                                     *)
(***************************************************************************)
EXTENDS MCSchedules

CONSTANTS
  Emitters, MaxFrames, QueueMax, MaxBackoff, MaxBreaks,   \* of the events
  h1, h2,                                                 \* their emitters in the run
  Callers, Names, Nobody, MaxCalls, MaxLives, MaxExits,   \* of the bridges
  c1, c2, n1, n2,                                         \* in the run
  Tools, Paths, MaxCommands, MaxErrors,                   \* of the commands to a host
  Clients, Demands_, Texts, NoText                        \* of the demands

ASSUME ApiAssumption ==
  /\ Names # {}
  /\ QueueMax \in Nat \ {0}
  /\ {MaxFrames, MaxBackoff, MaxBreaks, MaxCalls, MaxLives, MaxExits, MaxCommands, MaxErrors}
       \subseteq Nat

VARIABLES
  part,  \* the part that moves
  e_emits, e_stored, e_wire, e_api, e_stream, e_browser, e_spent,
  b_docs, b_shells, b_alive, b_calls, b_queue, b_due, b_spent,
  c_files, c_queue, c_work, c_processed, c_results, c_calls, c_beat, c_lost,
  c_spent,
  d_status, d_text, d_request, d_claims, d_given

E == INSTANCE Events WITH
  Emitters <- Emitters, MaxFrames <- MaxFrames, QueueMax <- QueueMax,
  MaxBackoff <- MaxBackoff, MaxFaults <- MaxBreaks, emits <- e_emits,
  stored <- e_stored, wire <- e_wire, api <- e_api, stream <- e_stream,
  browser <- e_browser, spent <- e_spent
B == INSTANCE Bridges WITH
  Callers <- Callers, Names <- Names, Nobody <- Nobody, MaxCalls <- MaxCalls,
  MaxLives <- MaxLives, MaxExits <- MaxExits, docs <- b_docs,
  shells <- b_shells, alive <- b_alive, calls <- b_calls, queue <- b_queue,
  due <- b_due, spent <- b_spent
C == INSTANCE HostCommands WITH
  Callers <- Tools, Paths <- Paths, MaxCommands <- MaxCommands,
  MaxFaults <- MaxErrors, files <- c_files, queue <- c_queue, work <- c_work,
  processed <- c_processed, results <- c_results, calls <- c_calls,
  beat <- c_beat, lost <- c_lost, spent <- c_spent
D == INSTANCE Demands WITH
  Clients <- Clients, Demands_ <- Demands_, Texts <- Texts, NoText <- NoText,
  status <- d_status, text <- d_text, request <- d_request, claims <- d_claims,
  given <- d_given

eventsVars == <<e_emits, e_stored, e_wire, e_api, e_stream, e_browser, e_spent>>
bridgesVars == <<b_docs, b_shells, b_alive, b_calls, b_queue, b_due, b_spent>>
commandsVars == <<c_files, c_queue, c_work, c_processed, c_results, c_calls,
                   c_beat, c_lost, c_spent>>
demandsVars == <<d_status, d_text, d_request, d_claims, d_given>>

all == <<part, vars, eventsVars, bridgesVars, commandsVars, demandsVars>>

Inits ==
  /\ part \in {"schedules", "events", "bridges", "commands", "demands"}
  /\ Init
  /\ E!Init
  /\ B!Init
  /\ C!Init /\ (part # "commands" => c_files = {})
  /\ D!Init

\* A step of one part, with which nothing else moves.
Of(p, Act) ==
  /\ part = p /\ Act /\ UNCHANGED part
  /\ p # "schedules" => UNCHANGED vars
  /\ p # "events" => UNCHANGED eventsVars
  /\ p # "bridges" => UNCHANGED bridgesVars
  /\ p # "commands" => UNCHANGED commandsVars
  /\ p # "demands" => UNCHANGED demandsVars
Schedules(Act) == Of("schedules", Act)
Events(Act) == Of("events", Act)
Bridges(Act) == Of("bridges", Act)
Commands(Act) == Of("commands", Act)
Demands(Act) == Of("demands", Act)

Nexts ==
  \/ Schedules(Next)
  \/ Events(E!Next)
  \/ Bridges(B!Next)
  \/ Commands(C!Next)
  \/ Demands(D!Next)

\* The fairness of each module.  part never changes, so that the steps of one
\* part or of another are treated fairly just when those of each are.
Loop1 ==
  \/ Schedules(Tick)
  \/ Events(E!Emit(h1))
  \/ Bridges(B!Tick)
  \/ Commands(C!Worker)
Loop2 ==
  \/ Schedules(Time)
  \/ Events(E!Emit(h2))
  \/ Bridges(B!Worker)
Loop3 ==
  \/ Schedules(Restart)
  \/ Events(E!Broker)
  \/ Bridges(B!Caller(c1))
Loop4 ==
  \/ Schedules(PatchWrite(u1))
  \/ Events(E!Source)
  \/ Bridges(B!Caller(c2))
Loop5 ==
  \/ Events(E!StreamSends)
  \/ Bridges(B!DiscoveryStops(n1))
Loop6 ==
  \/ Bridges(B!DiscoveryStops(n2))
Fair == WF_all(Loop1) /\ WF_all(Loop2) /\ WF_all(Loop3) /\ WF_all(Loop4) /\
        WF_all(Loop5) /\ WF_all(Loop6)

Behaviour == Inits /\ [][Nexts]_all /\ Fair

----------------------------------------------------------------------------
\* Every part keeps to its types.
PartsTypeOK ==
  /\ TypeOK
  /\ E!TypeOK
  /\ B!TypeOK
  /\ C!TypeOK
  /\ D!TypeOK

\* Properties of the parts, as their modules state them.
StreamServes == E!StreamServes
OneBridgeIsLeft == B!OneBridgeIsLeft
Answered == C!Answered
ClaimStands == D!ClaimStands
=============================================================================
