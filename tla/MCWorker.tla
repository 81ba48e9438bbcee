------------------------------ MODULE MCWorker ------------------------------
(***************************************************************************)
(* The worker of a host: the sessions that it keeps (EXTENDS), the moves of*)
(* one between hosts, the agent in its terminal, the worktrees of its      *)
(* clones, and the process, the GPU services and the power of the host,    *)
(* each an instance of its module.  Parts do not read one another's state, *)
(* so a behaviour is one of a single part, named by part, and the other    *)
(* parts stay as they begin.                                               *)
(***************************************************************************)
EXTENDS MCSessionLifecycle

CONSTANTS
  h3,
  Patient, Discovers, MaxMoveCrashes,                     \* of the moves
  Providers, Claude, Wakers, MaxCommands, MaxLosses,      \* of a terminal
  w1, w2,                                                 \* its wakers in the run
  Cloners, MaxClones,                                     \* of the worktrees
  Grace, MaxBackoff, MaxOutages, MaxStalls, MaxErrors,    \* of the process
  MaxJobs, MaxPresses,                                    \* of the GPU and the power
  MaxFaults                                               \* of worktrees, GPU and power
ThreeHosts == {h1, h2, h3}

ASSUME WorkerAssumption ==
  /\ NoHost \notin ThreeHosts
  /\ Claude \in Providers
  /\ {Patient, Discovers} \subseteq BOOLEAN
  /\ Wakers \cap {"consumer", "switch"} = {}
  /\ IsFiniteSet(Cloners)
  /\ Grace \in Nat \ {0}
  /\ {MaxMoveCrashes, MaxCommands, MaxLosses, MaxCrashes, MaxClones, MaxBackoff, MaxOutages, MaxStalls,
      MaxErrors, MaxJobs, MaxPresses, MaxFaults} \subseteq Nat

VARIABLES
  part,  \* the part that moves
  m_doc, m_history, m_foreign, m_pane, m_file, m_parcel, m_lastTid, m_queue,
  m_work, m_waking, m_sending, m_listed, m_requests, m_spent,
  m_mishaps,
  t_pane, t_doc, t_typing, t_flow, t_seen, t_conversations, t_spent,
  w_docs, w_tmux, w_trees, w_branches, w_queue, w_step, w_cloners, w_spent,
  s_phase, s_consumer, s_misses, s_backoff, s_infra, s_stop, s_spent,
  g_on, g_used, g_conns, g_job, g_watch, g_spent,
  p_kind, p_loop, p_worker, p_sentinel, p_queue, p_doc, p_stop, p_spent

M == INSTANCE SessionMove WITH
  Hosts <- ThreeHosts, NoHost <- NoHost, Home <- h1, Reliable <- OneHost,
  Patient <- Patient, Discovery <- Discovers, LossyPublish <- LossyPublish,
  MaxTransfers <- 3, MaxMoves <- 3, MaxResumes <- 1, MaxInputs <- 1,
  MaxExpired <- 1, MaxCrashes <- MaxMoveCrashes, doc <- m_doc, history <- m_history,
  foreign <- m_foreign, pane <- m_pane, file <- m_file, parcel <- m_parcel,
  lastTid <- m_lastTid, queue <- m_queue, work <- m_work, waking <- m_waking,
  sending <- m_sending, listed <- m_listed, requests <- m_requests,
  spent <- m_spent, mishaps <- m_mishaps
T == INSTANCE Terminal WITH
  Providers <- Providers, Claude <- Claude, Wakers <- Wakers,
  MaxCommands <- MaxCommands, MaxLosses <- MaxLosses, MaxCrashes <- MaxCrashes,
  pane <- t_pane, doc <- t_doc, typing <- t_typing, flow <- t_flow,
  seen <- t_seen, conversations <- t_conversations, spent <- t_spent
W == INSTANCE Worktrees WITH
  Cloners <- Cloners, MaxRequests <- MaxClones, MaxFaults <- MaxFaults,
  docs <- w_docs, tmux <- w_tmux, trees <- w_trees, branches <- w_branches,
  queue <- w_queue, step <- w_step, cloners <- w_cloners, spent <- w_spent
S == INSTANCE Supervision WITH
  Grace <- Grace, MaxBackoff <- MaxBackoff, MaxOutages <- MaxOutages,
  MaxStalls <- MaxStalls, MaxErrors <- MaxErrors, phase <- s_phase,
  consumer <- s_consumer, misses <- s_misses, backoff <- s_backoff,
  infra <- s_infra, stop <- s_stop, spent <- s_spent
G == INSTANCE GpuServices WITH
  MaxJobs <- MaxJobs, MaxFaults <- MaxFaults, on <- g_on, used <- g_used,
  conns <- g_conns, job <- g_job, watch <- g_watch, spent <- g_spent
P == INSTANCE HostPower WITH
  MaxPresses <- MaxPresses, MaxFaults <- MaxFaults, kind <- p_kind,
  loop <- p_loop, worker <- p_worker, sentinel <- p_sentinel, queue <- p_queue,
  doc <- p_doc, stop <- p_stop, spent <- p_spent

movesVars == <<m_doc, m_history, m_foreign, m_pane, m_file, m_parcel,
                m_lastTid, m_queue, m_work, m_waking, m_sending, m_listed,
                m_requests, m_spent, m_mishaps>>
terminalVars == <<t_pane, t_doc, t_typing, t_flow, t_seen, t_conversations,
                   t_spent>>
worktreesVars == <<w_docs, w_tmux, w_trees, w_branches, w_queue, w_step,
                    w_cloners, w_spent>>
supervisionVars == <<s_phase, s_consumer, s_misses, s_backoff, s_infra,
                      s_stop, s_spent>>
gpuVars == <<g_on, g_used, g_conns, g_job, g_watch, g_spent>>
powerVars == <<p_kind, p_loop, p_worker, p_sentinel, p_queue, p_doc, p_stop,
                p_spent>>

all == <<part, vars, movesVars, terminalVars, worktreesVars, supervisionVars, gpuVars,
        powerVars>>

Inits ==
  /\ part \in {"life", "moves", "terminal", "worktrees", "supervision", "gpu",
               "power"}
  /\ Init
  /\ M!Init
  /\ T!Init /\ (part # "terminal" => t_pane.prog = "none" /\ t_doc.agent = Claude)
  /\ W!Init
  /\ S!Init
  /\ G!Init /\ (part # "gpu" => g_on = [u \in G!Units |-> FALSE])
  /\ P!Init /\ (part # "power" => p_kind = "plain")

\* A step of one part, with which nothing else moves.
Of(p, Act) ==
  /\ part = p /\ Act /\ UNCHANGED part
  /\ p # "life" => UNCHANGED vars
  /\ p # "moves" => UNCHANGED movesVars
  /\ p # "terminal" => UNCHANGED terminalVars
  /\ p # "worktrees" => UNCHANGED worktreesVars
  /\ p # "supervision" => UNCHANGED supervisionVars
  /\ p # "gpu" => UNCHANGED gpuVars
  /\ p # "power" => UNCHANGED powerVars
Life(Act) == Of("life", Act)
Moves(Act) == Of("moves", Act)
Terminal(Act) == Of("terminal", Act)
Worktrees(Act) == Of("worktrees", Act)
Supervision(Act) == Of("supervision", Act)
Gpu(Act) == Of("gpu", Act)
Power(Act) == Of("power", Act)

Nexts ==
  \/ Life(Next)
  \/ Moves(M!Next)
  \/ Terminal(T!Next)
  \/ Worktrees(W!Next)
  \/ Supervision(S!Next)
  \/ Gpu(G!Next)
  \/ Power(P!Next)

\* The fairness of each module.  part never changes, so that the steps of one
\* part or of another are treated fairly just when those of each are.
Loop1 ==
  \/ Life(Handle(h1))
  \/ Moves(M!Consume(h1))
  \/ Terminal(T!Consumer)
  \/ Supervision(S!Worker)
  \/ Gpu(G!Thread)
  \/ Power(P!Host)
Loop2 ==
  \/ Life(Scan(h1))
  \/ Moves(M!Consume(h2))
  \/ Terminal(T!Flow)
  \/ Supervision(S!WatchdogCounts)
  \/ Gpu(G!Watchdog)
  \/ Power(P!HeartbeatAges)
Loop3 ==
  \/ Life(Restart(h1))
  \/ Moves(M!Consume(h3))
  \/ Terminal(T!DiscoveryReads)
  \/ Supervision(S!Restored)
  \/ Gpu(G!LimitPasses)
  \/ Power(P!StopPublishes)
Loop4 ==
  \/ Moves(M!Wake(h1))
  \/ Terminal(T!DiscoveryWrites)
Loop5 ==
  \/ Moves(M!Wake(h2))
  \/ Terminal(T!AgentUp)
Loop6 ==
  \/ Moves(M!Wake(h3))
  \/ Terminal(T!Waker(w1))
Loop7 ==
  \/ Moves(\E r \in m_requests : M!MoveAccept(r))
  \/ Terminal(T!Waker(w2))
Fair == WF_all(Loop1) /\ WF_all(Loop2) /\ WF_all(Loop3) /\ WF_all(Loop4) /\
        WF_all(Loop5) /\ WF_all(Loop6) /\ WF_all(Loop7)

Behaviour == Inits /\ [][Nexts]_all /\ Fair

----------------------------------------------------------------------------
\* Every part keeps to its types, and a move to its invariants.
PartsTypeOK ==
  /\ TypeOK
  /\ M!TypeOK
  /\ T!TypeOK
  /\ W!TypeOK
  /\ S!TypeOK
  /\ G!TypeOK
  /\ P!TypeOK
  /\ M!IndInv
  /\ M!Orderly

\* Properties of the parts, as their modules state them.
OneAgent == M!OneAgent
SettledIsWhole == M!SettledIsWhole
MoveResolves == M!MoveResolves
OneConversation == T!OneConversation
SwitchSettles == T!SwitchSettles
RunsInItsTree == W!RunsInItsTree
WorkerComesBack ==
  []<>(part = "supervision" => S!Receives) /\ []<>(s_stop => s_phase = "ended")
IdleIsStopped == G!IdleIsStopped
StopStops == P!StopStops
=============================================================================
