------------------------------ MODULE MCFaults ------------------------------
(***************************************************************************)
(* What faults must not break: moves with impatient clients, crashes and   *)
(* lost publishes (EXTENDS), two hosts with sessions of their own, and the *)
(* catalogue of skills, each an instance of its module.  Parts do not read *)
(* one another's state, so a behaviour is one of a single part, named by   *)
(* part, and the other parts stay as they begin.                           *)
(***************************************************************************)
EXTENDS MCSessionMove, FiniteSets

CONSTANTS
  Names, NamesOf, Renames, MaxRequests, MaxDocs, MaxRefusals, MaxByHand, \* of the sessions
  Publishers, Resolvers, Versions, Child, Parent, None, Gone,
  MaxAttempts, Asks, MaxErrors                                \* of the skills

ASSUME FaultsAssumption ==
  /\ NamesOf \in [Hosts -> SUBSET Names]
  /\ \A g, h \in Hosts : g # h => NamesOf[g] \cap NamesOf[h] = {}
  /\ Renames \in BOOLEAN
  /\ IsFiniteSet(Publishers)
  /\ None \notin Versions /\ Gone \notin Versions /\ None # Gone /\ None \in Asks
  /\ {MaxRequests, MaxDocs, MaxRefusals, MaxByHand, MaxAttempts, MaxErrors} \subseteq Nat

OwnNames == [h \in TwoHosts |-> IF h = h1 THEN {"n1"} ELSE {"n2"}]

VARIABLES
  part,  \* the part that moves
  n_docs, n_born, n_tmux, n_queue, n_handler, n_scan, n_worker, n_spent,
  k_files, k_catalogue, k_skill, k_pins, k_publishes, k_resolves, k_clock,
  k_faults

N == INSTANCE SessionLifecycle WITH
  NoHost <- NoHost, Hosts <- Hosts, Names <- Names, NamesOf <- NamesOf,
  Renames <- Renames, LossyPublish <- LossyPublish, MaxRequests <- MaxRequests,
  MaxDocs <- MaxDocs, MaxCrashes <- MaxCrashes, MaxRefusals <- MaxRefusals,
  MaxByHand <- MaxByHand,
  docs <- n_docs, born <- n_born, tmux <- n_tmux, queue <- n_queue,
  handler <- n_handler, scan <- n_scan, worker <- n_worker, spent <- n_spent
K == INSTANCE Skills WITH
  Publishers <- Publishers, Resolvers <- Resolvers, Versions <- Versions,
  Child <- Child, Parent <- Parent, None <- None, Gone <- Gone,
  MaxAttempts <- MaxAttempts, Asks <- Asks, MaxFaults <- MaxErrors,
  files <- k_files, catalogue <- k_catalogue, skill <- k_skill, pins <- k_pins,
  publishes <- k_publishes, resolves <- k_resolves, clock <- k_clock,
  faults <- k_faults

lifeVars == <<n_docs, n_born, n_tmux, n_queue, n_handler, n_scan, n_worker,
               n_spent>>
skillsVars == <<k_files, k_catalogue, k_skill, k_pins, k_publishes,
                 k_resolves, k_clock, k_faults>>

all == <<part, vars, lifeVars, skillsVars>>

Inits ==
  /\ part \in {"moves", "life", "skills"}
  /\ Init
  /\ N!Init
  /\ K!Init

\* A step of one part, with which nothing else moves.
Of(p, Act) ==
  /\ part = p /\ Act /\ UNCHANGED part
  /\ p # "moves" => UNCHANGED vars
  /\ p # "life" => UNCHANGED lifeVars
  /\ p # "skills" => UNCHANGED skillsVars
Moves(Act) == Of("moves", Act)
Life(Act) == Of("life", Act)
Skills(Act) == Of("skills", Act)

Nexts ==
  \/ Moves(Next)
  \/ Life(N!Next)
  \/ Skills(K!Next)

Behaviour == Inits /\ [][Nexts]_all

----------------------------------------------------------------------------
\* The part that moves keeps to its types, and a move to its inductive invariants;
\* the others are as they began.
PartsTypeOK ==
  /\ part = "moves" => TypeOK /\ IndInv /\ Orderly
  /\ part = "life" => N!TypeOK
  /\ part = "skills" => K!TypeOK

\* Properties of the parts, as their modules state them.
OwnDocsOnly == N!OwnDocsOnly
SkillsStand == K!SkillsStand
=============================================================================
