------------------------------ MODULE Demands ------------------------------
(***************************************************************************)
(* The queue of demands of a session.                                      *)
(*                                                                         *)
(* Users write demands, edit and delete them while they are pending.       *)
(* Sessions of agents claim one, are given its text, and complete it, or   *)
(* end one that looks abandoned.  Every PATCH and DELETE reads the demand, *)
(* decides, and writes on condition that the status has not changed since; *)
(* requests of any number of clients overlap.  The rest of a demand        *)
(* (target, branch, summary) is written with no condition and is left out. *)
(***************************************************************************)
EXTENDS Naturals

CONSTANTS
  Clients,   \* users and orchestrators
  Demands_,  \* ids that demands are given
  Texts,
  NoText

VARIABLES
  status,   \* of each demand; absent when not created yet or deleted
  text,
  request,  \* what each client asks for, and what its request has read
  claims,   \* claims of each demand that were accepted
  given     \* the text that the last claimer was answered

vars == <<status, text, request, claims, given>>

Statuses == {"pending", "in_progress", "completed", "error"}
Transitions == [pending |-> {"in_progress"}, in_progress |-> {"completed", "error"},
                completed |-> {}, error |-> {}]

NoRequest == [does |-> "nothing"]
Patches == [does : {"patch", "answer"}, demand : Demands_, expected : Statuses,
            status : Statuses, text : Texts \cup {NoText}]
Deletes == [does : {"delete"}, demand : Demands_]

TypeOK ==
  /\ status \in [Demands_ -> Statuses \cup {"unborn", "deleted"}]
  /\ text \in [Demands_ -> Texts \cup {NoText}]
  /\ request \in [Clients -> {NoRequest} \cup Patches \cup Deletes]
  /\ claims \in [Demands_ -> Nat]
  /\ given \in [Demands_ -> Texts \cup {NoText}]

Init ==
  /\ status = [d \in Demands_ |-> "unborn"]
  /\ text = [d \in Demands_ |-> NoText]
  /\ request = [c \in Clients |-> NoRequest]
  /\ claims = [d \in Demands_ |-> 0]
  /\ given = [d \in Demands_ |-> NoText]

Create(d, words) ==
  /\ status[d] = "unborn"
  /\ status' = [status EXCEPT ![d] = "pending"]
  /\ text' = [text EXCEPT ![d] = words]
  /\ UNCHANGED <<request, claims, given>>

(***************************************************************************)
(* patch_demand                                                            *)
(***************************************************************************)
\* A status, a text or both; a text only of what is pending.
PatchReads(c, d, new, words) ==
  /\ request[c] = NoRequest
  /\ status[d] \in Statuses
  /\ new # status[d] => new \in Transitions[status[d]]
  /\ new = status[d] => words # NoText
  /\ words # NoText => status[d] = "pending"
  /\ request' = [request EXCEPT ![c] =
       [does |-> "patch", demand |-> d, expected |-> status[d], status |-> new,
        text |-> words]]
  /\ UNCHANGED <<status, text, claims, given>>

Matches_AnyStatus(r) == status[r.demand] \in Statuses
\* The filter of update: the id and the status that was read.
Matches(r) == status[r.demand] = r.expected

\* repo.update: a filter that matches nothing is answered 409.
PatchWrites(c) ==
  /\ request[c].does = "patch"
  /\ LET r == request[c]
         d == r.demand
     IN  IF Matches(r)
         THEN /\ status' = [status EXCEPT ![d] = r.status]
              /\ text' = [text EXCEPT ![d] = IF r.text = NoText THEN @ ELSE r.text]
              /\ claims' = [claims EXCEPT ![d] =
                              IF r.expected = "pending" /\ r.status = "in_progress"
                              THEN @ + 1 ELSE @]
              /\ request' = [request EXCEPT ![c].does = "answer"]
         ELSE /\ request' = [request EXCEPT ![c] = NoRequest]
              /\ UNCHANGED <<status, text, claims>>
  /\ UNCHANGED given

\* The document is read again for the answer.
PatchAnswers(c) ==
  /\ request[c].does = "answer"
  /\ LET r == request[c]
     IN  given' = [given EXCEPT ![r.demand] =
                     IF r.expected = "pending" /\ r.status = "in_progress"
                     THEN text[r.demand] ELSE @]
  /\ request' = [request EXCEPT ![c] = NoRequest]
  /\ UNCHANGED <<status, text, claims>>

(***************************************************************************)
(* delete_demand                                                           *)
(***************************************************************************)
DeleteReads(c, d) ==
  /\ request[c] = NoRequest
  /\ status[d] = "pending"
  /\ request' = [request EXCEPT ![c] = [does |-> "delete", demand |-> d]]
  /\ UNCHANGED <<status, text, claims, given>>

DeleteWrites(c) ==
  /\ request[c].does = "delete"
  /\ status' = [status EXCEPT ![request[c].demand] = IF @ = "pending" THEN "deleted" ELSE @]
  /\ request' = [request EXCEPT ![c] = NoRequest]
  /\ UNCHANGED <<text, claims, given>>

Asks(c) == \/ \E d \in Demands_, new \in Statuses, words \in Texts \cup {NoText} :
                PatchReads(c, d, new, words)
           \/ \E d \in Demands_ : DeleteReads(c, d)
Answers(c) == PatchWrites(c) \/ PatchAnswers(c) \/ DeleteWrites(c)
Next == \/ \E d \in Demands_, words \in Texts : Create(d, words)
        \/ \E c \in Clients : Asks(c) \/ Answers(c)
Spec == Init /\ [][Next]_vars

\* "evita duas transições concorrentes na mesma demanda": however requests
\* overlap, a demand is claimed once, and from then on it is neither deleted nor
\* pending again, and its text is the one that the claimer was given.
ClaimStands ==
  \A d \in Demands_ :
    /\ claims[d] <= 1
    /\ claims[d] = 1 => status[d] \in {"in_progress", "completed", "error"}
    /\ given[d] # NoText => given[d] = text[d]
=============================================================================
