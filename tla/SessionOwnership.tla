--------------------------- MODULE SessionOwnership ---------------------------
(***************************************************************************)
(* What a move promises, whatever fails on the way: a session has one owner *)
(* at a time, it is handed only to a host that already keeps a copy of the  *)
(* conversation, no copy is ever taken away, and the log of the moves says  *)
(* who handed it to whom.                                                   *)
(***************************************************************************)
EXTENDS Integers, Sequences

CONSTANTS Hosts, Home

VARIABLES owner,  \* the host the session is routed to
          log,    \* the moves completed so far
          kept    \* the hosts that keep a copy of the conversation

ownership == <<owner, log, kept>>

Init == owner = Home /\ log = <<>> /\ kept = {Home}

\* A host receives a copy of the conversation.
Copy(h) == kept' = kept \cup {h} /\ UNCHANGED <<owner, log>>

\* The session passes from its owner to another host that keeps a copy.
HandOver(h) ==
  /\ h \in kept \ {owner}
  /\ owner' = h
  /\ log' = Append(log, <<owner, h>>)
  /\ UNCHANGED kept

Next == \E h \in Hosts : Copy(h) \/ HandOver(h)

Spec == Init /\ [][Next]_ownership
=============================================================================
