-------------------------- MODULE Faults_proofs --------------------------
(***************************************************************************)
(* Proofs about MCFaults, for any hosts, names, publishers, versions and   *)
(* bounds: the types of its three parts; that a session works with one     *)
(* version of a skill, whose package is there, while the latest one never  *)
(* regresses; and that workers keep to the documents of their hosts.       *)
(***************************************************************************)
EXTENDS MCFaults, SessionMove_proofs, FiniteSetTheorems, WellFoundedInduction, TLAPS

-----------------------------------------------------------------------------
(* The skills. *)

\* Cardinality is defined anew in the instance.
LEMMA SkillsCardinality ==
  ASSUME NEW S
  PROVE  K!Cardinality(S) = Cardinality(S)
BY DEF K!Cardinality, Cardinality

LEMMA LeastNat ==
  ASSUME NEW S, S \subseteq Nat, S # {}
  PROVE  \E x \in S : \A y \in S : x <= y
<1> DEFINE Less == {pair \in Nat \X Nat : pair[1] < pair[2]}
<1>1. IsWellFoundedOn(Less, Nat)
  BY NatLessThanWellFounded DEF OpToRel
<1>2. \E x \in S : \A y \in S : <<y, x>> \notin Less
  <2> HIDE DEF Less
  <2> QED BY <1>1, WFMin
<1>3. \A x, y \in Nat : y < x => <<y, x>> \in Less
  OBVIOUS
<1>4. PICK x \in S : \A y \in S : <<y, x>> \notin Less
  BY <1>2
<1> HIDE DEF Less
<1>5. \A y \in S : ~(y < x)
  BY <1>3, <1>4
<1> QED BY <1>4, <1>5

LEMMA SkillsAssumption ==
  /\ IsFiniteSet(Publishers) /\ Cardinality(Publishers) \in Nat
  /\ K!Stamps = 0..Cardinality(Publishers)
  /\ MaxAttempts \in Nat /\ MaxErrors \in Nat
  /\ None \notin Versions /\ Gone \notin Versions /\ None # Gone /\ None \in Asks
BY FaultsAssumption, FS_CardinalityType, SkillsCardinality DEF K!Stamps

PublishType ==
  [at : {"off", "checked", "open", "stored", "lost", "created", "listed", "published",
         "already", "failed"},
   version : Versions \cup {None}, stamp : K!Stamps, attempt : 0..MaxAttempts,
   refreshed : BOOLEAN]
ResolveType ==
  [at : {"off", "read", "found", "alone", "target", "lost", "answered", "refused",
         "downloaded", "missing"},
   session : K!Sessions, asked : Asks, version : Versions \cup {None}]

\* The clock has ticked once for each call that stored its package.
Stamped == {p \in Publishers : k_publishes[p].stamp # 0}
ClockCounts == k_clock = Cardinality(Stamped)

\* What a call of publish has done so far: no other stores or removes its package,
\* and the entry it made in the catalogue stands.
CallHolds(p, call) ==
  /\ call.at # "off" => call.version \in Versions
  /\ call.at \in {"off", "checked", "open"} => call.stamp = 0
  /\ call.at \in {"off", "checked", "open", "stored", "lost"} =>
       \A v \in K!Published : k_catalogue[v].file # p
  /\ call.at = "stored" => p \in k_files
  /\ call.at \in {"stored", "created", "listed", "published"} => call.stamp # 0
  /\ call.at \in {"created", "listed", "published"} =>
       k_catalogue[call.version] = [file |-> p, stamp |-> call.stamp]
  /\ call.at \in {"listed", "published"} => k_skill.exists
  /\ call.at = "published" => k_skill.stamp >= call.stamp
CallsHold == \A p \in Publishers : CallHolds(p, k_publishes[p])

\* The packages of the catalogue are stored; the skill's latest is one of it.
CatalogueStored == \A v \in K!Published : k_catalogue[v].file \in k_files
LatestStands ==
  k_skill.stamp # 0 => /\ k_skill.latest \in Versions
                       /\ k_catalogue[k_skill.latest].stamp = k_skill.stamp

\* Pins and answers are of published versions, and an answer is the pin's.
PinsPublished == \A s \in K!Sessions : K!Pinned(s) => k_pins[s] \in K!Published
AnswerHolds(call) ==
  /\ call.at # "missing"
  /\ call.at \in {"target", "answered", "downloaded"} => call.version \in K!Published
  /\ call.at \in {"answered", "downloaded"} => k_pins[call.session] \in {call.version, Gone}
AnswersHold == \A r \in Resolvers : AnswerHolds(k_resolves[r])

SkillsInv ==
  /\ K!TypeOK /\ ClockCounts /\ CallsHold /\ CatalogueStored /\ LatestStands
  /\ PinsPublished /\ AnswersHold /\ K!PinHolds

LEMMA SkillsInit == K!Init => SkillsInv
<1> SUFFICES ASSUME K!Init PROVE SkillsInv
  OBVIOUS
<1> USE SkillsAssumption
<1>1. K!Published = {}
  BY DEF K!Init, K!Published
<1>2. Stamped = {}
  BY DEF K!Init, Stamped
<1>3. ClockCounts
  BY <1>2, FS_EmptySet DEF K!Init, ClockCounts
<1>4. K!TypeOK
  <2>1. k_publishes \in [Publishers -> PublishType]
    <3>1. [at |-> "off", version |-> None, stamp |-> 0, attempt |-> 0, refreshed |-> FALSE]
            \in PublishType
      BY DEF PublishType
    <3> QED BY <3>1 DEF K!Init
  <2>2. k_resolves \in [Resolvers -> ResolveType]
    BY DEF K!Init, ResolveType, K!Sessions
  <2> QED BY <2>1, <2>2 DEF K!Init, K!TypeOK, PublishType, ResolveType, K!NoVersion
<1>5. CallsHold /\ CatalogueStored /\ LatestStands
  BY <1>1 DEF K!Init, CallsHold, CallHolds, CatalogueStored, LatestStands
<1>6. PinsPublished /\ AnswersHold /\ K!PinHolds
  BY DEF K!Init, PinsPublished, K!Pinned, AnswersHold, AnswerHolds, K!PinHolds
<1> QED BY <1>3, <1>4, <1>5, <1>6 DEF SkillsInv

\* A call of publish moves on: the others stay, and the clock with the stamps.
CallMoves(p, call) ==
  /\ call \in PublishType
  /\ k_publishes' = [k_publishes EXCEPT ![p] = call]

LEMMA Moved ==
  ASSUME K!TypeOK, NEW p \in Publishers, NEW call, CallMoves(p, call)
  PROVE  /\ k_publishes' \in [Publishers -> PublishType]
         /\ k_publishes'[p] = call
         /\ \A q \in Publishers \ {p} : k_publishes'[q] = k_publishes[q]
BY DEF K!TypeOK, CallMoves, PublishType

LEMMA CallType ==
  ASSUME K!TypeOK, NEW p \in Publishers
  PROVE  k_publishes[p] \in PublishType
BY DEF K!TypeOK, PublishType

LEMMA SameClock ==
  ASSUME K!TypeOK, ClockCounts, NEW p \in Publishers, NEW call, CallMoves(p, call),
         call.stamp = k_publishes[p].stamp, UNCHANGED k_clock
  PROVE  ClockCounts'
<1>1. Stamped' = Stamped
  BY Moved DEF Stamped
<1> QED BY <1>1 DEF ClockCounts

LEMMA ClockRoom ==
  ASSUME K!TypeOK, ClockCounts, NEW p \in Publishers, k_publishes[p].stamp = 0
  PROVE  k_clock \in Nat /\ k_clock + 1 \in K!Stamps
<1> USE SkillsAssumption
<1>1. IsFiniteSet(Stamped) /\ Stamped \subseteq Publishers /\ p \notin Stamped
  BY FS_Subset DEF Stamped
<1>2. Cardinality(Stamped \cup {p}) = Cardinality(Stamped) + 1
  BY <1>1, FS_AddElement
<1>3. Stamped \cup {p} \subseteq Publishers
  BY <1>1
<1>4. Cardinality(Stamped \cup {p}) <= Cardinality(Publishers)
  BY <1>3, FS_Subset
<1>5. Cardinality(Stamped) \in Nat
  BY <1>1, FS_CardinalityType
<1> QED BY <1>2, <1>4, <1>5 DEF ClockCounts

LEMMA ClockTicks ==
  ASSUME K!TypeOK, ClockCounts, NEW p \in Publishers, NEW call, CallMoves(p, call),
         k_publishes[p].stamp = 0, call.stamp # 0, k_clock' = k_clock + 1
  PROVE  ClockCounts'
<1>1. IsFiniteSet(Stamped) /\ p \notin Stamped
  BY FS_Subset, SkillsAssumption DEF Stamped
<1>2. Stamped' = Stamped \cup {p}
  BY Moved DEF Stamped
<1>3. Cardinality(Stamped') = Cardinality(Stamped) + 1
  BY <1>1, <1>2, FS_AddElement
<1> QED BY <1>3 DEF ClockCounts

\* What of the invariant a call of publish does not touch.
LEMMA SessionsAside ==
  ASSUME SkillsInv, UNCHANGED <<k_pins, k_resolves>>, K!Published \subseteq K!Published'
  PROVE  /\ PinsPublished' /\ AnswersHold' /\ K!PinHolds'
         /\ k_pins' \in [K!Sessions -> Versions \cup {None, Gone}]
         /\ k_resolves' \in [Resolvers -> ResolveType]
<1>1. PinsPublished'
  BY DEF SkillsInv, PinsPublished, K!Pinned
<1>2. AnswersHold'
  BY DEF SkillsInv, AnswersHold, AnswerHolds
<1> QED BY <1>1, <1>2 DEF SkillsInv, K!PinHolds, K!TypeOK, ResolveType

\* A call that changes neither the catalogue nor the skill.
LEMMA CallAside ==
  ASSUME SkillsInv, NEW p \in Publishers, NEW call, CallMoves(p, call), CallHolds(p, call)',
         UNCHANGED <<k_catalogue, k_skill>>, k_files \subseteq k_files'
  PROVE  CallsHold' /\ CatalogueStored' /\ LatestStands' /\ UNCHANGED K!Published
<1>1. UNCHANGED K!Published
  BY DEF K!Published
<1>2. CatalogueStored' /\ LatestStands'
  BY <1>1 DEF SkillsInv, CatalogueStored, LatestStands
<1>3. CallHolds(p, k_publishes[p])'
  BY <1>1, Moved DEF SkillsInv, CallHolds
<1>4. ASSUME NEW q \in Publishers \ {p} PROVE CallHolds(q, k_publishes[q])'
  BY <1>1, Moved DEF SkillsInv, CallsHold, CallHolds
<1> QED BY <1>1, <1>2, <1>3, <1>4 DEF CallsHold

LEMMA QuietCall ==
  ASSUME SkillsInv, NEW p \in Publishers, NEW call, CallMoves(p, call), CallHolds(p, call),
         call.stamp = k_publishes[p].stamp,
         k_files \subseteq k_files', k_files' \subseteq Publishers,
         UNCHANGED <<k_catalogue, k_skill, k_pins, k_resolves, k_clock>>,
         k_faults' \in 0..MaxErrors
  PROVE  SkillsInv'
<1>1. CallsHold' /\ CatalogueStored' /\ LatestStands' /\ UNCHANGED K!Published
  <2>1. CallHolds(p, call)'
    BY DEF CallHolds, K!Published
  <2> QED BY <2>1, CallAside
<1>2. PinsPublished' /\ AnswersHold' /\ K!PinHolds'
  BY <1>1, SessionsAside
<1>3. ClockCounts'
  BY SameClock DEF SkillsInv
<1>4. K!TypeOK'
  BY Moved DEF SkillsInv, K!TypeOK, PublishType
<1> QED BY <1>1, <1>2, <1>3, <1>4 DEF SkillsInv

\* What a call becomes: at another place, with a version, an attempt or a refresh.
LEMMA AtShape ==
  ASSUME NEW old \in PublishType,
         NEW at \in {"open", "lost", "created", "listed", "published", "already", "failed"}
  PROVE  \E call \in PublishType :
           /\ call = [old EXCEPT !.at = at]
           /\ call.at = at /\ call.version = old.version /\ call.stamp = old.stamp
<1> DEFINE call == [old EXCEPT !.at = at]
<1>1. call \in PublishType /\ call.at = at /\ call.version = old.version /\ call.stamp = old.stamp
  BY DEF PublishType
<1>2. call = [old EXCEPT !.at = at]
  OBVIOUS
<1> HIDE DEF call
<1> QED BY <1>1, <1>2

\* Two fields of a call written at once.
LEMMA TwoWrites ==
  ASSUME NEW f, NEW p \in DOMAIN f, NEW v, NEW at
  PROVE  [f EXCEPT ![p].version = v, ![p].at = at]
           = [f EXCEPT ![p] = [f[p] EXCEPT !.version = v, !.at = at]]
OBVIOUS

LEMMA StoredWrite ==
  ASSUME NEW f, NEW p \in DOMAIN f, NEW n
  PROVE  [f EXCEPT ![p].at = "stored", ![p].stamp = n]
           = [f EXCEPT ![p] = [f[p] EXCEPT !.at = "stored", !.stamp = n]]
OBVIOUS

LEMMA RefreshShape ==
  ASSUME NEW old \in PublishType
  PROVE  \E call \in PublishType :
           /\ call = [old EXCEPT !.refreshed = TRUE]
           /\ call.at = old.at /\ call.version = old.version /\ call.stamp = old.stamp
<1> DEFINE call == [old EXCEPT !.refreshed = TRUE]
<1>1. /\ call \in PublishType
      /\ call.at = old.at /\ call.version = old.version /\ call.stamp = old.stamp
  BY DEF PublishType
<1>2. call = [old EXCEPT !.refreshed = TRUE]
  OBVIOUS
<1> HIDE DEF call
<1> QED BY <1>1, <1>2

LEMMA AttemptShape ==
  ASSUME NEW old \in PublishType, NEW n \in 0..MaxAttempts
  PROVE  \E call \in PublishType :
           /\ call = [old EXCEPT !.attempt = n]
           /\ call.at = old.at /\ call.version = old.version /\ call.stamp = old.stamp
<1> DEFINE call == [old EXCEPT !.attempt = n]
<1>1. /\ call \in PublishType
      /\ call.at = old.at /\ call.version = old.version /\ call.stamp = old.stamp
  BY DEF PublishType
<1>2. call = [old EXCEPT !.attempt = n]
  OBVIOUS
<1> HIDE DEF call
<1> QED BY <1>1, <1>2

LEMMA FaultCounts ==
  ASSUME K!TypeOK, K!Fault \/ UNCHANGED k_faults
  PROVE  k_faults' \in 0..MaxErrors
BY SkillsAssumption DEF K!TypeOK, K!Fault

\* PublishAt is the step of one call.
LEMMA AtMoves ==
  ASSUME SkillsInv, NEW p \in Publishers,
         NEW at \in {"open", "lost", "created", "listed", "published", "already", "failed"},
         K!PublishAt(p, at)
  PROVE  \E call : /\ CallMoves(p, call)
                   /\ call.at = at /\ call.version = k_publishes[p].version
                   /\ call.stamp = k_publishes[p].stamp
<1>1. PICK old \in PublishType : old = k_publishes[p]
  BY CallType DEF SkillsInv
<1>2. PICK call \in PublishType :
        /\ call = [old EXCEPT !.at = at]
        /\ call.at = at /\ call.version = old.version /\ call.stamp = old.stamp
  BY AtShape
<1>3. k_publishes' = [k_publishes EXCEPT ![p] = call]
  BY <1>1, <1>2 DEF K!PublishAt
<1> QED BY <1>1, <1>2, <1>3 DEF CallMoves

LEMMA PublishAsks ==
  ASSUME SkillsInv, NEW p \in Publishers, K!PublishLooks(p) \/ K!PublishOpens(p)
  PROVE  SkillsInv'
<1>1. PICK old \in PublishType : old = k_publishes[p] /\ CallHolds(p, old)
  BY CallType DEF SkillsInv, CallsHold
<1>2. /\ UNCHANGED <<k_files, k_catalogue, k_skill, k_pins, k_resolves, k_clock>>
      /\ k_files \subseteq Publishers /\ k_faults' \in 0..MaxErrors
  BY FaultCounts DEF K!PublishLooks, K!PublishOpens, K!Send, SkillsInv, K!TypeOK
<1>3. \E call : CallMoves(p, call) /\ call.stamp = k_publishes[p].stamp /\ CallHolds(p, call)
  <2>1. CASE K!PublishLooks(p)
    <3>1. PICK v \in Versions, at \in {"already", "checked"} :
            k_publishes' = [k_publishes EXCEPT ![p].version = v, ![p].at = at]
      BY <2>1 DEF K!PublishLooks
    <3>2. PICK call \in PublishType :
            /\ \A f : [f EXCEPT ![p] = [old EXCEPT !.version = v, !.at = at]] = [f EXCEPT ![p] = call]
            /\ call.at = at /\ call.version = v /\ call.stamp = old.stamp
      <4> DEFINE new == [old EXCEPT !.version = v, !.at = at]
      <4>1. new \in PublishType /\ new.at = at /\ new.version = v /\ new.stamp = old.stamp
        BY Zenon DEF PublishType
      <4>2. \A f : [f EXCEPT ![p] = [old EXCEPT !.version = v, !.at = at]] = [f EXCEPT ![p] = new]
        OBVIOUS
      <4> HIDE DEF new
      <4> QED BY <4>1, <4>2
    <3>3. k_publishes' = [k_publishes EXCEPT ![p] = call]
      <4>1. k_publishes' = [k_publishes EXCEPT ![p] = [old EXCEPT !.version = v, !.at = at]]
        BY <3>1, <1>1, TwoWrites DEF SkillsInv, K!TypeOK
      <4> QED BY <3>2, <4>1
    <3>4. CallHolds(p, call)
      BY <1>1, <2>1, <3>2 DEF CallHolds, K!PublishLooks
    <3> QED BY <1>1, <3>2, <3>3, <3>4 DEF CallMoves
  <2>2. CASE K!PublishOpens(p)
    <3>1. k_publishes[p].at = "checked"
      BY <2>2 DEF K!PublishOpens
    <3>2. ASSUME NEW at \in {"open", "failed"}, K!PublishAt(p, at)
          PROVE  \E call : CallMoves(p, call) /\ call.stamp = k_publishes[p].stamp /\ CallHolds(p, call)
      <4>1. PICK call : /\ CallMoves(p, call)
                        /\ call.at = at /\ call.version = k_publishes[p].version
                        /\ call.stamp = k_publishes[p].stamp
        BY <3>2, AtMoves
      <4> QED BY <1>1, <3>1, <4>1 DEF CallHolds
    <3>3. ASSUME NEW call \in PublishType, k_publishes' = [k_publishes EXCEPT ![p] = call],
                 call.at = old.at, call.version = old.version, call.stamp = old.stamp
          PROVE  \E c : CallMoves(p, c) /\ c.stamp = k_publishes[p].stamp /\ CallHolds(p, c)
      BY <1>1, <3>3 DEF CallHolds, CallMoves
    <3>4. CASE k_publishes' = [k_publishes EXCEPT ![p].refreshed = TRUE]
      <4>1. PICK call \in PublishType :
              /\ call = [old EXCEPT !.refreshed = TRUE]
              /\ call.at = old.at /\ call.version = old.version /\ call.stamp = old.stamp
        BY RefreshShape
      <4>2. k_publishes' = [k_publishes EXCEPT ![p] = call]
        BY <1>1, <3>4, <4>1
      <4> QED BY <3>3, <4>1, <4>2
    <3>5. CASE /\ k_publishes[p].attempt + 1 < MaxAttempts
               /\ k_publishes' = [k_publishes EXCEPT ![p].attempt = k_publishes[p].attempt + 1]
      <4>1. PICK n : n = old.attempt + 1
        OBVIOUS
      <4>2. n \in 0..MaxAttempts
        BY <1>1, <3>5, <4>1, SkillsAssumption DEF PublishType
      <4>3. PICK call \in PublishType :
              /\ call = [old EXCEPT !.attempt = n]
              /\ call.at = old.at /\ call.version = old.version /\ call.stamp = old.stamp
        BY <4>2, AttemptShape
      <4>4. k_publishes' = [k_publishes EXCEPT ![p] = call]
        BY <1>1, <3>5, <4>1, <4>3
      <4> QED BY <3>3, <4>3, <4>4
    <3> QED BY <2>2, <3>2, <3>4, <3>5 DEF K!PublishOpens, K!Send
  <2> QED BY <2>1, <2>2
<1> QED BY <1>2, <1>3, QuietCall

LEMMA PublishStoresInv ==
  ASSUME SkillsInv, NEW p \in Publishers, K!PublishStores(p)
  PROVE  SkillsInv'
<1>1. PICK old \in PublishType : old = k_publishes[p] /\ CallHolds(p, old)
  BY CallType DEF SkillsInv, CallsHold
<1>2. /\ old.at = "open" /\ old.stamp = 0
      /\ UNCHANGED <<k_catalogue, k_skill, k_pins, k_resolves>>
      /\ k_files \subseteq Publishers /\ k_faults' \in 0..MaxErrors
  BY <1>1, FaultCounts DEF K!PublishStores, SkillsInv, K!TypeOK, CallHolds
<1>3. CASE k_files' \in {k_files, k_files \cup {p}} /\ K!PublishAt(p, "failed") /\ UNCHANGED k_clock
  <2>1. PICK call : /\ CallMoves(p, call)
                    /\ call.at = "failed" /\ call.version = k_publishes[p].version
                    /\ call.stamp = k_publishes[p].stamp
    BY <1>3, AtMoves
  <2>2. CallHolds(p, call)
    BY <1>1, <1>2, <2>1 DEF CallHolds
  <2>3. k_files \subseteq k_files' /\ k_files' \subseteq Publishers
    BY <1>2, <1>3
  <2> QED BY <1>2, <1>3, <2>1, <2>2, <2>3, QuietCall
<1>4. CASE /\ k_files' = k_files \cup {p} /\ k_clock' = k_clock + 1
           /\ k_publishes' = [k_publishes EXCEPT ![p].at = "stored", ![p].stamp = k_clock + 1]
  <2>1. PICK n \in K!Stamps : n = k_clock + 1 /\ k_clock \in Nat
    BY <1>1, <1>2, ClockRoom DEF SkillsInv
  <2>2. PICK call \in PublishType :
          /\ \A f : [f EXCEPT ![p] = [old EXCEPT !.at = "stored", !.stamp = n]] = [f EXCEPT ![p] = call]
          /\ call.at = "stored" /\ call.version = old.version /\ call.stamp = n
    <3> DEFINE new == [old EXCEPT !.at = "stored", !.stamp = n]
    <3>1. new \in PublishType /\ new.at = "stored" /\ new.version = old.version /\ new.stamp = n
      BY Zenon DEF PublishType
    <3>2. \A f : [f EXCEPT ![p] = [old EXCEPT !.at = "stored", !.stamp = n]] = [f EXCEPT ![p] = new]
      OBVIOUS
    <3> HIDE DEF new
    <3> QED BY <3>1, <3>2
  <2>3. CallMoves(p, call)
    <3>1. k_publishes' = [k_publishes EXCEPT ![p].at = "stored", ![p].stamp = n]
      BY <1>4, <2>1
    <3>2. k_publishes' = [k_publishes EXCEPT ![p] = call]
      <4>1. k_publishes' = [k_publishes EXCEPT ![p] = [old EXCEPT !.at = "stored", !.stamp = n]]
        BY <1>1, <3>1, StoredWrite DEF SkillsInv, K!TypeOK
      <4> QED BY <2>2, <4>1
    <3> QED BY <2>2, <3>2 DEF CallMoves
  <2>4. n # 0
    BY <2>1
  <2>5. ClockCounts'
    BY <1>1, <1>2, <1>4, <2>1, <2>2, <2>3, <2>4, ClockTicks DEF SkillsInv
  <2>6. CallHolds(p, call)'
    BY <1>1, <1>2, <1>4, <2>2, <2>4 DEF CallHolds, K!Published
  <2>7. CallsHold' /\ CatalogueStored' /\ LatestStands' /\ UNCHANGED K!Published
    BY <1>2, <1>4, <2>3, <2>6, CallAside
  <2>8. PinsPublished' /\ AnswersHold' /\ K!PinHolds'
    BY <1>2, <2>7, SessionsAside
  <2>9. K!TypeOK'
    BY <1>2, <1>4, <2>1, <2>3, Moved DEF SkillsInv, K!TypeOK, PublishType
  <2> QED BY <2>5, <2>7, <2>8, <2>9 DEF SkillsInv
<1> QED BY <1>3, <1>4 DEF K!PublishStores

\* The call that enters its version: no other did, so that its package is the one.
LEMMA PublishCreatesInv ==
  ASSUME SkillsInv, NEW p \in Publishers, K!PublishCreates(p)
  PROVE  SkillsInv'
<1>1. PICK old \in PublishType : old = k_publishes[p] /\ CallHolds(p, old)
  BY CallType DEF SkillsInv, CallsHold
<1>2. /\ old.at = "stored" /\ old.stamp # 0 /\ old.version \in Versions /\ p \in k_files
      /\ UNCHANGED <<k_files, k_skill, k_pins, k_resolves, k_clock, k_faults>>
      /\ k_files \subseteq Publishers /\ k_faults' \in 0..MaxErrors
  BY <1>1 DEF K!PublishCreates, SkillsInv, K!TypeOK, CallHolds
<1>3. CASE K!PublishAt(p, "lost") /\ UNCHANGED k_catalogue
  <2>1. PICK call : /\ CallMoves(p, call)
                    /\ call.at = "lost" /\ call.version = k_publishes[p].version
                    /\ call.stamp = k_publishes[p].stamp
    BY <1>3, AtMoves
  <2>2. CallHolds(p, call)
    BY <1>1, <1>2, <2>1 DEF CallHolds
  <2> QED BY <1>2, <1>3, <2>1, <2>2, QuietCall
<1>4. CASE /\ k_catalogue[old.version] = K!NoVersion /\ K!PublishAt(p, "created")
           /\ k_catalogue' = [k_catalogue EXCEPT ![old.version] = [file |-> p, stamp |-> old.stamp]]
  <2>1. PICK call : /\ CallMoves(p, call)
                    /\ call.at = "created" /\ call.version = old.version
                    /\ call.stamp = old.stamp
    BY <1>1, <1>4, AtMoves
  <2>2. PICK entry \in [file : Publishers \cup {None}, stamp : K!Stamps] :
          /\ entry = [file |-> p, stamp |-> old.stamp]
          /\ entry.file = p /\ entry.stamp = old.stamp /\ entry # K!NoVersion
    <3> DEFINE new == [file |-> p, stamp |-> old.stamp]
    <3>1. old.stamp \in K!Stamps
      BY DEF PublishType
    <3>2. new \in [file : Publishers \cup {None}, stamp : K!Stamps]
      BY <3>1
    <3>3. new.file = p /\ new.stamp = old.stamp /\ new # K!NoVersion
      BY <1>2 DEF K!NoVersion
    <3> QED BY <3>2, <3>3, Zenon
  <2>3. /\ k_catalogue' \in [Versions -> [file : Publishers \cup {None}, stamp : K!Stamps]]
        /\ k_catalogue'[old.version] = entry
        /\ \A v \in Versions \ {old.version} : k_catalogue'[v] = k_catalogue[v]
        /\ old.version \notin K!Published
    BY <1>2, <1>4, <2>2 DEF SkillsInv, K!TypeOK, K!Published
  <2>4. K!Published' = K!Published \cup {old.version}
    BY <1>2, <2>2, <2>3 DEF K!Published
  <2>5. CatalogueStored'
    BY <1>2, <2>2, <2>3, <2>4 DEF SkillsInv, CatalogueStored, K!Published
  <2>6. LatestStands'
    <3>1. k_skill.stamp # 0 => k_skill.latest \in K!Published
      BY DEF SkillsInv, LatestStands, K!Published, K!NoVersion
    <3> QED BY <1>2, <2>3, <3>1 DEF SkillsInv, LatestStands
  <2>7. CallsHold'
    <3>1. CallHolds(p, k_publishes[p])'
      BY <1>1, <1>2, <2>1, <2>2, <2>3, Moved DEF SkillsInv, CallHolds
    <3>2. ASSUME NEW q \in Publishers \ {p} PROVE CallHolds(q, k_publishes[q])'
      <4>1. k_publishes'[q] = k_publishes[q] /\ CallHolds(q, k_publishes[q])
        BY <2>1, Moved DEF SkillsInv, CallsHold
      <4>2. \A v \in K!Published' : (v \in K!Published /\ k_catalogue'[v] = k_catalogue[v]) \/ k_catalogue'[v].file = p
        BY <2>2, <2>3, <2>4 DEF K!Published
      <4>3. k_publishes[q].at \in {"created", "listed", "published"} =>
              k_publishes[q].version \in K!Published
        BY <4>1 DEF CallHolds, K!Published, K!NoVersion
      <4> QED BY <1>2, <2>3, <4>1, <4>2, <4>3 DEF CallHolds
    <3> QED BY <3>1, <3>2 DEF CallsHold
  <2>8. PinsPublished' /\ AnswersHold' /\ K!PinHolds'
    BY <1>2, <2>4, SessionsAside
  <2>9. ClockCounts'
    BY <1>1, <1>2, <2>1, SameClock DEF SkillsInv
  <2>10. K!TypeOK'
    BY <1>2, <2>1, <2>3, Moved DEF SkillsInv, K!TypeOK, PublishType
  <2> QED BY <2>5, <2>6, <2>7, <2>8, <2>9, <2>10 DEF SkillsInv
<1> QED BY <1>1, <1>3, <1>4 DEF K!PublishCreates

\* A call that is at one place moves to another, and the catalogue stays.
LEMMA AtStep ==
  ASSUME SkillsInv, NEW p \in Publishers,
         NEW at \in {"open", "lost", "created", "listed", "published", "already", "failed"},
         K!PublishAt(p, at), UNCHANGED <<k_catalogue, k_pins, k_resolves, k_clock>>,
         k_faults' \in 0..MaxErrors, k_files' \subseteq Publishers,
         k_skill' \in [exists : BOOLEAN, latest : Versions \cup {None}, stamp : K!Stamps]
  PROVE  /\ \E call : /\ CallMoves(p, call) /\ k_publishes'[p] = call
                      /\ call.at = at /\ call.version = k_publishes[p].version
                      /\ call.stamp = k_publishes[p].stamp
         /\ \A q \in Publishers \ {p} : k_publishes'[q] = k_publishes[q]
         /\ K!TypeOK' /\ ClockCounts' /\ PinsPublished' /\ AnswersHold' /\ K!PinHolds'
         /\ K!Published' = K!Published
<1>1. PICK call : /\ CallMoves(p, call)
                  /\ call.at = at /\ call.version = k_publishes[p].version
                  /\ call.stamp = k_publishes[p].stamp
  BY AtMoves
<1>2. K!Published' = K!Published
  BY DEF K!Published
<1>3. PinsPublished' /\ AnswersHold' /\ K!PinHolds'
  BY <1>2, SessionsAside
<1>4. ClockCounts'
  BY <1>1, SameClock DEF SkillsInv
<1>5. K!TypeOK'
  BY <1>1, Moved DEF SkillsInv, K!TypeOK, PublishType
<1>6. k_publishes'[p] = call /\ \A q \in Publishers \ {p} : k_publishes'[q] = k_publishes[q]
  BY <1>1, Moved DEF SkillsInv
<1> QED BY <1>1, <1>2, <1>3, <1>4, <1>5, <1>6

LEMMA PublishEndsInv ==
  ASSUME SkillsInv, NEW p \in Publishers,
         K!PublishDiscards(p) \/ K!PublishLists(p) \/ K!PublishPoints(p)
  PROVE  SkillsInv'
<1>1. PICK old \in PublishType : old = k_publishes[p] /\ CallHolds(p, old)
  BY CallType DEF SkillsInv, CallsHold
<1>2. /\ UNCHANGED <<k_catalogue, k_pins, k_resolves, k_clock>>
      /\ k_faults' \in 0..MaxErrors /\ k_files' \subseteq Publishers
      /\ k_skill \in [exists : BOOLEAN, latest : Versions \cup {None}, stamp : K!Stamps]
  BY FaultCounts DEF K!PublishDiscards, K!PublishLists, K!PublishPoints, SkillsInv, K!TypeOK
<1>3. CASE K!PublishDiscards(p)
  <2>1. /\ old.at = "lost" /\ K!PublishAt(p, "already") /\ UNCHANGED k_skill
        /\ k_files' = k_files \ {p} \/ k_files' = k_files
    BY <1>1, <1>3 DEF K!PublishDiscards
  <2>2. PICK call : /\ k_publishes'[p] = call /\ call.at = "already"
                    /\ call.version = old.version /\ call.stamp = old.stamp
    BY <1>1, <1>2, <2>1, AtStep
  <2>3. \A q \in Publishers \ {p} : k_publishes'[q] = k_publishes[q]
    BY <1>2, <2>1, AtStep
  <2>4. /\ K!TypeOK' /\ ClockCounts' /\ PinsPublished' /\ AnswersHold' /\ K!PinHolds'
        /\ K!Published' = K!Published
    BY <1>2, <2>1, AtStep
  <2>5. CatalogueStored' /\ LatestStands'
    BY <1>1, <1>2, <2>1, <2>4 DEF SkillsInv, CatalogueStored, LatestStands, CallHolds
  <2>6. CallsHold'
    <3>1. CallHolds(p, k_publishes[p])'
      BY <1>1, <1>2, <2>1, <2>2, <2>4 DEF CallHolds
    <3>2. ASSUME NEW q \in Publishers \ {p} PROVE CallHolds(q, k_publishes[q])'
      BY <1>2, <2>1, <2>3, <2>4 DEF SkillsInv, CallsHold, CallHolds
    <3> QED BY <3>1, <3>2 DEF CallsHold
  <2> QED BY <2>4, <2>5, <2>6 DEF SkillsInv
<1>4. CASE K!PublishLists(p)
  <2>1. /\ old.at = "created" /\ K!PublishAt(p, "listed") /\ UNCHANGED k_files
        /\ k_skill' = [k_skill EXCEPT !.exists = TRUE]
    BY <1>1, <1>4 DEF K!PublishLists
  <2>2. /\ k_skill' \in [exists : BOOLEAN, latest : Versions \cup {None}, stamp : K!Stamps]
        /\ k_skill'.exists = TRUE /\ k_skill'.latest = k_skill.latest /\ k_skill'.stamp = k_skill.stamp
    BY <1>2, <2>1
  <2>3. PICK call : /\ k_publishes'[p] = call /\ call.at = "listed"
                    /\ call.version = old.version /\ call.stamp = old.stamp
    <3>1. \E call : /\ CallMoves(p, call) /\ k_publishes'[p] = call
                    /\ call.at = "listed" /\ call.version = k_publishes[p].version
                    /\ call.stamp = k_publishes[p].stamp
      <4>1. /\ UNCHANGED <<k_catalogue, k_pins, k_resolves, k_clock>> /\ k_files' \subseteq Publishers
            /\ k_faults' \in 0..MaxErrors /\ K!PublishAt(p, "listed")
            /\ k_skill' \in [exists : BOOLEAN, latest : Versions \cup {None}, stamp : K!Stamps]
        BY <1>2, <2>1, <2>2
      <4> QED BY <4>1, AtStep
    <3> QED BY <1>1, <3>1
  <2>4. \A q \in Publishers \ {p} : k_publishes'[q] = k_publishes[q]
    BY <1>2, <2>1, <2>2, AtStep
  <2>5. /\ K!TypeOK' /\ ClockCounts' /\ PinsPublished' /\ AnswersHold' /\ K!PinHolds'
        /\ K!Published' = K!Published
    BY <1>2, <2>1, <2>2, AtStep
  <2>6. CatalogueStored' /\ LatestStands'
    BY <1>2, <2>1, <2>2, <2>5 DEF SkillsInv, CatalogueStored, LatestStands
  <2>7. CallsHold'
    <3>1. CallHolds(p, k_publishes[p])'
      BY <1>1, <1>2, <2>1, <2>2, <2>3, <2>5 DEF CallHolds
    <3>2. ASSUME NEW q \in Publishers \ {p} PROVE CallHolds(q, k_publishes[q])'
      BY <1>2, <2>1, <2>2, <2>4, <2>5 DEF SkillsInv, CallsHold, CallHolds
    <3> QED BY <3>1, <3>2 DEF CallsHold
  <2> QED BY <2>5, <2>6, <2>7 DEF SkillsInv
<1>5. CASE K!PublishPoints(p)
  <2>1. /\ old.at = "listed" /\ K!PublishAt(p, "published") /\ UNCHANGED k_files
        /\ k_skill' = IF old.stamp < k_skill.stamp THEN k_skill
                      ELSE [k_skill EXCEPT !.latest = old.version, !.stamp = old.stamp]
    BY <1>1, <1>5 DEF K!PublishPoints
  <2>2. /\ old.stamp \in K!Stamps /\ old.stamp # 0 /\ old.version \in Versions
        /\ k_catalogue[old.version] = [file |-> p, stamp |-> old.stamp] /\ k_skill.exists
    BY <1>1, <2>1 DEF CallHolds, PublishType
  <2>3. CASE old.stamp < k_skill.stamp
    <3>1. UNCHANGED k_skill
      BY <2>1, <2>3
    <3>2. PICK call : /\ CallMoves(p, call)
                      /\ call.at = "published" /\ call.version = k_publishes[p].version
                      /\ call.stamp = k_publishes[p].stamp
      BY <2>1, AtMoves
    <3>3. CallHolds(p, call)
      BY <1>1, <1>2, <2>1, <2>2, <2>3, <3>2, SkillsAssumption DEF CallHolds
    <3> QED BY <1>2, <2>1, <3>1, <3>2, <3>3, QuietCall
  <2>4. CASE ~(old.stamp < k_skill.stamp)
    <3>1. /\ k_skill' \in [exists : BOOLEAN, latest : Versions \cup {None}, stamp : K!Stamps]
          /\ k_skill'.exists = k_skill.exists
          /\ k_skill'.latest = old.version /\ k_skill'.stamp = old.stamp
      BY <1>2, <2>1, <2>2, <2>4
    <3>2. PICK call : /\ k_publishes'[p] = call /\ call.at = "published"
                      /\ call.version = old.version /\ call.stamp = old.stamp
      BY <1>1, <1>2, <2>1, <3>1, AtStep
    <3>3. \A q \in Publishers \ {p} : k_publishes'[q] = k_publishes[q]
      BY <1>2, <2>1, <3>1, AtStep
    <3>4. /\ K!TypeOK' /\ ClockCounts' /\ PinsPublished' /\ AnswersHold' /\ K!PinHolds'
          /\ K!Published' = K!Published
      BY <1>2, <2>1, <3>1, AtStep
    <3>5. CatalogueStored' /\ LatestStands'
      BY <1>2, <2>1, <2>2, <3>1, <3>4 DEF SkillsInv, CatalogueStored, LatestStands
    <3>6. k_skill.stamp <= k_skill'.stamp /\ k_skill'.stamp >= old.stamp
          /\ k_skill.stamp \in Nat /\ k_skill'.stamp \in Nat
      BY <1>2, <2>2, <2>4, <3>1, SkillsAssumption
    <3>7. CallHolds(p, k_publishes[p])'
      BY <1>1, <1>2, <2>1, <2>2, <3>1, <3>2, <3>4, <3>6 DEF CallHolds
    <3>8. ASSUME NEW q \in Publishers \ {p} PROVE CallHolds(q, k_publishes[q])'
      <4>1. k_publishes[q].stamp \in Nat /\ CallHolds(q, k_publishes[q])
        BY CallType, SkillsAssumption DEF SkillsInv, CallsHold, PublishType
      <4> QED BY <1>2, <2>1, <3>1, <3>3, <3>4, <3>6, <4>1 DEF CallHolds
    <3> QED BY <3>4, <3>5, <3>7, <3>8 DEF SkillsInv, CallsHold
  <2> QED BY <2>3, <2>4
<1> QED BY <1>3, <1>4, <1>5

-----------------------------------------------------------------------------
(* Calls of resolve. *)

\* They leave what was published.
LEMMA CatalogueAside ==
  ASSUME SkillsInv, UNCHANGED <<k_files, k_catalogue, k_skill, k_publishes, k_clock>>
  PROVE  /\ ClockCounts' /\ CallsHold' /\ CatalogueStored' /\ LatestStands'
         /\ UNCHANGED K!Published
<1>1. UNCHANGED K!Published /\ UNCHANGED Stamped
  BY DEF K!Published, Stamped
<1> QED BY <1>1 DEF SkillsInv, ClockCounts, CallsHold, CallHolds, CatalogueStored, LatestStands

LEMMA AnswerStep ==
  ASSUME SkillsInv, NEW r \in Resolvers, NEW call \in ResolveType,
         k_resolves' = [k_resolves EXCEPT ![r] = call],
         UNCHANGED <<k_files, k_catalogue, k_skill, k_pins, k_publishes, k_clock, k_faults>>,
         AnswerHolds(call),
         call.at \in {"answered", "downloaded"} =>
           \/ k_pins[call.session] # Gone
           \/ /\ k_resolves[r].at \in {"answered", "downloaded"}
              /\ k_resolves[r].session = call.session /\ k_resolves[r].version = call.version
  PROVE  SkillsInv'
<1>1. ClockCounts' /\ CallsHold' /\ CatalogueStored' /\ LatestStands' /\ UNCHANGED K!Published
  BY CatalogueAside
<1>2. /\ k_resolves' \in [Resolvers -> ResolveType] /\ k_resolves'[r] = call
      /\ \A q \in Resolvers \ {r} : k_resolves'[q] = k_resolves[q]
  BY DEF SkillsInv, K!TypeOK, ResolveType
<1>3. K!TypeOK'
  BY <1>2 DEF SkillsInv, K!TypeOK, ResolveType
<1>4. PinsPublished'
  BY <1>1 DEF SkillsInv, PinsPublished, K!Pinned
<1>5. AnswersHold'
  BY <1>1, <1>2 DEF SkillsInv, AnswersHold, AnswerHolds
<1>6. K!PinHolds'
  <2>1. ASSUME NEW q \in Resolvers \ {r}, {call.at, k_resolves[q].at} \subseteq {"answered", "downloaded"},
               call.session = k_resolves[q].session
        PROVE  call.version = k_resolves[q].version
    <3>1. k_pins[call.session] \in {call.version, Gone} /\ k_pins[call.session] \in {k_resolves[q].version, Gone}
      BY <2>1 DEF SkillsInv, AnswersHold, AnswerHolds
    <3>2. CASE k_pins[call.session] # Gone
      BY <3>1, <3>2
    <3>3. CASE /\ k_resolves[r].at \in {"answered", "downloaded"}
               /\ k_resolves[r].session = call.session /\ k_resolves[r].version = call.version
      BY <2>1, <3>3 DEF SkillsInv, K!PinHolds
    <3> QED BY <2>1, <3>2, <3>3
  <2>2. \A q, t \in Resolvers \ {r} :
          /\ {k_resolves[q].at, k_resolves[t].at} \subseteq {"answered", "downloaded"}
          /\ k_resolves[q].session = k_resolves[t].session
          => k_resolves[q].version = k_resolves[t].version
    BY DEF SkillsInv, K!PinHolds
  <2> QED BY <1>2, <2>1, <2>2 DEF K!PinHolds
<1> QED BY <1>1, <1>3, <1>4, <1>5, <1>6 DEF SkillsInv

\* What a call is answered by a pin.
LEMMA CheckedShape ==
  ASSUME NEW call \in ResolveType, NEW pin \in Versions
  PROVE  \E c \in ResolveType :
           /\ c = K!Checked(call, pin) /\ c.session = call.session
           /\ (c.at = "answered" /\ c.version = pin) \/ c.at = "refused"
<1> DEFINE c1 == [call EXCEPT !.at = "answered", !.version = pin]
           c2 == [call EXCEPT !.at = "refused"]
<1>1. c1 \in ResolveType /\ c1.session = call.session /\ c1.at = "answered" /\ c1.version = pin
  BY DEF ResolveType
<1>2. c2 \in ResolveType /\ c2.session = call.session /\ c2.at = "refused"
  BY DEF ResolveType
<1>3. K!Checked(call, pin) = c1 \/ K!Checked(call, pin) = c2
  BY DEF K!Checked
<1> HIDE DEF c1, c2
<1> QED BY <1>1, <1>2, <1>3

LEMMA ResolveAtShape ==
  ASSUME NEW call \in ResolveType,
         NEW at \in {"found", "alone", "target", "lost", "answered", "refused", "downloaded"}
  PROVE  \E c \in ResolveType :
           /\ c = [call EXCEPT !.at = at]
           /\ c.at = at /\ c.session = call.session /\ c.version = call.version
<1> DEFINE c1 == [call EXCEPT !.at = at]
<1>1. c1 \in ResolveType /\ c1.at = at /\ c1.session = call.session /\ c1.version = call.version
  BY DEF ResolveType
<1>2. c1 = [call EXCEPT !.at = at]
  OBVIOUS
<1> HIDE DEF c1
<1> QED BY <1>1, <1>2

\* There is a latest version as soon as one is published.
LEMMA LatestIsPublished ==
  ASSUME K!TypeOK, K!Published # {}
  PROVE  K!Latest \in K!Published
<1> DEFINE top == Cardinality(Publishers)
           Gaps == {n \in 0..top : \E v \in K!Published : n = top - k_catalogue[v].stamp}
<1>1. \A v \in K!Published : k_catalogue[v].stamp \in 0..top
  BY SkillsAssumption DEF K!TypeOK, K!Published
<1>2. Gaps \subseteq Nat
  BY SkillsAssumption
<1>3. \A v \in K!Published : top - k_catalogue[v].stamp \in Gaps
  BY <1>1, SkillsAssumption
<1>4. Gaps # {}
  BY <1>3
<1>5. PICK n \in Gaps : \A m \in Gaps : n <= m
  <2> HIDE DEF Gaps
  <2> QED BY <1>2, <1>4, LeastNat
<1>6. PICK v \in K!Published : n = top - k_catalogue[v].stamp
  BY <1>5
<1>7. ASSUME NEW w \in K!Published PROVE k_catalogue[w].stamp <= k_catalogue[v].stamp
  <2>1. n <= top - k_catalogue[w].stamp
    BY <1>3, <1>5
  <2>2. top - k_catalogue[v].stamp <= top - k_catalogue[w].stamp
    BY <1>6, <2>1
  <2>3. k_catalogue[v].stamp \in Nat /\ k_catalogue[w].stamp \in Nat /\ top \in Nat
    BY <1>1, SkillsAssumption
  <2> HIDE DEF top
  <2> QED BY <2>2, <2>3
<1>8. \E x \in K!Published : \A w \in K!Published : k_catalogue[w].stamp <= k_catalogue[x].stamp
  BY <1>7
<1> QED BY <1>8 DEF K!Latest

LEMMA ResolveOld ==
  ASSUME SkillsInv, NEW r \in Resolvers
  PROVE  \E old \in ResolveType : old = k_resolves[r] /\ AnswerHolds(old)
BY DEF SkillsInv, K!TypeOK, ResolveType, AnswersHold

\* An answer that is the pin's, or none.
LEMMA PinAnswers ==
  ASSUME SkillsInv, NEW r \in Resolvers, NEW call \in ResolveType, NEW pin \in Versions,
         k_pins[call.session] = pin, call.session \in K!Sessions,
         k_resolves' = [k_resolves EXCEPT ![r] = K!Checked(call, pin)],
         UNCHANGED <<k_files, k_catalogue, k_skill, k_pins, k_publishes, k_clock, k_faults>>
  PROVE  SkillsInv'
<1>1. PICK c \in ResolveType :
        /\ c = K!Checked(call, pin) /\ c.session = call.session
        /\ (c.at = "answered" /\ c.version = pin) \/ c.at = "refused"
  BY CheckedShape
<1>2. pin \in K!Published
  BY DEF SkillsInv, PinsPublished, K!Pinned
<1>3. AnswerHolds(c)
  BY <1>1, <1>2 DEF AnswerHolds
<1>4. pin # Gone
  BY SkillsAssumption
<1>5. k_resolves' = [k_resolves EXCEPT ![r] = c]
  BY <1>1
<1>6. c \in ResolveType /\ k_pins[c.session] # Gone
  BY <1>1, <1>4
<1> QED BY <1>3, <1>5, <1>6, AnswerStep

\* A call that moves to a place where nothing is promised yet.
LEMMA PlaceStep ==
  ASSUME SkillsInv, NEW r \in Resolvers, NEW call \in ResolveType,
         NEW at \in {"found", "alone", "lost", "refused"},
         k_resolves' = [k_resolves EXCEPT ![r] = [call EXCEPT !.at = at]],
         UNCHANGED <<k_files, k_catalogue, k_skill, k_pins, k_publishes, k_clock, k_faults>>
  PROVE  SkillsInv'
<1>1. PICK c \in ResolveType :
        /\ c = [call EXCEPT !.at = at]
        /\ c.at = at /\ c.session = call.session /\ c.version = call.version
  <2>1. at \in {"found", "alone", "target", "lost", "answered", "refused", "downloaded"}
    OBVIOUS
  <2> QED BY <2>1, ResolveAtShape
<1>2. AnswerHolds(c)
  BY <1>1 DEF AnswerHolds
<1>3. k_resolves' = [k_resolves EXCEPT ![r] = c]
  BY <1>1
<1> QED BY <1>1, <1>2, <1>3, AnswerStep

LEMMA ResolveReadsInv ==
  ASSUME SkillsInv, NEW r \in Resolvers, K!ResolveReads(r) \/ K!ResolveFinds(r) \/ K!ResolveLoses(r)
  PROVE  SkillsInv'
<1>1. PICK old \in ResolveType : old = k_resolves[r] /\ AnswerHolds(old)
  BY ResolveOld
<1>2. UNCHANGED <<k_files, k_catalogue, k_skill, k_pins, k_publishes, k_clock, k_faults>>
  BY DEF K!ResolveReads, K!ResolveFinds, K!ResolveLoses
<1>3. CASE K!ResolveReads(r)
  <2>1. PICK s \in K!Sessions, asked \in Asks :
          LET call == [at |-> "read", session |-> s, asked |-> asked, version |-> None]
          IN K!Resolved(r, IF k_pins[s] = Gone THEN [call EXCEPT !.at = "refused"]
                           ELSE IF K!Pinned(s) THEN K!Checked(call, k_pins[s]) ELSE call)
    BY <1>3 DEF K!ResolveReads
  <2>2. PICK call \in ResolveType :
          /\ call = [at |-> "read", session |-> s, asked |-> asked, version |-> None]
          /\ call.at = "read" /\ call.session = s
    <3> DEFINE c1 == [at |-> "read", session |-> s, asked |-> asked, version |-> None]
    <3>1. c1 \in ResolveType /\ c1.at = "read" /\ c1.session = s
      BY DEF ResolveType
    <3>2. c1 = [at |-> "read", session |-> s, asked |-> asked, version |-> None]
      OBVIOUS
    <3> HIDE DEF c1
    <3> QED BY <3>1, <3>2
  <2>3. k_resolves' = [k_resolves EXCEPT ![r] =
          IF k_pins[s] = Gone THEN [call EXCEPT !.at = "refused"]
          ELSE IF K!Pinned(s) THEN K!Checked(call, k_pins[s]) ELSE call]
    BY <2>1, <2>2 DEF K!Resolved
  <2>4. CASE k_pins[s] = Gone
    <3>1. k_resolves' = [k_resolves EXCEPT ![r] = [call EXCEPT !.at = "refused"]]
      BY <2>3, <2>4
    <3> QED BY <1>2, <3>1, PlaceStep
  <2>5. CASE k_pins[s] # Gone /\ K!Pinned(s)
    <3>1. PICK pin \in Versions : pin = k_pins[s]
      BY <2>5 DEF K!Pinned
    <3>2. k_resolves' = [k_resolves EXCEPT ![r] = K!Checked(call, pin)]
      BY <2>3, <2>5, <3>1
    <3> QED BY <1>2, <2>2, <3>1, <3>2, PinAnswers
  <2>6. CASE k_pins[s] # Gone /\ ~K!Pinned(s)
    <3>1. k_resolves' = [k_resolves EXCEPT ![r] = call]
      BY <2>3, <2>6
    <3>2. AnswerHolds(call)
      BY <2>2 DEF AnswerHolds
    <3> QED BY <1>2, <2>2, <3>1, <3>2, AnswerStep
  <2> QED BY <2>4, <2>5, <2>6
<1>4. CASE K!ResolveFinds(r)
  <2>1. PICK at \in {"found", "refused"} : k_resolves' = [k_resolves EXCEPT ![r] = [old EXCEPT !.at = at]]
    <3>1. CASE k_skill.exists
      BY <1>1, <1>4, <3>1 DEF K!ResolveFinds, K!Resolved
    <3>2. CASE ~k_skill.exists
      BY <1>1, <1>4, <3>2 DEF K!ResolveFinds, K!Resolved
    <3> QED BY <3>1, <3>2
  <2> QED BY <1>2, <2>1, PlaceStep
<1>5. CASE K!ResolveLoses(r)
  <2>1. k_resolves' = [k_resolves EXCEPT ![r] =
          IF K!Pinned(old.session) THEN K!Checked(old, k_pins[old.session])
          ELSE [old EXCEPT !.at = "refused"]]
    BY <1>1, <1>5 DEF K!ResolveLoses, K!Resolved
  <2>2. CASE K!Pinned(old.session)
    <3>1. PICK pin \in Versions : pin = k_pins[old.session]
      BY <2>2 DEF K!Pinned
    <3>2. k_resolves' = [k_resolves EXCEPT ![r] = K!Checked(old, pin)]
      BY <2>1, <2>2, <3>1
    <3>3. old.session \in K!Sessions
      BY DEF ResolveType
    <3> QED BY <1>2, <3>1, <3>2, <3>3, PinAnswers
  <2>3. CASE ~K!Pinned(old.session)
    <3>1. k_resolves' = [k_resolves EXCEPT ![r] = [old EXCEPT !.at = "refused"]]
      BY <2>1, <2>3
    <3> QED BY <1>2, <3>1, PlaceStep
  <2> QED BY <2>2, <2>3
<1> QED BY <1>3, <1>4, <1>5

LEMMA ResolveTargetsInv ==
  ASSUME SkillsInv, NEW r \in Resolvers, K!ResolveInherits(r) \/ K!ResolveChooses(r)
  PROVE  SkillsInv'
<1>1. PICK old \in ResolveType : old = k_resolves[r] /\ AnswerHolds(old)
  BY ResolveOld
<1>2. UNCHANGED <<k_files, k_catalogue, k_skill, k_pins, k_publishes, k_clock, k_faults>>
  BY DEF K!ResolveInherits, K!ResolveChooses
<1>3. ASSUME NEW call \in ResolveType, k_resolves' = [k_resolves EXCEPT ![r] = call],
             call.at = "target", call.version \in K!Published
      PROVE  SkillsInv'
  <2>1. AnswerHolds(call)
    BY <1>3 DEF AnswerHolds
  <2> QED BY <1>2, <1>3, <2>1, AnswerStep
<1>4. CASE K!ResolveInherits(r)
  <2>1. CASE old.session = Child /\ K!Pinned(Parent)
    <3>1. PICK pin \in Versions : pin = k_pins[Parent]
      BY <2>1 DEF K!Pinned
    <3>2. pin \in K!Published
      BY <2>1, <3>1 DEF SkillsInv, PinsPublished, K!Sessions, K!Pinned
    <3>3. PICK c \in ResolveType :
            /\ c = K!Checked(old, pin) /\ c.session = old.session
            /\ (c.at = "answered" /\ c.version = pin) \/ c.at = "refused"
      BY CheckedShape
    <3>4. k_resolves' = [k_resolves EXCEPT ![r] =
            IF c.at = "refused" THEN c ELSE [c EXCEPT !.at = "target"]]
      BY <1>1, <1>4, <2>1, <3>1, <3>3 DEF K!ResolveInherits, K!Resolved
    <3>5. CASE c.at = "refused"
      <4>1. AnswerHolds(c)
        BY <3>5 DEF AnswerHolds
      <4>2. k_resolves' = [k_resolves EXCEPT ![r] = c]
        BY <3>4, <3>5
      <4> QED BY <1>2, <3>5, <4>1, <4>2, AnswerStep
    <3>6. CASE c.at # "refused"
      <4>1. PICK t \in ResolveType :
              /\ t = [c EXCEPT !.at = "target"]
              /\ t.at = "target" /\ t.session = c.session /\ t.version = c.version
        BY ResolveAtShape
      <4>2. k_resolves' = [k_resolves EXCEPT ![r] = t]
        BY <3>4, <3>6, <4>1
      <4> QED BY <1>3, <3>2, <3>3, <3>6, <4>1, <4>2
    <3> QED BY <3>5, <3>6
  <2>2. CASE ~(old.session = Child /\ K!Pinned(Parent))
    <3>1. k_resolves' = [k_resolves EXCEPT ![r] = [old EXCEPT !.at = "alone"]]
      BY <1>1, <1>4, <2>2 DEF K!ResolveInherits, K!Resolved
    <3> QED BY <1>2, <3>1, PlaceStep
  <2> QED BY <2>1, <2>2
<1>5. CASE K!ResolveChooses(r)
  <2> DEFINE found == IF old.asked = None THEN K!Published # {} ELSE old.asked \in K!Published
             chosen == IF old.asked = None THEN K!Latest ELSE old.asked
  <2>1. k_resolves' = [k_resolves EXCEPT ![r] =
          IF ~found THEN [old EXCEPT !.at = "refused"]
          ELSE [old EXCEPT !.at = "target", !.version = chosen]]
    BY <1>1, <1>5 DEF K!ResolveChooses, K!Resolved
  <2>2. CASE ~found
    <3>1. k_resolves' = [k_resolves EXCEPT ![r] = [old EXCEPT !.at = "refused"]]
      BY <2>1, <2>2
    <3> QED BY <1>2, <3>1, PlaceStep
  <2>3. CASE found
    <3>1. PICK v \in K!Published : v = chosen
      BY <2>3, LatestIsPublished DEF SkillsInv
    <3>2. v \in Versions
      BY DEF K!Published
    <3>3. PICK call \in ResolveType :
            /\ call = [old EXCEPT !.at = "target", !.version = v]
            /\ call.at = "target" /\ call.version = v
      <4> DEFINE new == [old EXCEPT !.at = "target", !.version = v]
      <4>1. new \in ResolveType /\ new.at = "target" /\ new.version = v
        BY <3>2 DEF ResolveType
      <4>2. new = [old EXCEPT !.at = "target", !.version = v]
        OBVIOUS
      <4> HIDE DEF new
      <4> QED BY <4>1, <4>2
    <3>4. k_resolves' = [k_resolves EXCEPT ![r] = call]
      BY <2>1, <2>3, <3>1, <3>3
    <3> QED BY <1>3, <3>3, <3>4
  <2> QED BY <2>2, <2>3
<1> QED BY <1>4, <1>5

LEMMA DownloadInv ==
  ASSUME SkillsInv, NEW r \in Resolvers, K!DownloadPackage(r)
  PROVE  SkillsInv'
<1>1. PICK old \in ResolveType : old = k_resolves[r] /\ AnswerHolds(old)
  BY ResolveOld
<1>2. /\ UNCHANGED <<k_files, k_catalogue, k_skill, k_pins, k_publishes, k_clock, k_faults>>
      /\ old.at = "answered"
  BY <1>1 DEF K!DownloadPackage
<1>3. k_catalogue[old.version].file \in k_files
  BY <1>1, <1>2 DEF AnswerHolds, SkillsInv, CatalogueStored
<1>4. PICK call \in ResolveType :
        /\ call = [old EXCEPT !.at = "downloaded"]
        /\ call.at = "downloaded" /\ call.session = old.session /\ call.version = old.version
  BY ResolveAtShape
<1>5. k_resolves' = [k_resolves EXCEPT ![r] = call]
  BY <1>1, <1>3, <1>4 DEF K!DownloadPackage, K!Resolved
<1>6. AnswerHolds(call)
  BY <1>1, <1>2, <1>4 DEF AnswerHolds
<1> QED BY <1>1, <1>2, <1>4, <1>5, <1>6, AnswerStep

\* The one step that writes a pin: no one was answered while there was none.
LEMMA ResolvePinsInv ==
  ASSUME SkillsInv, NEW r \in Resolvers, K!ResolvePins(r)
  PROVE  SkillsInv'
<1>1. PICK old \in ResolveType : old = k_resolves[r] /\ AnswerHolds(old)
  BY ResolveOld
<1>2. /\ UNCHANGED <<k_files, k_catalogue, k_skill, k_publishes, k_clock, k_faults>>
      /\ old.at = "target" /\ old.session \in K!Sessions
      /\ old.version \in K!Published /\ old.version \in Versions
  BY <1>1 DEF K!ResolvePins, AnswerHolds, K!Published, ResolveType
<1>3. CASE k_pins[old.session] = None
  <2>1. /\ k_pins' = [k_pins EXCEPT ![old.session] = old.version]
        /\ k_resolves' = [k_resolves EXCEPT ![r] = [old EXCEPT !.at = "answered"]]
    BY <1>1, <1>3 DEF K!ResolvePins, K!Resolved
  <2>2. PICK call \in ResolveType :
          /\ call = [old EXCEPT !.at = "answered"]
          /\ call.at = "answered" /\ call.session = old.session /\ call.version = old.version
    BY ResolveAtShape
  <2>3. /\ k_resolves' \in [Resolvers -> ResolveType] /\ k_resolves'[r] = call
        /\ \A q \in Resolvers \ {r} : k_resolves'[q] = k_resolves[q]
    BY <2>1, <2>2 DEF SkillsInv, K!TypeOK, ResolveType
  <2>4. /\ k_pins' \in [K!Sessions -> Versions \cup {None, Gone}]
        /\ k_pins'[old.session] = old.version
        /\ \A s \in K!Sessions \ {old.session} : k_pins'[s] = k_pins[s]
    BY <1>2, <2>1 DEF SkillsInv, K!TypeOK
  <2>5. ASSUME NEW q \in Resolvers, k_resolves[q].at \in {"answered", "downloaded"}
        PROVE  k_resolves[q].session # old.session
    <3>1. k_resolves[q].version \in Versions /\ k_pins[k_resolves[q].session] \in {k_resolves[q].version, Gone}
      BY <2>5 DEF SkillsInv, AnswersHold, AnswerHolds, K!Published
    <3> QED BY <1>3, <3>1, SkillsAssumption
  <2>6. ClockCounts' /\ CallsHold' /\ CatalogueStored' /\ LatestStands' /\ UNCHANGED K!Published
    BY <1>2, CatalogueAside
  <2>7. PinsPublished'
    BY <1>2, <2>4, <2>6 DEF SkillsInv, PinsPublished, K!Pinned
  <2>8. AnswersHold'
    <3>1. AnswerHolds(k_resolves[r])'
      BY <1>2, <2>2, <2>3, <2>4, <2>6 DEF AnswerHolds
    <3>2. ASSUME NEW q \in Resolvers \ {r} PROVE AnswerHolds(k_resolves[q])'
      <4>1. k_resolves[q].session \in K!Sessions /\ k_resolves'[q] = k_resolves[q]
            /\ AnswerHolds(k_resolves[q])
        BY <2>3 DEF SkillsInv, K!TypeOK, AnswersHold
      <4>2. k_resolves[q].at \in {"answered", "downloaded"} =>
              k_pins'[k_resolves[q].session] = k_pins[k_resolves[q].session]
        BY <2>4, <2>5, <4>1
      <4> QED BY <2>6, <4>1, <4>2 DEF AnswerHolds
    <3> QED BY <3>1, <3>2 DEF AnswersHold
  <2>9. K!PinHolds'
    <3>1. SUFFICES ASSUME NEW q \in Resolvers, NEW t \in Resolvers,
                          k_resolves'[q].at \in {"answered", "downloaded"},
                          k_resolves'[t].at \in {"answered", "downloaded"},
                          k_resolves'[q].session = k_resolves'[t].session
                   PROVE  k_resolves'[q].version = k_resolves'[t].version
      BY DEF K!PinHolds
    <3>2. CASE q # r /\ t # r
      BY <2>3, <3>1, <3>2 DEF SkillsInv, K!PinHolds
    <3>3. CASE q = r \/ t = r
      <4>1. q = t
        <5>1. k_resolves'[r].session = old.session
          BY <2>2, <2>3
        <5>2. ASSUME NEW u \in Resolvers \ {r}, k_resolves'[u].at \in {"answered", "downloaded"}
              PROVE  k_resolves'[u].session # old.session
          <6>1. k_resolves'[u] = k_resolves[u]
            BY <2>3
          <6> QED BY <2>5, <5>2, <6>1
        <5>3. CASE q = r
          BY <3>1, <5>1, <5>2, <5>3
        <5>4. CASE t = r
          BY <3>1, <5>1, <5>2, <5>4
        <5> QED BY <3>3, <5>3, <5>4
      <4> QED BY <4>1
    <3> QED BY <3>2, <3>3
  <2>10. K!TypeOK'
    BY <1>2, <2>3, <2>4 DEF SkillsInv, K!TypeOK, ResolveType
  <2> QED BY <2>6, <2>7, <2>8, <2>9, <2>10 DEF SkillsInv
<1>4. CASE k_pins[old.session] # None
  <2>1. UNCHANGED k_pins /\ k_resolves' = [k_resolves EXCEPT ![r] = [old EXCEPT !.at = "lost"]]
    BY <1>1, <1>4 DEF K!ResolvePins, K!Resolved
  <2> QED BY <1>2, <2>1, PlaceStep
<1> QED BY <1>3, <1>4

-----------------------------------------------------------------------------
(* Sessions that are deleted, crashes, and the step. *)

LEMMA DeleteSessionInv ==
  ASSUME SkillsInv, NEW s \in K!Sessions, K!DeleteSession(s)
  PROVE  SkillsInv'
<1>1. /\ UNCHANGED <<k_files, k_catalogue, k_skill, k_publishes, k_resolves, k_clock>>
      /\ k_pins' = [k_pins EXCEPT ![s] = Gone] /\ k_faults' \in 0..MaxErrors
  BY FaultCounts DEF K!DeleteSession, SkillsInv
<1>2. /\ k_pins' \in [K!Sessions -> Versions \cup {None, Gone}] /\ k_pins'[s] = Gone
      /\ \A t \in K!Sessions \ {s} : k_pins'[t] = k_pins[t]
  BY <1>1 DEF SkillsInv, K!TypeOK
<1>3. ClockCounts' /\ CallsHold' /\ CatalogueStored' /\ LatestStands' /\ UNCHANGED K!Published
  BY <1>1, CatalogueAside
<1>4. PinsPublished'
  BY <1>2, <1>3, SkillsAssumption DEF SkillsInv, PinsPublished, K!Pinned
<1>5. ASSUME NEW q \in Resolvers PROVE AnswerHolds(k_resolves[q])'
  <2>1. k_resolves[q].session \in K!Sessions
    BY DEF SkillsInv, K!TypeOK
  <2> QED BY <1>1, <1>2, <1>3, <2>1 DEF SkillsInv, AnswersHold, AnswerHolds
<1>6. K!PinHolds' /\ K!TypeOK'
  BY <1>1, <1>2 DEF SkillsInv, K!PinHolds, K!TypeOK
<1> QED BY <1>3, <1>4, <1>5, <1>6 DEF SkillsInv, AnswersHold

LEMMA CrashInv ==
  ASSUME SkillsInv, K!Crash
  PROVE  SkillsInv'
<1>1. /\ UNCHANGED <<k_files, k_catalogue, k_skill, k_pins, k_clock>> /\ k_faults' \in 0..MaxErrors
  BY FaultCounts DEF K!Crash, SkillsInv
<1>2. UNCHANGED K!Published
  BY <1>1 DEF K!Published
<1>3. ASSUME NEW p \in Publishers
      PROVE  /\ k_publishes'[p] \in PublishType
             /\ k_publishes'[p].stamp = k_publishes[p].stamp
             /\ CallHolds(p, k_publishes[p])'
  <2>1. PICK old \in PublishType : old = k_publishes[p] /\ CallHolds(p, old)
    BY CallType DEF SkillsInv, CallsHold
  <2>2. PICK call \in PublishType :
          /\ call = [old EXCEPT !.at = "failed"]
          /\ call.at = "failed" /\ call.version = old.version /\ call.stamp = old.stamp
    BY AtShape
  <2>3. k_publishes'[p] = old \/ (old.at # "off" /\ k_publishes'[p] = call)
    BY <2>1, <2>2 DEF K!Crash
  <2>4. CASE k_publishes'[p] = old
    BY <1>1, <1>2, <2>1, <2>4 DEF CallHolds
  <2>5. CASE old.at # "off" /\ k_publishes'[p] = call
    BY <1>1, <1>2, <2>1, <2>2, <2>5 DEF CallHolds
  <2> QED BY <2>3, <2>4, <2>5
<1>4. ASSUME NEW r \in Resolvers
      PROVE  /\ k_resolves'[r] \in ResolveType
             /\ k_resolves'[r] = k_resolves[r] \/ k_resolves'[r].at = "refused"
             /\ AnswerHolds(k_resolves[r])'
  <2>1. PICK old \in ResolveType : old = k_resolves[r] /\ AnswerHolds(old)
    BY ResolveOld
  <2>2. PICK call \in ResolveType :
          /\ call = [old EXCEPT !.at = "refused"]
          /\ call.at = "refused" /\ call.session = old.session /\ call.version = old.version
    BY ResolveAtShape
  <2>3. k_resolves'[r] = old \/ k_resolves'[r] = call
    BY <2>1, <2>2 DEF K!Crash
  <2> QED BY <1>1, <1>2, <2>1, <2>2, <2>3 DEF AnswerHolds
<1>5. k_publishes' \in [Publishers -> PublishType] /\ k_resolves' \in [Resolvers -> ResolveType]
  <2>1. \E f : k_publishes' = [p \in Publishers |-> f[p]]
    <3>1. k_publishes' = [p \in Publishers |-> k_publishes'[p]]
      BY DEF K!Crash
    <3> QED BY <3>1
  <2>2. \E f : k_resolves' = [r \in Resolvers |-> f[r]]
    <3>1. k_resolves' = [r \in Resolvers |-> k_resolves'[r]]
      BY DEF K!Crash
    <3> QED BY <3>1
  <2> QED BY <1>3, <1>4, <2>1, <2>2
<1>6. K!TypeOK'
  BY <1>1, <1>5 DEF SkillsInv, K!TypeOK, PublishType, ResolveType
<1>7. ClockCounts'
  <2>1. Stamped' = Stamped
    BY <1>3 DEF Stamped
  <2> QED BY <1>1, <2>1 DEF SkillsInv, ClockCounts
<1>8. CatalogueStored' /\ LatestStands' /\ PinsPublished'
  BY <1>1, <1>2 DEF SkillsInv, CatalogueStored, LatestStands, PinsPublished, K!Pinned
<1>9. K!PinHolds'
  BY <1>4 DEF SkillsInv, K!PinHolds
<1> QED BY <1>3, <1>4, <1>6, <1>7, <1>8, <1>9 DEF SkillsInv, CallsHold, AnswersHold

LEMMA SkillsStep == SkillsInv /\ [K!Next]_(K!vars) => SkillsInv'
<1> SUFFICES ASSUME SkillsInv, [K!Next]_(K!vars) PROVE SkillsInv'
  OBVIOUS
<1>1. CASE UNCHANGED K!vars
  <2>1. ClockCounts' /\ CallsHold' /\ CatalogueStored' /\ LatestStands' /\ UNCHANGED K!Published
    BY <1>1, CatalogueAside DEF K!vars
  <2> QED BY <1>1, <2>1 DEF K!vars, SkillsInv, K!TypeOK, PinsPublished, K!Pinned, AnswersHold,
                           AnswerHolds, K!PinHolds
<1>2. ASSUME NEW p \in Publishers, K!Publish(p) PROVE SkillsInv'
  BY <1>2, PublishAsks, PublishStoresInv, PublishCreatesInv, PublishEndsInv DEF K!Publish
<1>3. ASSUME NEW r \in Resolvers, K!Resolve(r) PROVE SkillsInv'
  BY <1>3, ResolveReadsInv, ResolveTargetsInv, DownloadInv, ResolvePinsInv DEF K!Resolve
<1> QED BY <1>1, <1>2, <1>3, DeleteSessionInv, CrashInv DEF K!Next

LEMMA SkillsHold == SkillsInv => K!TypeOK /\ K!SkillsStand
<1> SUFFICES ASSUME SkillsInv PROVE K!SkillsStand
  BY DEF SkillsInv
<1>1. K!NothingIsMissing
  BY DEF SkillsInv, AnswersHold, AnswerHolds, K!NothingIsMissing
<1>2. K!LatestIsNewest
  <2>1. SUFFICES ASSUME NEW p \in Publishers, k_publishes[p].at = "published"
                 PROVE  /\ k_skill.exists /\ k_skill.stamp >= k_publishes[p].stamp
                        /\ k_catalogue[k_skill.latest].stamp = k_skill.stamp
    BY DEF K!LatestIsNewest
  <2>2. CallHolds(p, k_publishes[p]) /\ k_publishes[p].stamp \in K!Stamps /\ k_skill.stamp \in K!Stamps
    BY DEF SkillsInv, CallsHold, K!TypeOK
  <2>3. k_publishes[p].stamp # 0 /\ k_skill.exists /\ k_skill.stamp >= k_publishes[p].stamp
    BY <2>1, <2>2 DEF CallHolds
  <2>4. k_skill.stamp # 0
    BY <2>2, <2>3, SkillsAssumption
  <2> QED BY <2>3, <2>4 DEF SkillsInv, LatestStands
<1> QED BY <1>1, <1>2 DEF SkillsInv, K!SkillsStand

-----------------------------------------------------------------------------
(* The sessions of two hosts, of which SessionLifecycle_proofs is proved.      *)
NP == INSTANCE SessionLifecycle_proofs WITH
  NoHost <- NoHost, Hosts <- Hosts, Names <- Names, NamesOf <- NamesOf,
  Renames <- Renames, LossyPublish <- LossyPublish, MaxRequests <- MaxRequests,
  MaxDocs <- MaxDocs, MaxCrashes <- MaxCrashes, MaxRefusals <- MaxRefusals,
  MaxByHand <- MaxByHand,
  docs <- n_docs, born <- n_born, tmux <- n_tmux, queue <- n_queue,
  handler <- n_handler, scan <- n_scan, worker <- n_worker, spent <- n_spent

LEMMA HostsAssumption == NP!LifecycleAssumption /\ NP!Disjoint
BY FaultsAssumption, MoveAssumption DEF NP!LifecycleAssumption, NP!Disjoint

\* Two instances of SessionLifecycle say the same.
LEMMA SameSessions == (N!Next <=> NP!Next) /\ (N!Init <=> NP!Init)
BY DEF N!vars, N!Guarded, N!Command, N!Document, N!Steps, N!Resting, N!Init, N!Named, N!Here,
     N!First, N!Collides, N!Write, N!Insert, N!Request, N!Publish, N!CreateRequest,
     N!KillRequest, N!PurgeRequest, N!RenameRequest, N!ResumeRequest, N!Client, N!Cmd,
     N!Goto, N!Pane, N!NewSession, N!KillSession, N!RenameSession, N!Fall, N!At, N!Taking,
     N!Commit, N!Ack, N!Expire, N!CreateRefused, N!CreatePane, N!Launch, N!CreateLaunch,
     N!Upsert, N!CreateDoc, N!CreateNoFolder, N!CreateStopped, N!KillPane, N!KillDoc,
     N!Kills, N!DeleteRead, N!DeletePane, N!DeleteDoc, N!RenamePane, N!RenameDoc, N!TakeResume, N!ResumeRefused,
     N!ResumePane, N!ResumeLaunch, N!ResumeDoc, N!Handle, N!Present, N!ScanList, N!Known,
     N!Seen, N!ScanSee, N!Missing, N!StopAll, N!ScanStop, N!Scan, N!Crash, N!Claimed,
     N!Restart, N!AgentUp, N!ByHand, N!Next, NP!vars, NP!Guarded, NP!Command, NP!Document,
     NP!Steps, NP!Resting, NP!Init, NP!Named, NP!Here, NP!First, NP!Collides, NP!Write,
     NP!Insert, NP!Request, NP!Publish, NP!CreateRequest, NP!KillRequest, NP!PurgeRequest,
     NP!RenameRequest, NP!ResumeRequest, NP!Client, NP!Cmd, NP!Goto, NP!Pane, NP!NewSession,
     NP!KillSession, NP!RenameSession, NP!Fall, NP!At, NP!Taking, NP!Commit, NP!Ack,
     NP!Expire, NP!CreateRefused, NP!CreatePane, NP!Launch, NP!CreateLaunch, NP!Upsert,
     NP!CreateDoc, NP!CreateNoFolder, NP!CreateStopped, NP!KillPane, NP!KillDoc,
     NP!Kills, NP!DeleteRead, NP!DeletePane, NP!DeleteDoc, NP!RenamePane, NP!RenameDoc, NP!TakeResume,
     NP!ResumeRefused, NP!ResumePane, NP!ResumeLaunch, NP!ResumeDoc, NP!Handle, NP!Present,
     NP!ScanList, NP!Known, NP!Seen, NP!ScanSee, NP!Missing, NP!StopAll, NP!ScanStop,
     NP!Scan, NP!Crash, NP!Claimed, NP!Restart, NP!AgentUp, NP!ByHand, NP!Next

LEMMA SameTypes == NP!TypeOK => N!TypeOK
BY DEF N!TypeOK, NP!TypeOK, N!Document, NP!Document, N!Command, NP!Command, N!Steps, NP!Steps

LEMMA SessionSteps == [Nexts]_all => [NP!Next]_(NP!vars)
<1>1. UNCHANGED lifeVars => UNCHANGED NP!vars
  BY DEF lifeVars, NP!vars
<1>2. [Nexts]_all => N!Next \/ UNCHANGED lifeVars
  BY DEF Nexts, all, Moves, Life, Skills, Of
<1> QED BY <1>1, <1>2, SameSessions

LEMMA SessionsAreTheirs == Behaviour => NP!Spec
<1>1. Inits => NP!Init
  BY SameSessions DEF Inits
<1> QED BY <1>1, SessionSteps, PTL DEF Behaviour, NP!Spec

LEMMA MoveSteps == [Nexts]_all => [Next]_vars
BY DEF Nexts, all, Moves, Life, Skills, Of

\* What SessionMove_proofs shows of Spec holds of a move among these faults.
LEMMA MovesAreTheirs == Behaviour => Spec
<1>1. Inits => Init
  BY DEF Inits
<1> QED BY <1>1, MoveSteps, PTL DEF Behaviour, Spec

LEMMA SkillSteps == [Nexts]_all => [K!Next]_(K!vars)
<1>1. UNCHANGED skillsVars => UNCHANGED K!vars
  BY DEF skillsVars, K!vars
<1> QED BY <1>1 DEF Nexts, all, Moves, Life, Skills, Of

LEMMA SkillsKeep == Behaviour => []SkillsInv
<1>1. Inits => SkillsInv
  BY SkillsInit DEF Inits
<1>2. SkillsInv /\ [Nexts]_all => SkillsInv'
  BY SkillSteps, SkillsStep
<1> QED BY <1>1, <1>2, PTL DEF Behaviour

-----------------------------------------------------------------------------
(* The theorems. *)

\* However calls of publish and resolve interleave, fail and die: every answer to a
\* session is of one version, its package is in the storage, and the latest version
\* is at least as new as each publication that was answered.
THEOREM SkillsStandFirm == Behaviour => []SkillsStand
<1>1. SkillsInv => SkillsStand
  BY SkillsHold DEF SkillsStand
<1> QED BY <1>1, SkillsKeep, PTL

\* The three parts keep their types, and a move its inductive invariants, with
\* impatient clients, crashes, lost publishes and discovery.
THEOREM FaultsKeepTypes == Behaviour => []PartsTypeOK
<1>1. NP!Spec => []NP!TypeOK
  BY HostsAssumption, NP!LifecycleTypes
<1>2. TypeOK /\ IndInv /\ Orderly /\ NP!TypeOK /\ SkillsInv => PartsTypeOK
  BY SameTypes, SkillsHold DEF PartsTypeOK
<1> QED BY <1>1, <1>2, MovesAreTheirs, Inductive, MovesAreOrderly,
         SessionsAreTheirs, SkillsKeep, PTL

\* Workers and discovery write documents of their own host only, as long as no
\* worker has claimed one of another's: their queries name no host.
THEOREM HostsKeepToTheirOwn == Behaviour => OwnDocsOnly
<1> DEFINE Own == N!InOrder =>
             \A h \in Hosts : n_handler'[h] # n_handler[h] \/ n_scan'[h] # n_scan[h] =>
               \A d \in n_docs : d.host \notin {h, NoHost} => d \in n_docs'
           OwnToo == NP!InOrder =>
             \A h \in Hosts : n_handler'[h] # n_handler[h] \/ n_scan'[h] # n_scan[h] =>
               \A d \in n_docs : d.host \notin {h, NoHost} => d \in n_docs'
<1>1. NP!Spec => NP!OwnDocsOnly
  BY HostsAssumption, NP!WorkersKeepToTheirOwn
<1>2. [OwnToo]_(NP!vars) => [Own]_(N!vars)
  BY DEF N!InOrder, NP!InOrder, N!vars, NP!vars
<1>3. NP!OwnDocsOnly => N!OwnDocsOnly
  BY <1>2, PTL DEF N!OwnDocsOnly, NP!OwnDocsOnly
<1> QED BY <1>1, <1>3, SessionsAreTheirs, PTL DEF OwnDocsOnly
==========================================================================
