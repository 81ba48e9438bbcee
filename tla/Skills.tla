-------------------------------- MODULE Skills --------------------------------
(***************************************************************************)
(* The catalogue of skills of the API: versions are published, a session   *)
(* is pinned to one of them, and hosts download its package.               *)
(*                                                                         *)
(* One skill, a session and the session that delegated to it.  A version   *)
(* is its content hash; the package that a call uploads is named after     *)
(* the call.  Requests run side by side, and every await is a step.  What  *)
(* a multipart holds, its checksum, and the metadata of a skill are left   *)
(* out: a package that is refused ends its call as a storage error does.   *)
(***************************************************************************)
EXTENDS Naturals, FiniteSets

CONSTANTS
  Publishers,    \* calls of POST /skills/publish
  Resolvers,     \* calls of POST /sessions/{id}/skills/resolve
  Versions,      \* content hashes
  Child, Parent, \* a session and the one in its field parent
  None, Gone,    \* no version; the session was deleted
  MaxAttempts,   \* max_attempts of GoogleDriveStorage
  Asks,          \* what a call of resolve may ask for, None included
  MaxFaults      \* answers of the storage that fail, API crashes, sessions deleted

VARIABLES
  files,     \* storage: the calls whose package it keeps
  catalogue, \* skill_versions: the package and published_at of each version
  skill,     \* skills: its document, with the latest version
  pins,      \* sessions.skill_pins
  publishes, resolves, \* where each call is
  clock, faults

vars == <<files, catalogue, skill, pins, publishes, resolves, clock, faults>>

Sessions == {Child, Parent}
Stamps == 0..Cardinality(Publishers)
NoVersion == [file |-> None, stamp |-> 0]
Pinned(s) == pins[s] \in Versions

TypeOK ==
  /\ files \subseteq Publishers
  /\ catalogue \in [Versions -> [file : Publishers \cup {None}, stamp : Stamps]]
  /\ skill \in [exists : BOOLEAN, latest : Versions \cup {None}, stamp : Stamps]
  /\ pins \in [Sessions -> Versions \cup {None, Gone}]
  /\ publishes \in [Publishers ->
       [at : {"off", "checked", "open", "stored", "lost", "created", "listed",
              "published", "already", "failed"},
        version : Versions \cup {None}, stamp : Stamps,
        attempt : 0..MaxAttempts, refreshed : BOOLEAN]]
  /\ resolves \in [Resolvers ->
       [at : {"off", "read", "found", "alone", "target", "lost", "answered", "refused",
              "downloaded", "missing"},
        session : Sessions, asked : Asks, version : Versions \cup {None}]]
  /\ clock \in Stamps /\ faults \in 0..MaxFaults

Init ==
  /\ files = {}
  /\ catalogue = [v \in Versions |-> NoVersion]
  /\ skill = [exists |-> FALSE, latest |-> None, stamp |-> 0]
  /\ pins = [s \in Sessions |-> None]
  /\ publishes = [p \in Publishers |-> [at |-> "off", version |-> None, stamp |-> 0,
                                        attempt |-> 0, refreshed |-> FALSE]]
  /\ resolves = [r \in Resolvers |-> [at |-> "off", session |-> Child, asked |-> None,
                                      version |-> None]]
  /\ clock = 0 /\ faults = 0

(***************************************************************************)
(* publish_skill.                                                          *)
(***************************************************************************)
Fault == faults < MaxFaults /\ faults' = faults + 1
PublishAt(p, at) == publishes' = [publishes EXCEPT ![p].at = at]

\* A version of the catalogue answers at once, without an upload.
PublishLooks(p) ==
  /\ publishes[p].at = "off"
  /\ \E v \in Versions :
       publishes' = [publishes EXCEPT
         ![p].version = v,
         ![p].at = IF catalogue[v] # NoVersion THEN "already" ELSE "checked"]
  /\ UNCHANGED <<files, catalogue, skill, pins, resolves, clock, faults>>

\* _send: one refresh of the token after a 401, a few attempts after an answer
\* that may pass, and then an error.
Send(p, done) ==
  \/ PublishAt(p, done) /\ UNCHANGED faults
  \/ /\ Fault
     /\ \/ /\ ~publishes[p].refreshed
           /\ publishes' = [publishes EXCEPT ![p].refreshed = TRUE]
        \/ /\ publishes[p].attempt + 1 < MaxAttempts
           /\ publishes' = [publishes EXCEPT ![p].attempt = @ + 1]
        \/ PublishAt(p, "failed")

\* The folder is found, and the upload is opened.
PublishOpens(p) ==
  /\ publishes[p].at = "checked"
  /\ Send(p, "open")
  /\ UNCHANGED <<files, catalogue, skill, pins, resolves, clock>>

\* The body is sent once; an upload that fails may have left its file.
PublishStores(p) ==
  /\ publishes[p].at = "open"
  /\ \/ /\ files' = files \cup {p}
        /\ clock' = clock + 1
        /\ publishes' = [publishes EXCEPT ![p].at = "stored", ![p].stamp = clock + 1]
        /\ UNCHANGED faults
     \/ /\ Fault
        /\ files' \in {files, files \cup {p}}
        /\ PublishAt(p, "failed") /\ UNCHANGED clock
  /\ UNCHANGED <<catalogue, skill, pins, resolves>>

\* The version enters the catalogue, unless a call with the same hash was first.
PublishCreates(p) ==
  LET v == publishes[p].version IN
  /\ publishes[p].at = "stored"
  /\ IF catalogue[v] = NoVersion
     THEN /\ catalogue' = [catalogue EXCEPT ![v] = [file |-> p, stamp |-> publishes[p].stamp]]
          /\ PublishAt(p, "created")
     ELSE PublishAt(p, "lost") /\ UNCHANGED catalogue
  /\ UNCHANGED <<files, skill, pins, resolves, clock, faults>>

PublishDiscards_Winners(p) ==
  /\ publishes[p].at = "lost"
  /\ files' = files \ {catalogue[publishes[p].version].file}
  /\ PublishAt(p, "already")
  /\ UNCHANGED <<catalogue, skill, pins, resolves, clock, faults>>
\* The call that lost deletes its own package, and does not mind an error.
PublishDiscards(p) ==
  /\ publishes[p].at = "lost"
  /\ \/ files' = files \ {p} /\ UNCHANGED faults
     \/ Fault /\ UNCHANGED files
  /\ PublishAt(p, "already")
  /\ UNCHANGED <<catalogue, skill, pins, resolves, clock>>

\* upsert_published: the document first,
PublishLists(p) ==
  /\ publishes[p].at = "created"
  /\ skill' = [skill EXCEPT !.exists = TRUE]
  /\ PublishAt(p, "listed")
  /\ UNCHANGED <<files, catalogue, pins, resolves, clock, faults>>

PublishPoints_Last(p) ==
  /\ publishes[p].at = "listed"
  /\ skill' = [skill EXCEPT !.latest = publishes[p].version, !.stamp = publishes[p].stamp]
  /\ PublishAt(p, "published")
  /\ UNCHANGED <<files, catalogue, pins, resolves, clock, faults>>
\* and then its latest version, unless that one is newer.
PublishPoints(p) ==
  /\ publishes[p].at = "listed"
  /\ skill' = IF publishes[p].stamp < skill.stamp THEN skill
              ELSE [skill EXCEPT !.latest = publishes[p].version,
                                 !.stamp = publishes[p].stamp]
  /\ PublishAt(p, "published")
  /\ UNCHANGED <<files, catalogue, pins, resolves, clock, faults>>

(***************************************************************************)
(* resolve_skill.                                                          *)
(***************************************************************************)
\* _check_pin: another version than the pinned one is a conflict.
Checked(call, pin) ==
  IF call.asked \in {None, pin} THEN [call EXCEPT !.at = "answered", !.version = pin]
  ELSE [call EXCEPT !.at = "refused"]
Resolved(r, call) == resolves' = [resolves EXCEPT ![r] = call]

\* get_session: its pin answers.
ResolveReads(r) ==
  /\ resolves[r].at = "off"
  /\ \E s \in Sessions, asked \in Asks :
       LET call == [at |-> "read", session |-> s, asked |-> asked, version |-> None]
       IN Resolved(r, IF pins[s] = Gone THEN [call EXCEPT !.at = "refused"]
                      ELSE IF Pinned(s) THEN Checked(call, pins[s]) ELSE call)
  /\ UNCHANGED <<files, catalogue, skill, pins, publishes, clock, faults>>

\* The skill must be there.
ResolveFinds(r) ==
  /\ resolves[r].at = "read"
  /\ Resolved(r, [resolves[r] EXCEPT !.at = IF skill.exists THEN "found" ELSE "refused"])
  /\ UNCHANGED <<files, catalogue, skill, pins, publishes, clock, faults>>

\* _parent_pin.
ResolveInherits(r) ==
  /\ resolves[r].at = "found"
  /\ LET call == resolves[r] IN
     IF call.session = Child /\ Pinned(Parent)
     THEN LET checked == Checked(call, pins[Parent])
          IN Resolved(r, IF checked.at = "refused" THEN checked
                         ELSE [checked EXCEPT !.at = "target"])
     ELSE Resolved(r, [call EXCEPT !.at = "alone"])
  /\ UNCHANGED <<files, catalogue, skill, pins, publishes, clock, faults>>

Published == {v \in Versions : catalogue[v] # NoVersion}
Latest == CHOOSE v \in Published : \A w \in Published : catalogue[w].stamp <= catalogue[v].stamp

\* The version that was asked for, or the latest.
ResolveChooses(r) ==
  /\ resolves[r].at = "alone"
  /\ LET call == resolves[r]
         found == IF call.asked = None THEN Published # {} ELSE call.asked \in Published
     IN Resolved(r, IF ~found THEN [call EXCEPT !.at = "refused"]
                    ELSE [call EXCEPT !.at = "target",
                            !.version = IF call.asked = None THEN Latest ELSE call.asked])
  /\ UNCHANGED <<files, catalogue, skill, pins, publishes, clock, faults>>

ResolvePins_Blindly(r) ==
  LET call == resolves[r] IN
  /\ call.at = "target"
  /\ IF pins[call.session] # Gone
     THEN /\ pins' = [pins EXCEPT ![call.session] = call.version]
          /\ Resolved(r, [call EXCEPT !.at = "answered"])
     ELSE Resolved(r, [call EXCEPT !.at = "lost"]) /\ UNCHANGED pins
  /\ UNCHANGED <<files, catalogue, skill, publishes, clock, faults>>
\* The pin is written where there is none.
ResolvePins(r) ==
  LET call == resolves[r] IN
  /\ call.at = "target"
  /\ IF pins[call.session] = None
     THEN /\ pins' = [pins EXCEPT ![call.session] = call.version]
          /\ Resolved(r, [call EXCEPT !.at = "answered"])
     ELSE Resolved(r, [call EXCEPT !.at = "lost"]) /\ UNCHANGED pins
  /\ UNCHANGED <<files, catalogue, skill, publishes, clock, faults>>

\* Who lost answers the pin that won.
ResolveLoses(r) ==
  /\ resolves[r].at = "lost"
  /\ LET call == resolves[r] IN
     Resolved(r, IF Pinned(call.session) THEN Checked(call, pins[call.session])
                 ELSE [call EXCEPT !.at = "refused"])
  /\ UNCHANGED <<files, catalogue, skill, pins, publishes, clock, faults>>

\* The host asks for the package of the version that it was answered.
DownloadPackage(r) ==
  LET call == resolves[r] IN
  /\ call.at = "answered"
  /\ Resolved(r, [call EXCEPT
       !.at = IF catalogue[call.version].file \in files THEN "downloaded" ELSE "missing"])
  /\ UNCHANGED <<files, catalogue, skill, pins, publishes, clock, faults>>

DeleteSession(s) ==
  /\ pins[s] # Gone
  /\ Fault
  /\ pins' = [pins EXCEPT ![s] = Gone]
  /\ UNCHANGED <<files, catalogue, skill, publishes, resolves, clock>>

\* The API dies, and every request with it.
Crash ==
  /\ Fault
  /\ publishes' = [p \in Publishers |->
       IF publishes[p].at \in {"off", "published", "already"} THEN publishes[p]
       ELSE [publishes[p] EXCEPT !.at = "failed"]]
  /\ resolves' = [r \in Resolvers |->
       IF resolves[r].at \in {"off", "answered", "downloaded", "missing"} THEN resolves[r]
       ELSE [resolves[r] EXCEPT !.at = "refused"]]
  /\ UNCHANGED <<files, catalogue, skill, pins, clock>>

Publish(p) == \/ PublishLooks(p) \/ PublishOpens(p) \/ PublishStores(p) \/ PublishCreates(p)
              \/ PublishDiscards(p) \/ PublishLists(p) \/ PublishPoints(p)
Resolve(r) == \/ ResolveReads(r) \/ ResolveFinds(r) \/ ResolveInherits(r) \/ ResolveChooses(r)
              \/ ResolvePins(r) \/ ResolveLoses(r) \/ DownloadPackage(r)
Next == \/ \E p \in Publishers : Publish(p)
        \/ \E r \in Resolvers : Resolve(r)
        \/ \E s \in Sessions : DeleteSession(s)
        \/ Crash

Spec == Init /\ [][Next]_vars

(***************************************************************************)
(* Properties.                                                             *)
(***************************************************************************)
\* The package of a version that a session was answered is in the storage,
\* whichever of the calls that published it side by side lost and cleaned up.
NothingIsMissing == \A r \in Resolvers : resolves[r].at # "missing"

\* "publicação concorrente mais antiga não regride o latest": once a publication
\* was answered, the latest version of the skill is at least as new as it is.
LatestIsNewest ==
  \A p \in Publishers : publishes[p].at = "published" =>
    skill.exists /\ skill.stamp >= publishes[p].stamp
    /\ catalogue[skill.latest].stamp = skill.stamp

\* Whatever versions are published meanwhile, and whoever asks first, every
\* answer to one session is of one and the same version.
PinHolds ==
  \A r, q \in Resolvers :
    /\ {resolves[r].at, resolves[q].at} \subseteq {"answered", "downloaded"}
    /\ resolves[r].session = resolves[q].session
    => resolves[r].version = resolves[q].version

\* All three: a session works with one version that is there, and the latest one
\* that was published is the one that a new session is given.
SkillsStand == NothingIsMissing /\ LatestIsNewest /\ PinHolds
=============================================================================
