------------------------------ MODULE LiveTags ------------------------------
(***************************************************************************)
(* The spending categories ("tags") of one user, and the notification      *)
(* groups their open tabs belong to.  The gateway owns the profile; three  *)
(* kinds of handler write it concurrently: a settings save, the consumer   *)
(* of Personalization's tag events, and an admin's assignment.  Tabs come  *)
(* and go through the SignalR hub, which keeps a table of connections.     *)
(* Users share nothing here, so one user stands for all.                   *)
(*                                                                         *)
(* An await is a step boundary: between the read, the stamped write, the   *)
(* removal from groups and the addition to groups of a handler, any other  *)
(* handler may run.  Each handler works on the copy of the user that its   *)
(* own scope read (EF tracking), never on the stored one.                  *)
(***************************************************************************)
EXTENDS Naturals, FiniteSets

CONSTANTS
  Tags,          \* category codes, each the name of a notification group
  Requests,      \* settings requests: records of some of the fields muted and level
  Results,       \* the categories a calculation or an admin may come up with
  Tabs,          \* connections; SignalR never reuses a connection id
  Commands,      \* recalculation commands, each leading to at most one event
  Saves,         \* settings saves
  Assigns,       \* admin assignments
  Retries,       \* redeliveries of an event whose handler threw
  MaxBusy,       \* bound: handlers and connects in progress at once
  MaxRestarts,   \* bound: restarts of the gateway
  None

Handlers == Commands \cup Saves \cup Assigns
Levels == {"low", "high"}

ASSUME LiveTagsAssumption ==
  /\ \A request \in Requests :
       /\ DOMAIN request \subseteq {"muted", "level"}
       /\ "muted" \in DOMAIN request => request.muted \subseteq Tags
       /\ "level" \in DOMAIN request => request.level \in Levels
  /\ Results \subseteq SUBSET Tags
  /\ Retries \in Nat /\ MaxBusy \in Nat \ {0} /\ MaxRestarts \in Nat

\* Connections and handlers of each kind are told apart, and there are finitely many.
ASSUME ActorsAssumption ==
  /\ IsFiniteSet(Handlers) /\ IsFiniteSet(Tabs)
  /\ Saves \cap (Commands \cup Assigns) = {} /\ Tabs \cap Handlers = {}
  /\ None \notin Tabs

VARIABLES
  profile,     \* the stored user: tags, muted, level, and the stamp of the last write
  job,         \* each handler's progress and the values of its own scope
  tab,         \* each connection's place in its life, and the values it holds
  table,       \* the connection table's entry for the user: an inner dictionary
  inner,       \* the inner dictionaries, each named by the tab that created it
  groups,      \* the groups each connection is in
  restarts,
  overlapped   \* history: two handlers or connects have been in progress at once

vars == <<profile, job, tab, table, inner, groups, restarts, overlapped>>

NewUser == [tags |-> {}, muted |-> {}, level |-> "low"]
Stored(p, s) == [tags |-> p.tags, muted |-> p.muted, level |-> p.level, stamp |-> s]
NotStarted == [at |-> "idle", attempt |-> 0, read |-> Stored(NewUser, 0),
               want |-> NewUser, asked |-> {}, gone |-> {}, snap |-> {}, ask |-> FALSE]
NoTab == [at |-> "new", dict |-> None, join |-> {}]

Active(p) == p.tags \ p.muted

\* A connection the SignalR server still holds: group calls for others are no-ops.
Held(t) == tab[t].at \notin {"new", "gone"}
\* What GetConnections returns.
Listed == IF table = None THEN {} ELSE inner[table]

Busy == {h \in Handlers : job[h].at \in {"read", "written", "syncing"}}
          \cup {t \in Tabs : tab[t].at \notin {"new", "live", "gone"}}
\* Every step ends with it: the bound, and history.
Noting == /\ Cardinality(Busy') <= MaxBusy
          /\ overlapped' = (overlapped \/ Cardinality(Busy') > 1)

Init ==
  /\ profile = Stored(NewUser, 0)
  /\ job = [h \in Handlers |-> NotStarted]
  /\ tab = [t \in Tabs |-> NoTab]
  /\ table = None
  /\ inner = [t \in Tabs |-> {}]
  /\ groups = [t \in Tabs |-> {}]
  /\ restarts = 0
  /\ overlapped = FALSE

-----------------------------------------------------------------------------
(* The hub and its connection table *)

\* AddConnection's GetOrAdd: the dictionary found, or a new one put in the table.
FindEntry(t) ==
  /\ tab[t].at = "new"
  /\ table' = IF table = None THEN t ELSE table
  /\ tab' = [tab EXCEPT ![t] = [NoTab EXCEPT !.at = "found", !.dict = table']]
  /\ UNCHANGED <<profile, job, inner, groups, restarts>>

\* AddConnection's TryAdd, into the dictionary found even if it has left the table.
List(t) ==
  /\ tab[t].at = "found"
  /\ inner' = [inner EXCEPT ![tab[t].dict] = @ \cup {t}]
  /\ tab' = [tab EXCEPT ![t].at = "listed"]
  /\ UNCHANGED <<profile, job, table, groups, restarts>>

\* OnConnectedAsync reads the user ...
ReadForTab(t) ==
  /\ tab[t].at = "listed"
  /\ tab' = [tab EXCEPT ![t] = [NoTab EXCEPT !.at = "joining", !.join = Active(profile)]]
  /\ UNCHANGED <<profile, job, table, inner, groups, restarts>>

\* ... and joins the groups of the tags it read.
Join(t) ==
  /\ tab[t].at = "joining"
  /\ groups' = [groups EXCEPT ![t] = @ \cup tab[t].join]
  /\ tab' = [tab EXCEPT ![t] = [NoTab EXCEPT !.at = "live"]]
  /\ UNCHANGED <<profile, job, table, inner, restarts>>

\* SignalR takes a closed connection out of its groups; a sync that adds to them
\* between RemoveConnection and that adds for nothing, so both are one step.
Gone(t) ==
  /\ tab' = [tab EXCEPT ![t] = [NoTab EXCEPT !.at = "gone"]]
  /\ groups' = [groups EXCEPT ![t] = {}]

\* RemoveConnection up to its IsEmpty test.  A change of the table between the
\* lookup and the removal leads nowhere that one after the test does not lead.
Unlist(t) ==
  /\ tab[t].at = "live"
  /\ inner' = IF table = None THEN inner ELSE [inner EXCEPT ![table] = @ \ {t}]
  /\ IF table # None /\ inner'[table] = {}
     THEN tab' = [tab EXCEPT ![t].at = "emptied"] /\ UNCHANGED groups
     ELSE Gone(t)
  /\ UNCHANGED <<profile, job, table, restarts>>

DropEntry_ifFirst(t) ==
  /\ tab[t].at = "emptied"
  /\ table' = IF table = t THEN None ELSE table
  /\ Gone(t)
  /\ UNCHANGED <<profile, job, inner, restarts>>

\* The outer TryRemove: by user, whatever dictionary the table now holds.
DropEntry(t) ==
  /\ tab[t].at = "emptied"
  /\ table' = None
  /\ Gone(t)
  /\ UNCHANGED <<profile, job, inner, restarts>>

-----------------------------------------------------------------------------
(* Handlers of the profile *)

\* Each handler reads the user once, into its own scope; the request names some
\* fields, and the others stay as they were read.
ReadUser(h, request) ==
  job' = [job EXCEPT ![h] =
            [@ EXCEPT !.at = "read", !.read = profile, !.asked = DOMAIN request,
                      !.want = [f \in DOMAIN NewUser |->
                                  IF f \in DOMAIN request THEN request[f] ELSE profile[f]]]]

Accepted_always(h) == TRUE

\* UserManager.UpdateAsync writes every field of the tracked user, and is refused
\* when the stored stamp is not the one read.
Accepted(h) == job[h].read.stamp = profile.stamp

\* h's copy of the user becomes the stored one.
WriteUser(h) == profile' = Stored(job[h].want, profile.stamp + 1)

Finished(h) == [NotStarted EXCEPT !.at = "done"]

\* After its write a handler needs only its copy of the user, the tags whose groups
\* to leave, and whether to ask for a recalculation; after the sync, less.
Written(h, gone) ==
  [NotStarted EXCEPT !.at = "written", !.want = job[h].want, !.gone = gone]
Synced(h) == [NotStarted EXCEPT !.at = "synced", !.ask = job[h].ask,
                                !.want.tags = job[h].want.tags]

\* A publish may fail and is then only logged (TriggerCalculateUserCategoriesAsync).
Published(c) == job[c] = NotStarted

\* SyncGroupsAsync: snapshot the connections, take them out of the groups of the
\* previous tags, then (after the awaits) put them in those of the active tags.
RemoveFromGroups(h) ==
  /\ job[h].at = "written"
  /\ IF Listed = {}
     THEN /\ job' = [job EXCEPT ![h] = Synced(h)]
          /\ UNCHANGED groups
     ELSE /\ job' = [job EXCEPT ![h] = [@ EXCEPT !.at = "syncing", !.snap = Listed]]
          /\ groups' = [t \in Tabs |-> IF t \in Listed /\ Held(t)
                                       THEN groups[t] \ job[h].gone ELSE groups[t]]
  /\ UNCHANGED <<profile, tab, table, inner, restarts>>

AddToGroups(h) ==
  /\ job[h].at = "syncing"
  /\ groups' = [t \in Tabs |-> IF t \in job[h].snap /\ Held(t)
                               THEN groups[t] \cup Active(job[h].want) ELSE groups[t]]
  /\ job' = [job EXCEPT ![h] = Synced(h)]
  /\ UNCHANGED <<profile, tab, table, inner, restarts>>

\* UserService.UpdateAsync, from the read to the changes of the tracked user.
SaveReads(s) ==
  /\ job[s].at = "idle"
  /\ \E request \in Requests : ReadUser(s, request)
  /\ UNCHANGED <<profile, tab, table, inner, groups, restarts>>

SaveWrites_keepsMuted(s) ==
  LET mutedChanged == job[s].want.muted # job[s].read.muted
      matchChanged == job[s].want.level # job[s].read.level
  IN /\ job[s].at = "read"
     /\ IF Accepted(s)
        THEN /\ WriteUser(s)
             /\ job' = [job EXCEPT ![s] =
                          IF mutedChanged
                          THEN [Written(s, Active(job[s].want)) EXCEPT !.ask = matchChanged]
                          ELSE [Synced(s) EXCEPT !.ask = matchChanged]]
        ELSE /\ job' = [job EXCEPT ![s] = Finished(s)]
             /\ UNCHANGED profile
     /\ UNCHANGED <<tab, table, inner, groups, restarts>>

\* A refused write answers BadRequest; groups are synced only when the muted
\* list changed, with the current tags as the previous ones.
SaveWrites(s) ==
  LET mutedChanged == job[s].want.muted # job[s].read.muted
      matchChanged == job[s].want.level # job[s].read.level
  IN /\ job[s].at = "read"
     /\ IF Accepted(s)
        THEN /\ WriteUser(s)
             /\ job' = [job EXCEPT ![s] =
                          IF mutedChanged
                          THEN [Written(s, job[s].want.tags) EXCEPT !.ask = matchChanged]
                          ELSE [Synced(s) EXCEPT !.ask = matchChanged]]
        ELSE /\ job' = [job EXCEPT ![s] = Finished(s)]
             /\ UNCHANGED profile
     /\ UNCHANGED <<tab, table, inner, groups, restarts>>

\* The end of a save: a changed match level asks for a recalculation, unless the
\* publish fails.
SaveEnds(s) ==
  /\ job[s].at = "synced"
  /\ \/ job' = [job EXCEPT ![s] = Finished(s)]
     \/ /\ job[s].ask
        /\ \E c \in Commands :
             /\ Published(c)
             /\ job' = [job EXCEPT ![s] = Finished(s), ![c].at = "asked"]
  /\ UNCHANGED <<profile, tab, table, inner, groups, restarts>>

\* UserService.AssignTagsAsync and UserTagService.AssignTagsAsync for an admin.
AssignReads(a) ==
  /\ job[a].at = "idle"
  /\ \E tags \in Results : ReadUser(a, [tags |-> tags])
  /\ UNCHANGED <<profile, tab, table, inner, groups, restarts>>

AssignWrites(a) ==
  /\ job[a].at = "read"
  /\ IF Accepted(a)
     THEN /\ WriteUser(a)
          /\ job' = [job EXCEPT ![a] = Written(a, job[a].read.tags)]
     ELSE /\ job' = [job EXCEPT ![a] = Finished(a)]
          /\ UNCHANGED profile
  /\ UNCHANGED <<tab, table, inner, groups, restarts>>

AssignEnds(a) ==
  /\ job[a].at = "synced"
  /\ job' = [job EXCEPT ![a] = Finished(a)]
  /\ UNCHANGED <<profile, tab, table, inner, groups, restarts>>

-----------------------------------------------------------------------------
(* Recalculation over the bus *)

\* The weekly sweep, the bank journey, registration or the client asks.
Ask(c) ==
  /\ Published(c)
  /\ job' = [job EXCEPT ![c].at = "asked"]
  /\ UNCHANGED <<profile, tab, table, inner, groups, restarts>>

\* Personalization takes commands ten at a time, in any order.  A handler that
\* raises, or cannot publish after its retries, rejects the command without
\* requeueing it; an empty result publishes nothing.
Calculate(c) ==
  /\ job[c].at = "asked"
  /\ \/ job' = [job EXCEPT ![c] = Finished(c)]
     \/ \E tags \in Results \ {{}} :
          job' = [job EXCEPT ![c].at = "queued", ![c].want.tags = tags]
  /\ UNCHANGED <<profile, tab, table, inner, groups, restarts>>

Queued(tags, attempt) ==
  [NotStarted EXCEPT !.at = "queued", !.want.tags = tags, !.attempt = attempt]

\* UserTagAssignedEventConsumer: a delivery gets a scope of its own, and reads.
EventReads(c) ==
  /\ job[c].at = "queued"
  /\ ReadUser(c, [tags |-> job[c].want.tags])
  /\ UNCHANGED <<profile, tab, table, inner, groups, restarts>>

\* A refused write throws: the event is delivered again until its retries are
\* used up, then it goes to the error queue.
EventWrites(c) ==
  /\ job[c].at = "read"
  /\ IF Accepted(c)
     THEN /\ WriteUser(c)
          /\ job' = [job EXCEPT ![c] = Written(c, job[c].read.tags)]
     ELSE /\ job' = [job EXCEPT ![c] =
                       IF @.attempt < Retries
                       THEN Queued(job[c].want.tags, @.attempt + 1)
                       ELSE [NotStarted EXCEPT !.at = "error"]]
          /\ UNCHANGED profile
  /\ UNCHANGED <<tab, table, inner, groups, restarts>>

\* The delivery is acknowledged only when the whole handler has run.
EventEnds(c) ==
  /\ job[c].at = "synced"
  /\ job' = [job EXCEPT ![c] = Finished(c)]
  /\ UNCHANGED <<profile, tab, table, inner, groups, restarts>>

Restart_acksFirst ==
  /\ restarts < MaxRestarts
  /\ restarts' = restarts + 1
  /\ table' = None
  /\ inner' = [t \in Tabs |-> {}]
  /\ groups' = [t \in Tabs |-> {}]
  /\ tab' = [t \in Tabs |-> IF Held(t) THEN [NoTab EXCEPT !.at = "gone"] ELSE tab[t]]
  /\ job' = [h \in Handlers |->
               CASE job[h].at \in {"idle", "asked", "done", "error"} -> job[h]
                 [] OTHER -> IF h \in Commands THEN NotStarted ELSE Finished(h)]
  /\ UNCHANGED profile

\* The gateway stops: connections, table and groups are memory; requests in
\* progress are lost, and the broker delivers again what was not acknowledged.
Restart ==
  /\ restarts < MaxRestarts
  /\ restarts' = restarts + 1
  /\ table' = None
  /\ inner' = [t \in Tabs |-> {}]
  /\ groups' = [t \in Tabs |-> {}]
  /\ tab' = [t \in Tabs |-> IF Held(t) THEN [NoTab EXCEPT !.at = "gone"] ELSE tab[t]]
  /\ job' = [h \in Handlers |->
               CASE job[h].at \in {"idle", "asked", "done", "error"} -> job[h]
                 [] OTHER -> IF h \in Commands THEN Queued(job[h].want.tags, 0)
                             ELSE Finished(h)]
  /\ UNCHANGED profile

-----------------------------------------------------------------------------
TabStep(t) == FindEntry(t) \/ List(t) \/ ReadForTab(t) \/ Join(t) \/ Unlist(t)
                \/ DropEntry(t)
SyncStep(h) == RemoveFromGroups(h) \/ AddToGroups(h)
SaveStep(s) == SaveReads(s) \/ SaveWrites(s) \/ SaveEnds(s)
AssignStep(a) == AssignReads(a) \/ AssignWrites(a) \/ AssignEnds(a)
EventStep(c) == Calculate(c) \/ EventReads(c) \/ EventWrites(c) \/ EventEnds(c)

Step ==
  \/ \E t \in Tabs : TabStep(t)
  \/ \E h \in Handlers : SyncStep(h)
  \/ \E s \in Saves : SaveStep(s)
  \/ \E a \in Assigns : AssignStep(a)
  \/ \E c \in Commands : Ask(c) \/ EventStep(c)
  \/ Restart

Next == Step /\ Noting

\* A handler that has begun runs to its end (its awaits return), and a consumer
\* takes the message it has; nothing makes a tab connect, a user save, or anyone
\* ask.
Fairness ==
  /\ \A c \in Commands : WF_vars((EventStep(c) \/ SyncStep(c)) /\ Noting)
  /\ \A s \in Saves : WF_vars((SaveWrites(s) \/ SaveEnds(s) \/ SyncStep(s)) /\ Noting)
  /\ \A d \in Assigns : WF_vars((AssignWrites(d) \/ AssignEnds(d) \/ SyncStep(d)) /\ Noting)
  /\ \A t \in Tabs : WF_vars((List(t) \/ ReadForTab(t) \/ Join(t) \/ DropEntry(t)) /\ Noting)

Spec == Init /\ [][Next]_vars /\ Fairness

-----------------------------------------------------------------------------
(* Properties *)

\* A settings save never undoes an applied tag event, nor an event a save, though
\* each writes the whole user from a copy it read earlier: an accepted write
\* changes no field that its request did not name (UserService 51,
\* UserTagService 40).
NoLostUpdate ==
  [][\A h \in Handlers :
       job[h].at = "read" /\ job'[h] # job[h] /\ profile' # profile
         => \A f \in DOMAIN NewUser \ job[h].asked : profile'[f] = profile[f]]_vars

\* The table lists only connections that are open, and keeps no entry for a user
\* whose connections are all closed, however adds and removals interleave; and a sync
\* that snapshot a connection before it closed leaves it in no group.
TableHoldsOnlyOpenTabs ==
  /\ \A t \in Listed : tab[t].at \in {"listed", "joining", "live"}
  /\ (\A t \in Tabs : ~Held(t)) => table = None
  /\ \A t \in Tabs : ~Held(t) => groups[t] = {}

\* While handlers and connects come one at a time, every open tab is in exactly
\* the groups of the unmuted tags: each caller of SyncGroupsAsync names the
\* previous tags that make its removal and addition exact.
SerialSyncIsExact ==
  ~overlapped /\ Busy = {} =>
    \A t \in Tabs : tab[t].at = "live" => groups[t] = Active(profile)

\* An open tab is never in the group of a muted tag once every handler and
\* connect has ended (UserTagServiceTests.AssignTags_MutedTagsNotAddedToGroups).
MutedTagsAreSilent ==
  Busy = {} => \A t \in Tabs : tab[t].at = "live" => groups[t] \cap profile.muted = {}

\* An event that was published is applied or ends in the error queue, even across
\* a restart of the gateway.
EventsSettle ==
  \A c \in Commands : job[c].at = "queued" ~> job[c].at \in {"done", "error"}
=============================================================================
