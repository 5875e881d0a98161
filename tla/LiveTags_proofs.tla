--------------------------- MODULE LiveTags_proofs ---------------------------
(***************************************************************************)
(* The connection table, the saved user and the groups of the open tabs,   *)
(* for any number of tabs, handlers and restarts: the table lists only     *)
(* open tabs, no accepted write undoes another, and as long as handlers    *)
(* and connects come one at a time every open tab is in exactly the        *)
(* groups of the active tags.                                              *)
(***************************************************************************)
EXTENDS LiveTags, FiniteSetTheorems, TLAPS

-----------------------------------------------------------------------------
(* The inductive invariant.                                                *)

Fields == {"tags", "muted", "level"}
Users == [tags : SUBSET Tags, muted : SUBSET Tags, level : Levels]
Profiles == [tags : SUBSET Tags, muted : SUBSET Tags, level : Levels, stamp : Nat]

Jobs == [at : {"idle", "asked", "queued", "read", "written", "syncing", "synced",
               "done", "error"},
         attempt : Nat, read : Profiles, want : Users, asked : SUBSET Fields,
         gone : SUBSET Tags, snap : SUBSET Tabs, ask : BOOLEAN]

TabStates == [at : {"new", "found", "listed", "joining", "live", "emptied", "gone"},
              dict : Tabs \cup {None}, join : SUBSET Tags]

TypeOK ==
  /\ profile \in Profiles
  /\ job \in [Handlers -> Jobs]
  /\ tab \in [Tabs -> TabStates]
  /\ table \in Tabs \cup {None}
  /\ inner \in [Tabs -> SUBSET Tabs]
  /\ groups \in [Tabs -> SUBSET Tags]
  /\ restarts \in Nat
  /\ overlapped \in BOOLEAN

\* A tab is the only one that knows the dictionary it may yet create; the table's
\* dictionary holds open tabs, or one is about to enter it or to drop it.
TableInv ==
  /\ \A t \in Tabs : tab[t].at = "new" =>
       /\ inner[t] = {} /\ table # t
       /\ \A u \in Tabs : tab[u].at = "found" => tab[u].dict # t
  /\ \A t \in Tabs : tab[t].at = "found" => tab[t].dict \in Tabs
  /\ \A t \in Listed : tab[t].at \in {"listed", "joining", "live"}
  /\ table # None =>
       \/ inner[table] # {}
       \/ \E t \in Tabs : tab[t].at = "emptied"
       \/ \E t \in Tabs : tab[t].at = "found" /\ tab[t].dict = table
  /\ \A t \in Tabs : ~Held(t) => groups[t] = {}

\* A handler that has read holds the stored user, or an older one with an older
\* stamp; it wants what it read in every field it was not asked to change.
ReadInv ==
  \A h \in Handlers : job[h].at = "read" =>
    /\ job[h].read.stamp <= profile.stamp
    /\ job[h].read.stamp = profile.stamp => job[h].read = profile
    /\ \A f \in Fields \ job[h].asked : job[h].want[f] = job[h].read[f]
    /\ h \in Saves => "tags" \notin job[h].asked

Writing(h) == job[h].at \in {"written", "syncing"}

\* What a live tab's groups are: the active tags, but while a handler is syncing.
GroupsInv(t) ==
  /\ (\A h \in Handlers : ~Writing(h)) => groups[t] = Active(profile)
  /\ \A h \in Handlers :
       /\ job[h].at = "written" => groups[t] \subseteq job[h].gone
       /\ job[h].at = "syncing" => groups[t] = {} /\ t \in job[h].snap

SerialInv ==
  /\ \A x, y \in Busy : x = y
  /\ \A t \in Tabs :
       /\ tab[t].at \in {"listed", "joining", "live"} => t \in Listed
       /\ tab[t].at = "found" => tab[t].dict = table
       /\ tab[t].at = "emptied" => Listed = {}
       /\ tab[t].at \in {"found", "listed", "joining"} => groups[t] = {}
       /\ tab[t].at = "joining" => tab[t].join = Active(profile)
       /\ tab[t].at = "live" => GroupsInv(t)
  /\ \A h \in Handlers : Writing(h) => Active(job[h].want) = Active(profile)

LiveTagsInv ==
  /\ TypeOK
  /\ TableInv
  /\ ReadInv
  /\ ~overlapped => SerialInv

-----------------------------------------------------------------------------
(* Types.                                                                  *)

LEMMA NotStartedTyped ==
    /\ NotStarted \in Jobs
    /\ \A j \in Jobs : DOMAIN j = DOMAIN NotStarted
    /\ NoTab \in TabStates
    /\ Stored(NewUser, 0) \in Profiles /\ NewUser \in Users
BY DEF NotStarted, Jobs, NoTab, TabStates, Stored, NewUser, Profiles, Users, Levels, Fields

\* A handler that reads has the stored user, with what it was asked to change.
LEMMA ReadUserReads ==
    ASSUME TypeOK, NEW h \in Handlers, NEW request,
           DOMAIN request \subseteq Fields,
           "tags" \in DOMAIN request => request.tags \subseteq Tags,
           "muted" \in DOMAIN request => request.muted \subseteq Tags,
           "level" \in DOMAIN request => request.level \in Levels,
           ReadUser(h, request)
    PROVE  \E j \in Jobs : /\ job' = [job EXCEPT ![h] = j]
                           /\ j.at = "read" /\ j.read = profile
                           /\ j.asked = DOMAIN request
                           /\ \A f \in Fields \ j.asked : j.want[f] = profile[f]
<1> DEFINE want == [f \in DOMAIN NewUser |->
                      IF f \in DOMAIN request THEN request[f] ELSE profile[f]]
           j == [job[h] EXCEPT !.at = "read", !.read = profile,
                               !.asked = DOMAIN request, !.want = want]
<1>1. DOMAIN NewUser = Fields
  BY DEF NewUser, Fields
<1>2. profile \in Profiles /\ job[h] \in Jobs
  BY DEF TypeOK
<1>3. want = [tags |-> want.tags, muted |-> want.muted, level |-> want.level]
  BY <1>1 DEF Fields
<1>4. want \in Users
  <2>1. want.tags \in SUBSET Tags /\ want.muted \in SUBSET Tags /\ want.level \in Levels
    BY <1>1, <1>2 DEF Fields, Profiles
  <2> HIDE DEF want
  <2> QED
    BY <2>1, <1>3 DEF Users
<1>5. \A f \in Fields \ DOMAIN request : want[f] = profile[f]
  BY <1>1
<1> HIDE DEF want
<1>6. j \in Jobs
  BY <1>2, <1>4 DEF Jobs
<1>7. j.at = "read" /\ j.read = profile /\ j.asked = DOMAIN request /\ j.want = want
  BY <1>2 DEF Jobs
<1>8. job' = [job EXCEPT ![h] = j]
  BY DEF ReadUser, want
<1> QED
  BY <1>5, <1>6, <1>7, <1>8

\* The jobs a handler can leave behind.
LEMMA NextJobs ==
    ASSUME TypeOK, NEW h \in Handlers, NEW gone \in SUBSET Tags
    PROVE  /\ Finished(h) \in Jobs /\ Finished(h).at = "done"
           /\ Written(h, gone) \in Jobs /\ Written(h, gone).at = "written"
           /\ Written(h, gone).want = job[h].want /\ Written(h, gone).gone = gone
           /\ Synced(h) \in Jobs /\ Synced(h).at = "synced"
           /\ \A tags \in SUBSET Tags, n \in Nat : /\ Queued(tags, n) \in Jobs
                                                   /\ Queued(tags, n).at = "queued"
<1>1. job[h] \in Jobs /\ job[h].want \in Users /\ job[h].want.tags \in SUBSET Tags
      /\ job[h].ask \in BOOLEAN
  BY DEF TypeOK, Jobs, Users
<1>2. NotStarted \in Jobs /\ NotStarted.want \in Users
  BY NotStartedTyped DEF Jobs
<1>3. Finished(h) \in Jobs /\ Finished(h).at = "done"
  BY <1>2 DEF Finished, Jobs
<1>4. /\ Written(h, gone) \in Jobs /\ Written(h, gone).at = "written"
      /\ Written(h, gone).want = job[h].want /\ Written(h, gone).gone = gone
  BY <1>1, <1>2 DEF Written, Jobs
<1>5. Synced(h) \in Jobs /\ Synced(h).at = "synced"
  BY <1>1, <1>2 DEF Synced, Jobs, Users
<1>6. ASSUME NEW tags \in SUBSET Tags, NEW n \in Nat
      PROVE  Queued(tags, n) \in Jobs /\ Queued(tags, n).at = "queued"
  BY <1>2 DEF Queued, Jobs, Users
<1> QED
  BY <1>3, <1>4, <1>5, <1>6

LEMMA TabStepTyped ==
    ASSUME TypeOK, NEW t \in Tabs, TabStep(t)
    PROVE  /\ tab' \in [Tabs -> TabStates]
           /\ table' \in Tabs \cup {None}
           /\ inner' \in [Tabs -> SUBSET Tabs]
           /\ groups' \in [Tabs -> SUBSET Tags]
           /\ UNCHANGED <<profile, job, restarts>>
<1>1. \A u \in Tabs : tab[u] \in TabStates /\ tab[u].dict \in Tabs \cup {None}
                      /\ tab[u].join \in SUBSET Tags
  BY DEF TypeOK, TabStates
<1>2. NoTab \in TabStates
  BY NotStartedTyped
<1>3. CASE FindEntry(t)
  <2>1. table' \in Tabs \cup {None}
    BY <1>3 DEF FindEntry, TypeOK
  <2>2. [NoTab EXCEPT !.at = "found", !.dict = table'] \in TabStates
    BY <2>1, <1>2 DEF TabStates
  <2> QED
    BY <1>3, <2>1, <2>2 DEF FindEntry, TypeOK
<1>4. CASE List(t)
  <2>1. [tab[t] EXCEPT !.at = "listed"] \in TabStates
    BY <1>1 DEF TabStates
  <2>2. inner' \in [Tabs -> SUBSET Tabs]
    BY <1>4 DEF List, TypeOK
  <2> QED
    BY <1>4, <2>1, <2>2 DEF List, TypeOK
<1>5. CASE ReadForTab(t)
  <2>1. Active(profile) \in SUBSET Tags
    BY DEF Active, TypeOK, Profiles
  <2>2. [NoTab EXCEPT !.at = "joining", !.join = Active(profile)] \in TabStates
    BY <2>1, <1>2 DEF TabStates
  <2> QED
    BY <1>5, <2>2 DEF ReadForTab, TypeOK
<1>6. CASE Join(t)
  <2>1. [NoTab EXCEPT !.at = "live"] \in TabStates
    BY <1>2 DEF TabStates
  <2>2. groups' \in [Tabs -> SUBSET Tags]
    BY <1>1, <1>6 DEF Join, TypeOK
  <2> QED
    BY <1>6, <2>1, <2>2 DEF Join, TypeOK
<1>7. Gone(t) => tab' \in [Tabs -> TabStates] /\ groups' \in [Tabs -> SUBSET Tags]
  <2>1. [NoTab EXCEPT !.at = "gone"] \in TabStates
    BY <1>2 DEF TabStates
  <2> QED
    BY <2>1 DEF Gone, TypeOK
<1>8. CASE Unlist(t)
  <2>1. inner' \in [Tabs -> SUBSET Tabs]
    BY <1>8 DEF Unlist, TypeOK
  <2>2. [tab[t] EXCEPT !.at = "emptied"] \in TabStates
    BY <1>1 DEF TabStates
  <2> QED
    BY <1>7, <1>8, <2>1, <2>2 DEF Unlist, TypeOK
<1>9. CASE DropEntry(t)
  BY <1>7, <1>9 DEF DropEntry, TypeOK
<1> QED
  BY <1>3, <1>4, <1>5, <1>6, <1>8, <1>9 DEF TabStep

-----------------------------------------------------------------------------
(* The steps of the handlers, by what they have in common.                 *)

Elsewhere == UNCHANGED <<tab, table, inner, restarts>>
Holding == {"read", "written", "syncing"}

\* h goes on to j, and no other handler changes.
Becomes(h, j) == j \in Jobs /\ job' = [job EXCEPT ![h] = j]

\* Nothing happens to a handler that holds a copy of the user.
Idles ==
  /\ Elsewhere /\ UNCHANGED <<profile, groups>>
  /\ job' \in [Handlers -> Jobs]
  /\ \A g \in Handlers :
       job'[g] # job[g] => job[g].at \notin Holding /\ job'[g].at \notin Holding

Reads(h, j) ==
  /\ Elsewhere /\ UNCHANGED <<profile, groups>>
  /\ Becomes(h, j)
  /\ job[h].at \notin Holding
  /\ j.at = "read" /\ j.read = profile
  /\ \A f \in Fields \ j.asked : j.want[f] = profile[f]
  /\ h \in Saves => "tags" \notin j.asked

Refused(h, j) ==
  /\ Elsewhere /\ UNCHANGED <<profile, groups>>
  /\ Becomes(h, j)
  /\ job[h].at = "read" /\ j.at \notin Holding

\* An accepted write: what the sync is to do next makes up for what it changed.
Writes(h, j) ==
  /\ Elsewhere /\ UNCHANGED groups
  /\ Becomes(h, j)
  /\ job[h].at = "read" /\ job[h].read.stamp = profile.stamp
  /\ profile' = Stored(job[h].want, profile.stamp + 1)
  /\ \/ /\ j.at = "synced" /\ h \in Saves
        /\ job[h].want.muted = job[h].read.muted
     \/ /\ j.at = "written" /\ j.want = job[h].want
        /\ \/ j.gone = job[h].read.tags
           \/ j.gone = job[h].want.tags /\ h \in Saves

LEMMA EndsIdle ==
    ASSUME TypeOK, NEW h \in Handlers,
           (h \in Saves /\ SaveEnds(h)) \/ (h \in Assigns /\ AssignEnds(h))
             \/ (h \in Commands /\ (Ask(h) \/ Calculate(h) \/ EventEnds(h)))
    PROVE  Idles
<1>1. job \in [Handlers -> Jobs] /\ Commands \subseteq Handlers
  BY DEF TypeOK, Handlers
<1>2. \A g \in Handlers : [job[g] EXCEPT !.at = "asked"] \in Jobs
                          /\ [job[g] EXCEPT !.at = "asked"].at = "asked"
  BY <1>1 DEF Jobs
<1>3. Finished(h) \in Jobs /\ Finished(h).at = "done"
  BY NextJobs
<1>4. NotStarted.at = "idle"
  BY DEF NotStarted
<1>5. CASE h \in Saves /\ SaveEnds(h)
  <2>1. CASE job' = [job EXCEPT ![h] = Finished(h)]
    BY <1>1, <1>3, <1>5, <2>1 DEF SaveEnds, Idles, Elsewhere, Holding
  <2>2. ASSUME NEW c \in Commands, Published(c),
               job' = [job EXCEPT ![h] = Finished(h), ![c].at = "asked"]
        PROVE  Idles
    <3>1. job[c].at = "idle" /\ job[h].at = "synced" /\ c \in Handlers
      BY <1>1, <1>4, <1>5, <2>2 DEF SaveEnds, Published
    <3>2. job' = [[job EXCEPT ![h] = Finished(h)]
                    EXCEPT ![c] = [job[c] EXCEPT !.at = "asked"]]
      BY <1>1, <2>2, <3>1
    <3> QED
      BY <1>1, <1>2, <1>3, <1>5, <3>1, <3>2 DEF SaveEnds, Idles, Elsewhere, Holding
  <2> QED
    BY <1>5, <2>1, <2>2 DEF SaveEnds
<1>6. CASE h \in Assigns /\ AssignEnds(h)
  BY <1>1, <1>3, <1>6 DEF AssignEnds, Idles, Elsewhere, Holding
<1>7. CASE h \in Commands /\ Ask(h)
  <2>1. job' = [job EXCEPT ![h] = [job[h] EXCEPT !.at = "asked"]] /\ job[h].at = "idle"
    BY <1>1, <1>4, <1>7 DEF Ask, Published
  <2> QED
    BY <1>1, <1>2, <1>7, <2>1 DEF Ask, Idles, Elsewhere, Holding
<1>8. CASE h \in Commands /\ Calculate(h)
  <2>1. CASE job' = [job EXCEPT ![h] = Finished(h)]
    BY <1>1, <1>3, <1>8, <2>1 DEF Calculate, Idles, Elsewhere, Holding
  <2>2. ASSUME NEW tags \in Results,
               job' = [job EXCEPT ![h].at = "queued", ![h].want.tags = tags]
        PROVE  Idles
    <3> DEFINE j == [job[h] EXCEPT !.at = "queued", !.want.tags = tags]
    <3>1. job' = [job EXCEPT ![h] = j]
      BY <1>1, <2>2
    <3>2. tags \in SUBSET Tags /\ job[h] \in Jobs /\ job[h].want \in Users
      BY <1>1, LiveTagsAssumption DEF Jobs
    <3>3. [job[h].want EXCEPT !.tags = tags] \in Users
      BY <3>2 DEF Users
    <3>4. j = [job[h] EXCEPT !.at = "queued",
                             !.want = [job[h].want EXCEPT !.tags = tags]]
      BY <3>2 DEF Jobs
    <3>5. j \in Jobs /\ j.at = "queued"
      BY <3>2, <3>3, <3>4 DEF Jobs
    <3> HIDE DEF j
    <3> QED
      BY <1>1, <1>8, <3>1, <3>5 DEF Calculate, Idles, Elsewhere, Holding
  <2> QED
    BY <1>8, <2>1, <2>2 DEF Calculate
<1>9. CASE h \in Commands /\ EventEnds(h)
  BY <1>1, <1>3, <1>9 DEF EventEnds, Idles, Elsewhere, Holding
<1> QED
  BY <1>5, <1>6, <1>7, <1>8, <1>9

LEMMA ReadsRead ==
    ASSUME TypeOK, NEW h \in Handlers,
           (h \in Saves /\ SaveReads(h)) \/ (h \in Assigns /\ AssignReads(h))
             \/ (h \in Commands /\ EventReads(h))
    PROVE  \E j \in Jobs : Reads(h, j)
<1>1. CASE h \in Saves /\ SaveReads(h)
  <2>1. PICK request \in Requests : ReadUser(h, request)
    BY <1>1 DEF SaveReads
  <2>2. DOMAIN request \subseteq {"muted", "level"}
    BY LiveTagsAssumption
  <2>3. PICK j \in Jobs : /\ job' = [job EXCEPT ![h] = j]
                          /\ j.at = "read" /\ j.read = profile
                          /\ j.asked = DOMAIN request
                          /\ \A f \in Fields \ j.asked : j.want[f] = profile[f]
    BY <2>1, <2>2, ReadUserReads, LiveTagsAssumption DEF Fields
  <2>4. "tags" \notin j.asked
    BY <2>2, <2>3
  <2>5. Reads(h, j)
    BY <1>1, <2>3, <2>4 DEF SaveReads, Reads, Becomes, Elsewhere, Holding
  <2> QED
    BY <2>5
<1>2. ASSUME h \notin Saves, NEW tags \in SUBSET Tags, ReadUser(h, [tags |-> tags]),
             job[h].at \notin Holding, Elsewhere, UNCHANGED <<profile, groups>>
      PROVE  \E j \in Jobs : Reads(h, j)
  <2>1. PICK j \in Jobs : /\ job' = [job EXCEPT ![h] = j]
                          /\ j.at = "read" /\ j.read = profile
                          /\ j.asked = DOMAIN [tags |-> tags]
                          /\ \A f \in Fields \ j.asked : j.want[f] = profile[f]
    <3>1. DOMAIN [tags |-> tags] = {"tags"} /\ [tags |-> tags].tags = tags
      OBVIOUS
    <3> QED
      BY <1>2, <3>1, ReadUserReads DEF Fields
  <2> QED
    BY <1>2, <2>1 DEF Reads, Becomes
<1>3. CASE h \in Assigns /\ AssignReads(h)
  <2>1. PICK tags \in Results : ReadUser(h, [tags |-> tags])
    BY <1>3 DEF AssignReads
  <2> QED
    BY <1>2, <1>3, <2>1, ActorsAssumption, LiveTagsAssumption
    DEF AssignReads, Elsewhere, Holding
<1>4. CASE h \in Commands /\ EventReads(h)
  <2>1. job[h].want.tags \in SUBSET Tags
    BY DEF TypeOK, Jobs, Users
  <2> QED
    BY <1>2, <1>4, <2>1, ActorsAssumption DEF EventReads, Elsewhere, Holding
<1> QED
  BY <1>1, <1>3, <1>4

LEMMA WritesWrite ==
    ASSUME TypeOK, NEW h \in Handlers,
           (h \in Saves /\ SaveWrites(h)) \/ (h \in Assigns /\ AssignWrites(h))
             \/ (h \in Commands /\ EventWrites(h))
    PROVE  \E j \in Jobs : Refused(h, j) \/ Writes(h, j)
<1>1. /\ job[h] \in Jobs /\ job[h].attempt \in Nat
      /\ job[h].want.tags \in SUBSET Tags /\ job[h].read.tags \in SUBSET Tags
  BY DEF TypeOK, Jobs, Users, Profiles
<1>2. Finished(h) \in Jobs /\ Finished(h).at = "done"
  BY NextJobs
<1>3. \A gone \in SUBSET Tags :
        /\ Written(h, gone) \in Jobs /\ Written(h, gone).at = "written"
        /\ Written(h, gone).want = job[h].want /\ Written(h, gone).gone = gone
  BY NextJobs
<1>4. CASE h \in Saves /\ SaveWrites(h)
  <2> DEFINE asks == job[h].want.level # job[h].read.level
             w == [Written(h, job[h].want.tags) EXCEPT !.ask = asks]
             s == [Synced(h) EXCEPT !.ask = asks]
  <2>1. asks \in BOOLEAN /\ Synced(h) \in Jobs /\ Synced(h).at = "synced"
    BY NextJobs
  <2> HIDE DEF asks
  <2>2. /\ w \in Jobs /\ w.at = "written" /\ w.want = job[h].want
        /\ w.gone = job[h].want.tags
    BY <1>1, <1>3, <2>1 DEF Jobs
  <2>3. s \in Jobs /\ s.at = "synced"
    BY <2>1 DEF Jobs
  <2>4. CASE ~Accepted(h)
    BY <1>2, <1>4, <2>4 DEF SaveWrites, Refused, Becomes, Elsewhere, Holding
  <2> HIDE DEF w, s
  <2>5. CASE Accepted(h) /\ job[h].want.muted # job[h].read.muted
    <3>1. job' = [job EXCEPT ![h] = w]
      BY <1>4, <2>5 DEF SaveWrites, w, asks
    <3>2. Writes(h, w)
      BY <1>4, <2>2, <2>5, <3>1
      DEF SaveWrites, Writes, Becomes, Elsewhere, Accepted, WriteUser
    <3> QED
      BY <2>2, <3>2
  <2>6. CASE Accepted(h) /\ job[h].want.muted = job[h].read.muted
    <3>1. job' = [job EXCEPT ![h] = s]
      BY <1>4, <2>6 DEF SaveWrites, s, asks
    <3>2. Writes(h, s)
      BY <1>4, <2>3, <2>6, <3>1
      DEF SaveWrites, Writes, Becomes, Elsewhere, Accepted, WriteUser
    <3> QED
      BY <2>3, <3>2
  <2> QED
    BY <2>4, <2>5, <2>6
<1>5. CASE h \in Assigns /\ AssignWrites(h)
  <2>1. CASE Accepted(h)
    <3>1. Writes(h, Written(h, job[h].read.tags))
      BY <1>1, <1>3, <1>5, <2>1
      DEF AssignWrites, Writes, Becomes, Elsewhere, Accepted, WriteUser
    <3> QED
      BY <1>1, <1>3, <3>1
  <2>2. CASE ~Accepted(h)
    BY <1>2, <1>5, <2>2 DEF AssignWrites, Refused, Becomes, Elsewhere, Holding
  <2> QED
    BY <2>1, <2>2
<1>6. CASE h \in Commands /\ EventWrites(h)
  <2>1. CASE Accepted(h)
    <3>1. Writes(h, Written(h, job[h].read.tags))
      BY <1>1, <1>3, <1>6, <2>1
      DEF EventWrites, Writes, Becomes, Elsewhere, Accepted, WriteUser
    <3> QED
      BY <1>1, <1>3, <3>1
  <2>2. CASE ~Accepted(h) /\ job[h].attempt < Retries
    <3> DEFINE q == Queued(job[h].want.tags, job[h].attempt + 1)
    <3>1. job[h].attempt + 1 \in Nat
      BY <1>1
    <3>2. q \in Jobs /\ q.at = "queued"
      BY <1>1, <3>1, NextJobs
    <3>3. job' = [job EXCEPT ![h] = q]
      BY <1>6, <2>2 DEF EventWrites
    <3> HIDE DEF q
    <3>4. Refused(h, q)
      BY <1>6, <2>2, <3>2, <3>3 DEF EventWrites, Refused, Becomes, Elsewhere, Holding
    <3> QED
      BY <3>2, <3>4
  <2>3. CASE ~Accepted(h) /\ ~(job[h].attempt < Retries)
    <3> DEFINE e == [NotStarted EXCEPT !.at = "error"]
    <3>1. e \in Jobs /\ e.at = "error"
      BY NotStartedTyped DEF Jobs
    <3>2. job' = [job EXCEPT ![h] = e]
      BY <1>6, <2>3 DEF EventWrites
    <3> HIDE DEF e
    <3>3. Refused(h, e)
      BY <1>6, <2>3, <3>1, <3>2 DEF EventWrites, Refused, Becomes, Elsewhere, Holding
    <3> QED
      BY <3>1, <3>3
  <2> QED
    BY <2>1, <2>2, <2>3
<1> QED
  BY <1>4, <1>5, <1>6

-----------------------------------------------------------------------------
(* The connection table.                                                   *)

LEMMA TabStepKeepsTable ==
    ASSUME TypeOK, TableInv, NEW t \in Tabs, TabStep(t)
    PROVE  TableInv'
<1>1. /\ tab \in [Tabs -> TabStates] /\ table \in Tabs \cup {None} /\ None \notin Tabs
      /\ inner \in [Tabs -> SUBSET Tabs] /\ groups \in [Tabs -> SUBSET Tags]
  BY ActorsAssumption DEF TypeOK
<1>2. \A u \in Tabs : tab'[u] # tab[u] => u = t
  BY <1>1 DEF TabStep, FindEntry, List, ReadForTab, Join, Unlist, DropEntry, Gone
<1>3. CASE FindEntry(t)
  <2>1. /\ tab'[t].at = "found" /\ tab'[t].dict = table' /\ tab[t].at = "new"
        /\ table' = IF table = None THEN t ELSE table
        /\ UNCHANGED <<inner, groups>>
    BY <1>1, <1>3 DEF FindEntry, NoTab
  <2> QED
    BY <1>1, <1>2, <2>1 DEF TableInv, Held, Listed
<1>4. CASE List(t)
  <2>1. /\ tab'[t].at = "listed" /\ tab[t].at = "found"
        /\ inner' = [inner EXCEPT ![tab[t].dict] = @ \cup {t}]
        /\ UNCHANGED <<table, groups>>
    BY <1>1, <1>4 DEF List, TabStates
  <2> QED
    BY <1>1, <1>2, <2>1 DEF TableInv, Held, Listed
<1>5. CASE ReadForTab(t)
  <2>1. /\ tab'[t].at = "joining" /\ tab[t].at = "listed"
        /\ UNCHANGED <<inner, table, groups>>
    BY <1>1, <1>5 DEF ReadForTab, NoTab
  <2> QED
    BY <1>1, <1>2, <2>1 DEF TableInv, Held, Listed
<1>6. CASE Join(t)
  <2>1. /\ tab'[t].at = "live" /\ tab[t].at = "joining"
        /\ groups' = [groups EXCEPT ![t] = @ \cup tab[t].join]
        /\ UNCHANGED <<inner, table>>
    BY <1>1, <1>6 DEF Join, NoTab
  <2> QED
    BY <1>1, <1>2, <2>1 DEF TableInv, Held, Listed
<1>7. Gone(t) => /\ tab'[t].at = "gone" /\ groups'[t] = {}
                 /\ \A u \in Tabs : groups'[u] # groups[u] => u = t
  BY <1>1 DEF Gone, NoTab
<1>8. CASE Unlist(t)
  <2>1. /\ tab[t].at = "live" /\ table' = table
        /\ inner' = IF table = None THEN inner ELSE [inner EXCEPT ![table] = @ \ {t}]
    BY <1>8 DEF Unlist
  <2>2. CASE table # None /\ inner'[table] = {}
    <3>1. tab'[t].at = "emptied" /\ UNCHANGED groups
      BY <1>1, <1>8, <2>2 DEF Unlist, TabStates
    <3> QED
      BY <1>1, <1>2, <2>1, <2>2, <3>1 DEF TableInv, Held, Listed
  <2>3. CASE ~(table # None /\ inner'[table] = {})
    <3>1. Gone(t)
      BY <1>8, <2>3 DEF Unlist
    <3> QED
      BY <1>1, <1>2, <1>7, <2>1, <2>3, <3>1 DEF TableInv, Held, Listed
  <2> QED
    BY <2>2, <2>3
<1>9. CASE DropEntry(t)
  <2>1. Gone(t) /\ tab[t].at = "emptied" /\ table' = None /\ inner' = inner
    BY <1>9 DEF DropEntry
  <2> QED
    BY <1>1, <1>2, <1>7, <2>1 DEF TableInv, Held, Listed
<1> QED
  BY <1>3, <1>4, <1>5, <1>6, <1>8, <1>9 DEF TabStep

\* A handler changes nothing of the table, and the groups of open tabs only.
LEMMA HandlersKeepTable ==
    ASSUME TableInv, Elsewhere,
           \A t \in Tabs : ~Held(t) => groups'[t] = groups[t]
    PROVE  TableInv'
BY DEF TableInv, Elsewhere, Held, Listed

LEMMA SyncsTouchOpenTabs ==
    ASSUME TypeOK, NEW h \in Handlers, SyncStep(h)
    PROVE  /\ Elsewhere /\ UNCHANGED profile
           /\ groups' \in [Tabs -> SUBSET Tags]
           /\ \A t \in Tabs : ~Held(t) => groups'[t] = groups[t]
<1>1. groups \in [Tabs -> SUBSET Tags] /\ Active(job[h].want) \in SUBSET Tags
  BY DEF TypeOK, Jobs, Users, Active
<1>2. CASE RemoveFromGroups(h)
  BY <1>1, <1>2 DEF RemoveFromGroups, Elsewhere
<1>3. CASE AddToGroups(h)
  BY <1>1, <1>3 DEF AddToGroups, Elsewhere
<1> QED
  BY <1>2, <1>3 DEF SyncStep

LEMMA SyncsSync ==
    ASSUME TypeOK, NEW h \in Handlers, SyncStep(h)
    PROVE  \E j \in Jobs :
             /\ Becomes(h, j) /\ j.at # "read" /\ j.at # "written"
             /\ j.at = "syncing" => /\ RemoveFromGroups(h) /\ Listed # {}
                                    /\ j.want = job[h].want /\ j.snap = Listed
<1>1. job[h] \in Jobs /\ Listed \in SUBSET Tabs /\ Synced(h) \in Jobs
      /\ Synced(h).at = "synced"
  BY NextJobs DEF TypeOK, Listed
<1>2. CASE RemoveFromGroups(h) /\ Listed # {}
  <2> DEFINE j == [job[h] EXCEPT !.at = "syncing", !.snap = Listed]
  <2>1. j \in Jobs /\ j.at = "syncing" /\ j.want = job[h].want /\ j.snap = Listed
    BY <1>1 DEF Jobs
  <2>2. job' = [job EXCEPT ![h] = j]
    BY <1>2 DEF RemoveFromGroups
  <2> HIDE DEF j
  <2> QED
    BY <1>2, <2>1, <2>2 DEF Becomes
<1>3. CASE RemoveFromGroups(h) /\ Listed = {}
  BY <1>1, <1>3 DEF RemoveFromGroups, Becomes
<1>4. CASE AddToGroups(h)
  BY <1>1, <1>4 DEF AddToGroups, Becomes
<1> QED
  BY <1>2, <1>3, <1>4 DEF SyncStep

-----------------------------------------------------------------------------
(* The copies handlers hold.                                               *)

LEMMA IdlingKeepsRead ==
    ASSUME TypeOK, ReadInv, Idles PROVE ReadInv'
BY DEF ReadInv, Idles, Holding

LEMMA ReadingKeepsRead ==
    ASSUME TypeOK, ReadInv, NEW h \in Handlers, NEW j \in Jobs, Reads(h, j)
    PROVE  ReadInv'
<1>1. job'[h] = j /\ (\A g \in Handlers : g # h => job'[g] = job[g]) /\ profile' = profile
  BY DEF TypeOK, Reads, Becomes
<1>2. profile.stamp \in Nat
  BY DEF TypeOK, Profiles
<1> QED
  BY <1>1, <1>2 DEF ReadInv, Reads

LEMMA MovingOnKeepsRead ==
    ASSUME TypeOK, ReadInv, NEW h \in Handlers, NEW j \in Jobs, Becomes(h, j),
           j.at # "read", UNCHANGED profile
    PROVE  ReadInv'
<1>1. job'[h] = j /\ (\A g \in Handlers : g # h => job'[g] = job[g]) /\ profile' = profile
  BY DEF TypeOK, Becomes
<1> QED
  BY <1>1 DEF ReadInv

LEMMA WritingKeepsRead ==
    ASSUME TypeOK, ReadInv, NEW h \in Handlers, NEW j \in Jobs, Writes(h, j)
    PROVE  ReadInv'
<1>1. job'[h] = j /\ (\A g \in Handlers : g # h => job'[g] = job[g]) /\ j.at # "read"
  BY DEF TypeOK, Writes, Becomes
<1>2. profile.stamp \in Nat /\ \A g \in Handlers : job[g].read.stamp \in Nat
  BY DEF TypeOK, Profiles, Jobs
<1>3. profile'.stamp = profile.stamp + 1
  BY DEF Writes, Stored
<1> QED
  BY <1>1, <1>2, <1>3 DEF ReadInv

-----------------------------------------------------------------------------
(* One at a time.                                                          *)

Alone == \A x, y \in Busy : x = y

LEMMA FewAreOne ==
    ASSUME NEW S, IsFiniteSet(S), ~(Cardinality(S) > 1)
    PROVE  \A x, y \in S : x = y
<1> SUFFICES ASSUME NEW x \in S, NEW y \in S, x # y PROVE FALSE
  OBVIOUS
<1>1. IsFiniteSet({x, y}) /\ Cardinality({x, y}) = 2
  <2>1. IsFiniteSet({x}) /\ Cardinality({x}) = 1
    BY FS_Singleton
  <2>2. {x, y} = {x} \cup {y}
    OBVIOUS
  <2>3. Cardinality({x} \cup {y}) = Cardinality({x}) + 1 /\ IsFiniteSet({x} \cup {y})
    BY <2>1, y \notin {x}, FS_AddElement
  <2> QED
    BY <2>1, <2>2, <2>3
<1>2. Cardinality({x, y}) <= Cardinality(S)
  BY FS_Subset, {x, y} \subseteq S
<1>3. Cardinality(S) \in Nat
  BY FS_CardinalityType
<1> QED
  BY <1>1, <1>2, <1>3

LEMMA NotOverlappedIsAlone ==
    ASSUME TypeOK, Noting, ~overlapped'
    PROVE  Alone' /\ ~overlapped
<1>1. ~(Cardinality(Busy') > 1) /\ ~overlapped
  BY DEF Noting
<1>2. IsFiniteSet(Busy')
  <2>1. Busy' \subseteq Handlers \cup Tabs
    BY DEF Busy
  <2>2. IsFiniteSet(Handlers \cup Tabs)
    BY ActorsAssumption, FS_Union
  <2> QED
    BY <2>1, <2>2, FS_Subset
<1> HIDE DEF Busy
<1>3. \A x, y \in Busy' : x = y
  BY <1>1, <1>2, FewAreOne
<1> QED
  BY <1>1, <1>3 DEF Alone

LEMMA TabStepKeepsSerial ==
    ASSUME TypeOK, TableInv, SerialInv, NEW t \in Tabs, TabStep(t), Alone'
    PROVE  SerialInv'
<1>1. /\ tab \in [Tabs -> TabStates] /\ table \in Tabs \cup {None} /\ None \notin Tabs
      /\ inner \in [Tabs -> SUBSET Tabs] /\ groups \in [Tabs -> SUBSET Tags]
      /\ Tabs \cap Handlers = {}
  BY ActorsAssumption DEF TypeOK
<1>2. \A u \in Tabs : u # t => tab'[u] = tab[u] /\ groups'[u] = groups[u]
  BY <1>1 DEF TabStep, FindEntry, List, ReadForTab, Join, Unlist, DropEntry, Gone
<1>3. UNCHANGED <<profile, job>> /\ Active(profile)' = Active(profile)
  BY DEF TabStep, FindEntry, List, ReadForTab, Join, Unlist, DropEntry, Active
<1>4. \A h \in Handlers : Writing(h)' <=> Writing(h)
  BY <1>3 DEF Writing
<1>5. tab[t].at \in {"found", "listed", "joining", "emptied"}
        => /\ \A h \in Handlers : ~Writing(h)
           /\ \A u \in Tabs : u # t => tab[u].at \in {"new", "live", "gone"}
  BY <1>1 DEF SerialInv, Busy, Writing, TabStates
<1>6. tab'[t].at \in {"found", "listed", "joining", "emptied"}
        => /\ \A h \in Handlers : ~Writing(h)
           /\ \A u \in Tabs : u # t => tab[u].at \in {"new", "live", "gone"}
  BY <1>1, <1>2, <1>3 DEF Alone, Busy, Writing, TabStates
<1>7. \A h \in Handlers : Writing(h) => Active(job[h].want) = Active(profile)
  BY DEF SerialInv
<1>8. \A u \in Tabs : u # t /\ tab[u].at = "live" => GroupsInv(u)'
  BY <1>2, <1>3, <1>4 DEF SerialInv, GroupsInv, Active
<1>9. SUFFICES \A u \in Tabs :
                /\ tab'[u].at \in {"listed", "joining", "live"} => u \in Listed'
                /\ tab'[u].at = "found" => tab'[u].dict = table'
                /\ tab'[u].at = "emptied" => Listed' = {}
                /\ tab'[u].at \in {"found", "listed", "joining"} => groups'[u] = {}
                /\ tab'[u].at = "joining" => tab'[u].join = Active(profile)'
                /\ tab'[u].at = "live" => GroupsInv(u)'
  BY <1>3, <1>4, <1>7 DEF SerialInv, Alone, Active
<1>10. \A u \in Tabs :
         /\ tab[u].at \in {"listed", "joining", "live"} => u \in Listed
         /\ tab[u].at = "found" => tab[u].dict = table
         /\ tab[u].at = "emptied" => Listed = {}
         /\ tab[u].at \in {"found", "listed", "joining"} => groups[u] = {}
         /\ tab[u].at = "joining" => tab[u].join = Active(profile)
  BY DEF SerialInv
<1>11. CASE FindEntry(t)
  <2>1. /\ tab'[t].at = "found" /\ tab'[t].dict = table' /\ tab[t].at = "new"
        /\ table' = IF table = None THEN t ELSE table
        /\ UNCHANGED <<inner, groups>>
    BY <1>1, <1>11 DEF FindEntry, NoTab
  <2>2. groups[t] = {} /\ inner[t] = {}
    BY <2>1 DEF TableInv, Held
  <2>3. Listed' = Listed
    BY <1>1, <2>1, <2>2 DEF Listed
  <2> QED
    BY <1>2, <1>6, <1>8, <1>10, <2>1, <2>2, <2>3
<1>12. CASE List(t)
  <2>1. tab[t].at = "found" /\ tab[t].dict = table /\ table \in Tabs
    BY <1>10, <1>12 DEF List, TableInv
  <2>2. /\ tab'[t].at = "listed" /\ tab[t].at = "found"
        /\ inner' = [inner EXCEPT ![table] = @ \cup {t}] /\ table \in Tabs
        /\ UNCHANGED <<table, groups>>
    BY <1>1, <1>12, <2>1 DEF List, TabStates
  <2>3. Listed' = Listed \cup {t}
    BY <1>1, <2>2 DEF Listed
  <2> QED
    BY <1>2, <1>5, <1>8, <1>10, <2>2, <2>3
<1>13. CASE ReadForTab(t)
  <2>1. /\ tab'[t].at = "joining" /\ tab'[t].join = Active(profile)
        /\ tab[t].at = "listed" /\ Listed' = Listed /\ UNCHANGED groups
    BY <1>1, <1>13 DEF ReadForTab, NoTab, Listed
  <2> QED
    BY <1>2, <1>3, <1>5, <1>8, <1>10, <2>1
<1>14. CASE Join(t)
  <2>1. /\ tab'[t].at = "live" /\ tab[t].at = "joining" /\ Listed' = Listed
        /\ groups'[t] = groups[t] \cup tab[t].join
    BY <1>1, <1>14 DEF Join, NoTab, Listed
  <2>2. groups'[t] = Active(profile)
    BY <1>10, <2>1
  <2>3. GroupsInv(t)'
    BY <1>3, <1>4, <1>5, <2>1, <2>2 DEF GroupsInv, Writing
  <2> QED
    BY <1>2, <1>3, <1>5, <1>8, <1>10, <2>1, <2>3
<1>15. Gone(t) => tab'[t].at = "gone"
  BY <1>1 DEF Gone, NoTab
<1>16. CASE Unlist(t)
  <2>1. /\ tab[t].at = "live" /\ table' = table
        /\ inner' = IF table = None THEN inner ELSE [inner EXCEPT ![table] = @ \ {t}]
    BY <1>16 DEF Unlist
  <2>2. Listed' = Listed \ {t} /\ table # None
    BY <1>1, <1>10, <2>1 DEF Listed
  <2>3. \/ tab'[t].at = "gone"
        \/ tab'[t].at = "emptied" /\ Listed' = {}
    BY <1>1, <1>15, <1>16, <2>1 DEF Unlist, TabStates, Listed
  <2> QED
    BY <1>2, <1>3, <1>8, <1>10, <2>1, <2>2, <2>3
<1>17. CASE DropEntry(t)
  <2>1. tab'[t].at = "gone" /\ tab[t].at = "emptied" /\ table' = None /\ Listed' = {}
    BY <1>15, <1>17 DEF DropEntry, Listed
  <2> QED
    BY <1>2, <1>5, <1>8, <1>10, <2>1
<1> QED
  BY <1>11, <1>12, <1>13, <1>14, <1>16, <1>17 DEF TabStep

\* A handler that is not about to sync, before or after, changes nothing here.
LEMMA OthersKeepSerial ==
    ASSUME SerialInv, Elsewhere, UNCHANGED <<profile, groups>>, Alone',
           \A h \in Handlers : Writing(h) \/ Writing(h)' => job'[h] = job[h]
    PROVE  SerialInv'
<1>1. \A h \in Handlers : Writing(h)' <=> Writing(h)
  BY DEF Writing
<1>2. Active(profile)' = Active(profile) /\ Listed' = Listed /\ tab' = tab
      /\ groups' = groups /\ table' = table
  BY DEF Active, Listed, Elsewhere
<1>3. \A t \in Tabs : tab[t].at = "live" => GroupsInv(t)'
  <2> SUFFICES ASSUME NEW t \in Tabs, tab[t].at = "live" PROVE GroupsInv(t)'
    OBVIOUS
  <2>1. GroupsInv(t)
    BY DEF SerialInv
  <2> QED
    BY <1>1, <1>2, <2>1 DEF GroupsInv, Writing
<1>4. \A h \in Handlers : Writing(h)' => Active(job[h].want)' = Active(profile)'
  BY <1>1, <1>2 DEF SerialInv, Active
<1> QED
  BY <1>2, <1>3, <1>4 DEF SerialInv, Alone

LEMMA WritingKeepsSerial ==
    ASSUME TypeOK, ReadInv, SerialInv, NEW h \in Handlers, NEW j \in Jobs,
           Writes(h, j), Alone'
    PROVE  SerialInv'
<1>1. job'[h] = j /\ (\A g \in Handlers : g # h => job'[g] = job[g])
  BY DEF TypeOK, Writes, Becomes
<1>2. /\ profile = job[h].read
      /\ profile'.tags = job[h].want.tags /\ profile'.muted = job[h].want.muted
      /\ \A f \in Fields \ job[h].asked : job[h].want[f] = profile[f]
  BY DEF ReadInv, Writes, Stored
<1>3. h \in Saves => profile'.tags = profile.tags
  BY <1>2 DEF ReadInv, Writes, Fields
<1>4. \A g \in Handlers : g # h => ~Writing(g) /\ ~Writing(g)'
  <2>1. h \in Busy
    BY DEF Writes, Busy
  <2> QED
    BY <1>1, <2>1 DEF SerialInv, Busy, Writing
<1>5. /\ \A t \in Tabs : tab[t].at \in {"new", "live", "gone"}
      /\ ~Writing(h) /\ \A g \in Handlers : ~Writing(g)
  <2>1. h \in Busy
    BY DEF Writes, Busy
  <2>2. \A t \in Tabs : t # h
    BY ActorsAssumption
  <2>3. \A t \in Tabs : tab[t].at \in {"new", "live", "gone"}
    BY <2>1, <2>2 DEF SerialInv, Busy
  <2> QED
    BY <1>4, <2>3 DEF Writes, Writing
<1>6. tab' = tab /\ table' = table /\ groups' = groups /\ Listed' = Listed
  BY DEF Writes, Elsewhere, Listed
<1>7. \A t \in Tabs : tab[t].at = "live" => groups[t] = Active(profile)
  BY <1>5 DEF SerialInv, GroupsInv
<1>8. \A t \in Tabs : tab[t].at = "live" => t \in Listed
  BY DEF SerialInv
<1>9. CASE j.at = "synced"
  <2>1. Active(profile)' = Active(profile)
    BY <1>2, <1>3, <1>9 DEF Writes, Active
  <2>2. \A g \in Handlers : ~Writing(g)' /\ job'[g].at \notin {"written", "syncing"}
    BY <1>1, <1>4, <1>9 DEF Writing
  <2>3. \A t \in Tabs : tab[t].at = "live" => GroupsInv(t)'
    BY <1>6, <1>7, <2>1, <2>2 DEF GroupsInv
  <2> QED
    BY <1>5, <1>6, <1>8, <2>2, <2>3 DEF SerialInv, Alone
<1>10. CASE j.at = "written"
  <2>1. j.want = job[h].want /\ Active(profile) \subseteq j.gone
    <3>1. /\ j.want = job[h].want
          /\ j.gone = profile.tags \/ (j.gone = profile'.tags /\ h \in Saves)
      BY <1>2, <1>10 DEF Writes
    <3>2. j.gone = profile.tags
      BY <1>3, <3>1
    <3> QED
      BY <3>1, <3>2 DEF Active
  <2>2. Active(job[h].want)' = Active(profile)'
    BY <1>1, <1>2, <2>1 DEF Active
  <2>3. \A t \in Tabs : tab[t].at = "live" => GroupsInv(t)'
    BY <1>1, <1>4, <1>6, <1>7, <1>10, <2>1 DEF GroupsInv, Writing
  <2> QED
    BY <1>4, <1>5, <1>6, <1>8, <2>2, <2>3 DEF SerialInv, Alone
<1> QED
  BY <1>9, <1>10 DEF Writes

LEMMA SyncingKeepsSerial ==
    ASSUME TypeOK, SerialInv, NEW h \in Handlers, SyncStep(h), Alone'
    PROVE  SerialInv'
<1>1. PICK j \in Jobs :
        /\ Becomes(h, j) /\ j.at # "read" /\ j.at # "written"
        /\ j.at = "syncing" => /\ RemoveFromGroups(h) /\ Listed # {}
                               /\ j.want = job[h].want /\ j.snap = Listed
  BY SyncsSync
<1>2. job'[h] = j /\ (\A g \in Handlers : g # h => job'[g] = job[g])
  BY <1>1 DEF TypeOK, Becomes
<1>3. h \in Busy /\ Writing(h)
  BY DEF SyncStep, RemoveFromGroups, AddToGroups, Busy, Writing
<1>4. \A g \in Handlers : g # h => ~Writing(g) /\ ~Writing(g)'
  BY <1>2, <1>3 DEF SerialInv, Busy, Writing
<1>5. \A t \in Tabs : tab[t].at \in {"new", "live", "gone"}
  <2>1. \A t \in Tabs : t # h
    BY ActorsAssumption
  <2> QED
    BY <1>3, <2>1 DEF SerialInv, Busy
<1>6. /\ tab' = tab /\ table' = table /\ Listed' = Listed
      /\ profile' = profile /\ Active(profile)' = Active(profile)
  BY SyncsTouchOpenTabs DEF Elsewhere, Listed, Active
<1>7. \A t \in Tabs : tab[t].at = "live" => /\ t \in Listed /\ Held(t) /\ GroupsInv(t)
  BY DEF SerialInv, Held
<1>8. Active(job[h].want) = Active(profile)
  BY <1>3 DEF SerialInv
<1>9. CASE RemoveFromGroups(h) /\ Listed = {}
  <2>1. \A t \in Tabs : tab[t].at # "live"
    BY <1>7, <1>9
  <2>2. job'[h].at = "synced"
    BY <1>9, NextJobs DEF RemoveFromGroups, TypeOK
  <2>3. \A g \in Handlers : ~Writing(g)'
    BY <1>4, <2>2 DEF Writing
  <2> QED
    BY <1>5, <1>6, <2>1, <2>3 DEF SerialInv, Alone
<1>10. CASE RemoveFromGroups(h) /\ Listed # {}
  <2>1. /\ job[h].at = "written"
        /\ \A t \in Tabs : t \in Listed /\ Held(t) => groups'[t] = groups[t] \ job[h].gone
    BY <1>10 DEF RemoveFromGroups
  <2>2. \A t \in Tabs : tab[t].at = "live" => groups'[t] = {}
    BY <1>7, <2>1 DEF GroupsInv
  <2>3. j.at = "syncing" /\ j.want = job[h].want /\ j.snap = Listed
    <3>1. job'[h].at = "syncing"
      BY <1>10 DEF RemoveFromGroups, TypeOK, Jobs
    <3> QED
      BY <1>1, <1>2, <3>1
  <2>4. \A t \in Tabs : tab[t].at = "live" => GroupsInv(t)'
    BY <1>2, <1>4, <1>7, <2>2, <2>3 DEF GroupsInv, Writing
  <2>5. Active(job[h].want)' = Active(profile)'
    BY <1>2, <1>6, <1>8, <2>3 DEF Active
  <2> QED
    BY <1>4, <1>5, <1>6, <1>7, <2>4, <2>5 DEF SerialInv, Alone
<1>11. CASE AddToGroups(h)
  <2>1. /\ job[h].at = "syncing" /\ job'[h].at = "synced"
        /\ \A t \in Tabs : t \in job[h].snap /\ Held(t)
                             => groups'[t] = groups[t] \cup Active(job[h].want)
    BY <1>11, NextJobs DEF AddToGroups, TypeOK
  <2>2. \A t \in Tabs : tab[t].at = "live" => groups'[t] = Active(profile)
    BY <1>7, <1>8, <2>1 DEF GroupsInv
  <2>3. \A g \in Handlers : ~Writing(g)' /\ job'[g].at \notin {"written", "syncing"}
    BY <1>4, <2>1 DEF Writing
  <2>4. \A t \in Tabs : tab[t].at = "live" => GroupsInv(t)'
    BY <1>6, <2>2, <2>3 DEF GroupsInv
  <2> QED
    BY <1>5, <1>6, <1>7, <2>3, <2>4 DEF SerialInv, Alone
<1> QED
  BY <1>9, <1>10, <1>11 DEF SyncStep

-----------------------------------------------------------------------------
(* A restart of the gateway.                                               *)

LEMMA RestartForgets ==
    ASSUME TypeOK, Restart
    PROVE  /\ tab' \in [Tabs -> TabStates] /\ job' \in [Handlers -> Jobs]
           /\ \A t \in Tabs : tab'[t].at \in {"new", "gone"} /\ groups'[t] = {}
                              /\ inner'[t] = {}
           /\ \A h \in Handlers : job'[h].at \notin Holding
           /\ table' = None /\ UNCHANGED profile /\ restarts' \in Nat
           /\ inner' \in [Tabs -> SUBSET Tabs] /\ groups' \in [Tabs -> SUBSET Tags]
<1>1. [NoTab EXCEPT !.at = "gone"] \in TabStates
      /\ [NoTab EXCEPT !.at = "gone"].at = "gone"
  BY NotStartedTyped DEF TabStates
<1>2. \A t \in Tabs : tab'[t] \in TabStates /\ tab'[t].at \in {"new", "gone"}
  BY <1>1 DEF Restart, TypeOK, Held
<1>3. tab' \in [Tabs -> TabStates]
  BY <1>2 DEF Restart
<1>4. \A h \in Handlers : job'[h] \in Jobs /\ job'[h].at \notin Holding
  <2> TAKE h \in Handlers
  <2>1. job[h] \in Jobs /\ job[h].want.tags \in SUBSET Tags
    BY DEF TypeOK, Jobs, Users
  <2>2. /\ Finished(h) \in Jobs /\ Finished(h).at = "done"
        /\ Queued(job[h].want.tags, 0) \in Jobs
        /\ Queued(job[h].want.tags, 0).at = "queued"
    BY <2>1, NextJobs
  <2>3. \/ job'[h] = job[h] /\ job[h].at \in {"idle", "asked", "done", "error"}
        \/ job'[h] = Queued(job[h].want.tags, 0)
        \/ job'[h] = Finished(h)
    BY DEF Restart
  <2> QED
    BY <2>1, <2>2, <2>3 DEF Holding
<1>5. job' \in [Handlers -> Jobs]
  BY <1>4 DEF Restart
<1> QED
  BY <1>2, <1>3, <1>4, <1>5 DEF Restart, TypeOK

-----------------------------------------------------------------------------
(* The invariant.                                                          *)

LEMMA InitInv == Init => LiveTagsInv
<1> SUFFICES ASSUME Init PROVE LiveTagsInv
  OBVIOUS
<1>1. \A t \in Tabs : tab[t] = NoTab /\ NoTab.at = "new" /\ inner[t] = {} /\ groups[t] = {}
  BY DEF Init, NoTab
<1>2. \A h \in Handlers : job[h] = NotStarted /\ NotStarted.at = "idle"
  BY DEF Init, NotStarted
<1>3. TypeOK
  BY NotStartedTyped DEF Init, TypeOK
<1>4. TableInv
  BY <1>1, ActorsAssumption DEF Init, TableInv, Listed, Held
<1>5. ReadInv
  BY <1>2 DEF ReadInv
<1>6. SerialInv
  BY <1>1, <1>2 DEF SerialInv, Busy, Writing
<1> QED
  BY <1>3, <1>4, <1>5, <1>6 DEF LiveTagsInv

LEMMA NextInv ==
    ASSUME LiveTagsInv, Next
    PROVE  LiveTagsInv'
<1>1. TypeOK /\ TableInv /\ ReadInv /\ (~overlapped => SerialInv)
  BY DEF LiveTagsInv
<1>2. Noting /\ Step /\ overlapped' \in BOOLEAN
  BY <1>1 DEF Next, Noting, TypeOK
<1>3. ~overlapped' => SerialInv /\ Alone'
  BY <1>1, <1>2, NotOverlappedIsAlone
<1>4. ASSUME NEW t \in Tabs, TabStep(t) PROVE LiveTagsInv'
  <2>1. TypeOK'
    BY <1>1, <1>2, <1>4, TabStepTyped DEF TypeOK
  <2>2. TableInv'
    BY <1>1, <1>4, TabStepKeepsTable
  <2>3. ReadInv'
    BY <1>1, <1>4, TabStepTyped DEF ReadInv
  <2>4. ~overlapped' => SerialInv'
    BY <1>1, <1>3, <1>4, TabStepKeepsSerial
  <2> QED
    BY <2>1, <2>2, <2>3, <2>4 DEF LiveTagsInv
<1>5. ASSUME Idles PROVE LiveTagsInv'
  <2>1. TypeOK'
    BY <1>1, <1>2, <1>5 DEF TypeOK, Idles, Elsewhere
  <2>2. TableInv'
    BY <1>1, <1>5, HandlersKeepTable DEF Idles
  <2>3. ReadInv'
    BY <1>1, <1>5, IdlingKeepsRead
  <2>4. ~overlapped' => SerialInv'
    BY <1>3, <1>5, OthersKeepSerial DEF Idles, Writing, Holding
  <2> QED
    BY <2>1, <2>2, <2>3, <2>4 DEF LiveTagsInv
<1>6. ASSUME NEW h \in Handlers, NEW j \in Jobs, Reads(h, j) \/ Refused(h, j)
      PROVE  LiveTagsInv'
  <2>1. /\ Elsewhere /\ UNCHANGED <<profile, groups>> /\ Becomes(h, j)
        /\ job[h].at \notin {"written", "syncing"} /\ j.at \notin {"written", "syncing"}
    BY <1>6 DEF Reads, Refused, Holding
  <2>2. job'[h] = j /\ \A g \in Handlers : g # h => job'[g] = job[g]
    BY <1>1, <2>1 DEF TypeOK, Becomes
  <2>3. TypeOK'
    BY <1>1, <1>2, <2>1 DEF TypeOK, Becomes, Elsewhere
  <2>4. TableInv'
    BY <1>1, <2>1, HandlersKeepTable
  <2>5. ReadInv'
    BY <1>1, <1>6, <2>1, ReadingKeepsRead, MovingOnKeepsRead DEF Refused, Holding
  <2>6. ~overlapped' => SerialInv'
    BY <1>3, <2>1, <2>2, OthersKeepSerial DEF Writing
  <2> QED
    BY <2>3, <2>4, <2>5, <2>6 DEF LiveTagsInv
<1>7. ASSUME NEW h \in Handlers, NEW j \in Jobs, Writes(h, j) PROVE LiveTagsInv'
  <2>1. profile' \in Profiles
    BY <1>1, <1>7 DEF TypeOK, Writes, Stored, Profiles, Jobs, Users
  <2>2. TypeOK'
    BY <1>1, <1>2, <1>7, <2>1 DEF TypeOK, Writes, Becomes, Elsewhere
  <2>3. TableInv'
    BY <1>1, <1>7, HandlersKeepTable DEF Writes
  <2>4. ReadInv'
    BY <1>1, <1>7, WritingKeepsRead
  <2>5. ~overlapped' => SerialInv'
    BY <1>1, <1>3, <1>7, WritingKeepsSerial
  <2> QED
    BY <2>2, <2>3, <2>4, <2>5 DEF LiveTagsInv
<1>8. ASSUME NEW h \in Handlers, SyncStep(h) PROVE LiveTagsInv'
  <2>1. PICK j \in Jobs : Becomes(h, j) /\ j.at # "read"
    BY <1>1, <1>8, SyncsSync
  <2>2. /\ Elsewhere /\ UNCHANGED profile
        /\ groups' \in [Tabs -> SUBSET Tags]
        /\ \A t \in Tabs : ~Held(t) => groups'[t] = groups[t]
    BY <1>1, <1>8, SyncsTouchOpenTabs
  <2>3. TypeOK'
    BY <1>1, <1>2, <2>1, <2>2 DEF TypeOK, Becomes, Elsewhere
  <2>4. TableInv'
    BY <1>1, <2>2, HandlersKeepTable
  <2>5. ReadInv'
    BY <1>1, <2>1, <2>2, MovingOnKeepsRead
  <2>6. ~overlapped' => SerialInv'
    BY <1>1, <1>3, <1>8, SyncingKeepsSerial
  <2> QED
    BY <2>3, <2>4, <2>5, <2>6 DEF LiveTagsInv
<1>9. CASE Restart
  <2>1. TypeOK'
    BY <1>1, <1>2, <1>9, RestartForgets DEF TypeOK
  <2>2. /\ \A t \in Tabs : tab'[t].at \in {"new", "gone"} /\ groups'[t] = {}
                           /\ inner'[t] = {}
        /\ \A h \in Handlers : job'[h].at \notin Holding
        /\ table' = None /\ Listed' = {}
    BY <1>1, <1>9, RestartForgets DEF Listed
  <2>3. TableInv'
    BY <2>2, ActorsAssumption DEF TableInv, Held
  <2>4. ReadInv'
    BY <2>2 DEF ReadInv, Holding
  <2>5. ~overlapped' => SerialInv'
    BY <1>3, <2>2 DEF SerialInv, Alone, Writing, Holding
  <2> QED
    BY <2>1, <2>3, <2>4, <2>5 DEF LiveTagsInv
<1>10. ASSUME NEW s \in Saves, SaveStep(s) PROVE LiveTagsInv'
  <2>1. s \in Handlers
    BY DEF Handlers
  <2> QED
    BY <1>1, <1>5, <1>6, <1>7, <1>10, <2>1, EndsIdle, ReadsRead, WritesWrite DEF SaveStep
<1>11. ASSUME NEW d \in Assigns, AssignStep(d) PROVE LiveTagsInv'
  <2>1. d \in Handlers
    BY DEF Handlers
  <2> QED
    BY <1>1, <1>5, <1>6, <1>7, <1>11, <2>1, EndsIdle, ReadsRead, WritesWrite DEF AssignStep
<1>12. ASSUME NEW c \in Commands, Ask(c) \/ EventStep(c) PROVE LiveTagsInv'
  <2>1. c \in Handlers
    BY DEF Handlers
  <2> QED
    BY <1>1, <1>5, <1>6, <1>7, <1>12, <2>1, EndsIdle, ReadsRead, WritesWrite DEF EventStep
<1> QED
  BY <1>2, <1>4, <1>8, <1>9, <1>10, <1>11, <1>12 DEF Step

LEMMA StutterInv ==
    ASSUME LiveTagsInv, UNCHANGED vars
    PROVE  LiveTagsInv'
<1> SUFFICES /\ TypeOK' /\ TableInv' /\ ReadInv' /\ (~overlapped => SerialInv')
             /\ overlapped' = overlapped
  BY DEF LiveTagsInv
<1>1. TypeOK'
  BY DEF LiveTagsInv, TypeOK, vars
<1>2. TableInv'
  BY DEF LiveTagsInv, TableInv, vars, Listed, Held
<1>3. ReadInv'
  BY DEF LiveTagsInv, ReadInv, vars
<1>4. ~overlapped => SerialInv'
  BY DEF LiveTagsInv, SerialInv, vars, Listed, Busy, Writing, GroupsInv, Active
<1> QED
  BY <1>1, <1>2, <1>3, <1>4 DEF vars

\* The table, the copies the handlers hold and the groups stay consistent, for any
\* number of connections and handlers (ConnectionManager, UserService, UserTagService).
THEOREM LiveTagsInvariant == Spec => []LiveTagsInv
<1>1. LiveTagsInv /\ [Next]_vars => LiveTagsInv'
  BY NextInv, StutterInv
<1> QED
  BY InitInv, <1>1, PTL DEF Spec

-----------------------------------------------------------------------------
(* What follows: the properties the runs check.                            *)

\* The hub's table lists open connections only and forgets a user whose last tab
\* has closed, and no closed connection is in a group, however the adds, removals
\* and syncs of any number of tabs interleave.
THEOREM TableIsOfOpenTabs == Spec => []TableHoldsOnlyOpenTabs
<1>1. LiveTagsInv => TableHoldsOnlyOpenTabs
  <2> SUFFICES ASSUME LiveTagsInv PROVE TableHoldsOnlyOpenTabs
    OBVIOUS
  <2>1. TypeOK /\ TableInv
    BY DEF LiveTagsInv
  <2>2. ASSUME \A t \in Tabs : ~Held(t), table # None PROVE FALSE
    <3>1. table \in Tabs /\ inner[table] \subseteq Tabs /\ Listed = inner[table]
      BY <2>1, <2>2 DEF TypeOK, Listed
    <3>2. inner[table] = {}
      BY <2>1, <2>2, <3>1 DEF TableInv, Held
    <3> QED
      BY <2>1, <2>2, <3>2 DEF TableInv, Held
  <2> QED
    BY <2>1, <2>2 DEF TableHoldsOnlyOpenTabs, TableInv
<1> QED
  BY <1>1, LiveTagsInvariant, PTL

\* As long as nothing overlapped, every open tab is in exactly the groups of the
\* unmuted tags: the callers of SyncGroupsAsync pass the right previous tags.
THEOREM SyncIsExact == Spec => []SerialSyncIsExact
<1>1. LiveTagsInv => SerialSyncIsExact
  <2> SUFFICES ASSUME LiveTagsInv, ~overlapped, Busy = {},
                      NEW t \in Tabs, tab[t].at = "live"
               PROVE  groups[t] = Active(profile)
    BY DEF SerialSyncIsExact
  <2>1. GroupsInv(t)
    BY DEF LiveTagsInv, SerialInv
  <2>2. \A h \in Handlers : ~Writing(h)
    BY DEF Busy, Writing
  <2> QED
    BY <2>1, <2>2 DEF GroupsInv
<1> QED
  BY <1>1, LiveTagsInvariant, PTL

\* The concurrency stamp makes every accepted write of a handler leave alone the
\* fields it was not asked for, whatever other handlers wrote since it read.
THEOREM NoUpdateIsLost == Spec => NoLostUpdate
<1> DEFINE Keeps == \A h \in Handlers :
                      job[h].at = "read" /\ job'[h] # job[h] /\ profile' # profile
                        => \A f \in DOMAIN NewUser \ job[h].asked : profile'[f] = profile[f]
<1>1. DOMAIN NewUser = Fields
  BY DEF NewUser, Fields
<1>2. ASSUME LiveTagsInv, Next, NEW h \in Handlers,
             job[h].at = "read", job'[h] # job[h], profile' # profile,
             NEW f \in Fields \ job[h].asked
      PROVE  profile'[f] = profile[f]
  <2>1. TypeOK /\ ReadInv
    BY <1>2 DEF LiveTagsInv
  <2>2. \E g \in Handlers, j \in Jobs : Writes(g, j)
    <3>1. ASSUME NEW t \in Tabs, TabStep(t) PROVE FALSE
      BY <1>2, <2>1, <3>1, TabStepTyped
    <3>2. ASSUME NEW g \in Handlers, SyncStep(g) PROVE FALSE
      BY <1>2, <2>1, <3>2, SyncsTouchOpenTabs
    <3>3. ~Restart
      BY <1>2 DEF Restart
    <3>4. ~Idles /\ \A g \in Handlers, j \in Jobs : ~Reads(g, j) /\ ~Refused(g, j)
      BY <1>2 DEF Idles, Reads, Refused
    <3>5. ASSUME NEW s \in Saves, SaveStep(s) PROVE \E j \in Jobs : Writes(s, j)
      BY <2>1, <3>4, <3>5, EndsIdle, ReadsRead, WritesWrite DEF SaveStep, Handlers
    <3>6. ASSUME NEW d \in Assigns, AssignStep(d) PROVE \E j \in Jobs : Writes(d, j)
      BY <2>1, <3>4, <3>6, EndsIdle, ReadsRead, WritesWrite DEF AssignStep, Handlers
    <3>7. ASSUME NEW c \in Commands, Ask(c) \/ EventStep(c)
          PROVE  \E j \in Jobs : Writes(c, j)
      BY <2>1, <3>4, <3>7, EndsIdle, ReadsRead, WritesWrite DEF EventStep, Handlers
    <3> QED
      BY <1>2, <3>1, <3>2, <3>3, <3>5, <3>6, <3>7 DEF Next, Step, Handlers
  <2>3. PICK g \in Handlers, j \in Jobs : Writes(g, j)
    BY <2>2
  <2>4. g = h
    BY <1>2, <2>1, <2>3 DEF Writes, Becomes, TypeOK
  <2>5. job[h].want[f] = profile[f]
    BY <2>1, <2>3, <2>4 DEF Writes, ReadInv
  <2>6. profile'[f] = job[h].want[f]
    BY <2>3, <2>4 DEF Writes, Stored, Fields
  <2> QED
    BY <2>5, <2>6
<1>3. LiveTagsInv /\ [Next]_vars => [Keeps]_vars
  BY <1>1, <1>2
<1>4. Spec => [][Keeps]_vars
  BY <1>3, LiveTagsInvariant, PTL DEF Spec
<1> QED
  BY <1>4 DEF NoLostUpdate
=============================================================================
