-------------------------- MODULE BackOfficeProofs --------------------------
(***************************************************************************)
(* What holds of the statistics and of the list of messages for any number *)
(* of sections and messages, and for every CACHE_TTL, page size and order: *)
(* how old a figure can be, and when a client that turns the pages has     *)
(* seen everything.                                                        *)
(***************************************************************************)
EXTENDS BackOffice, FiniteSetTheorems, TLAPS

USE DEF vars

-----------------------------------------------------------------------------
(***************************************************************************)
(* Types.                                                                  *)
(***************************************************************************)
\* The records that actions start from.
LEMMA Constructors ==
  /\ NoEntry \in Entry /\ NoPart \in Part /\ NoWalk \in Walk
  /\ Idle \in RequestRecord /\ Done \in RequestRecord
<1>2. NoEntry \in Entry
  BY BackOfficeAssumption DEF NoEntry, Entry
<1>3. NoPart \in Part
  BY BackOfficeAssumption DEF NoPart, Part
<1>4. NoWalk \in Walk
  BY BackOfficeAssumption DEF NoWalk, Walk
<1>5. Idle \in RequestRecord
  BY <1>3, <1>4, BackOfficeAssumption DEF Idle, RequestRecord
<1>6. Done \in RequestRecord
  BY <1>5 DEF Done, RequestRecord
<1> QED  BY <1>2, <1>3, <1>4, <1>5, <1>6

\* Of sets of messages, how many there are is a number.
LEMMA Numbers ==
  ASSUME NEW S \in SUBSET Contacts
  PROVE  IsFiniteSet(S) /\ Cardinality(S) \in Nat
BY BackOfficeAssumption, FS_Subset, FS_CardinalityType

\* The start establishes the types.
LEMMA InitTypes == Init => TypeOK
BY Constructors, BackOfficeAssumption DEF Init, TypeOK

\* The part of a request that SetPart writes.
LEMMA SetPartTypes ==
  ASSUME TypeOK, NEW r \in Requests, NEW s \in Sections, NEW part \in Part,
         SetPart(r, s, part)
  PROVE  /\ request' \in [Requests -> RequestRecord]
         /\ request'[r] = [request[r] EXCEPT !.part[s] = part]
         /\ request'[r].part[s] = part /\ request'[r].op = request[r].op
         /\ request'[r].begun = request[r].begun
         /\ request'[r].walk = request[r].walk
         /\ request'[r].listed = request[r].listed
         /\ \A q \in Requests, t \in Sections :
              q # r \/ t # s => request'[q].part[t] = request[q].part[t]
         /\ \A q \in Requests \ {r} : request'[q] = request[q]
BY DEF SetPart, TypeOK, RequestRecord

\* What a query leaves of the part of a request that it belongs to.
LEMMA RunQueryPart ==
  ASSUME TypeOK, NEW r \in Requests, NEW s \in Sections,
         NEW query \in {"count", "group"}, RunQuery(r, s, query)
  PROVE  LET part == request[r].part[s]
             left == part.todo \ {query}
         IN \E new \in Part :
              /\ SetPart(r, s, new) /\ UNCHANGED entry
              /\ new.todo = left
              /\ new.at = IF left = {} THEN "store" ELSE "query"
              /\ new.oldest = IF left = {} THEN part.oldest ELSE clock
<1> DEFINE part == request[r].part[s]
           left == part.todo \ {query}
           new == [part EXCEPT !.todo = left,
                     !.at = IF left = {} THEN "store" ELSE "query",
                     !.oldest = IF left = {} THEN @ ELSE clock]
<1>1. /\ part \in Part /\ clock \in 0..MaxClock
      /\ left \in SUBSET {"count", "group"}
  BY DEF TypeOK, RequestRecord, Part
<1>2. SetPart(r, s, new) /\ UNCHANGED entry
  BY DEF RunQuery
<1>3. /\ new \in Part /\ new.todo = left
      /\ new.at = IF left = {} THEN "store" ELSE "query"
      /\ new.oldest = IF left = {} THEN part.oldest ELSE clock
  BY <1>1 DEF Part
<1> QED  BY <1>2, <1>3

\* The steps of the statistics preserve the types.
LEMMA StatsTypes ==
  ASSUME TypeOK, NEW r \in Requests, StatsStep(r)
  PROVE  TypeOK'
<1>1. ASSUME NEW s \in Sections, GetStats(r, s) PROVE TypeOK'
  <2>1. [Idle EXCEPT !.op = "stats", !.begun = clock, !.part[s].at = "lookUp"]
          \in RequestRecord
    <3>1. [NoPart EXCEPT !.at = "lookUp"] \in Part
      BY Constructors DEF Part
    <3> QED  BY <3>1, Constructors DEF Idle, RequestRecord, TypeOK
  <2> QED  BY <1>1, <2>1 DEF GetStats, TypeOK
<1>2. ASSUME NEW s \in Sections, Hit(r, s) PROVE TypeOK'
  <2>1. [NoPart EXCEPT !.at = "done", !.oldest = entry[s].oldest[s]] \in Part
    <3>1. entry[s] \in Entry
      BY DEF TypeOK, Keys
    <3> QED  BY <3>1, Constructors DEF Part, Entry
  <2> QED  BY <1>2, <2>1, SetPartTypes DEF Hit, SetPart, TypeOK
<1>3. ASSUME NEW s \in Sections, Miss(r, s) PROVE TypeOK'
  <2>1. [NoPart EXCEPT !.at = "query", !.todo = {"count", "group"}] \in Part
    BY Constructors DEF Part
  <2> QED  BY <1>3, <2>1, SetPartTypes DEF Miss, SetPart, TypeOK
<1>4. ASSUME NEW s \in Sections, StoreFigures(r, s) PROVE TypeOK'
  <2>1. request[r].part[s] \in Part
    BY DEF TypeOK, RequestRecord
  <2>2. [request[r].part[s] EXCEPT !.at = "done"] \in Part
    BY <2>1 DEF Part
  <2>3. Fresh([NoEntry.oldest EXCEPT ![s] = request[r].part[s].oldest]) \in Entry
    BY <2>1, Constructors DEF Fresh, Entry, Part, TypeOK
  <2>4. SetPart(r, s, [request[r].part[s] EXCEPT !.at = "done"])
    BY <1>4 DEF StoreFigures
  <2>5. entry' \in [Keys -> Entry]
    BY <1>4, <2>3 DEF StoreFigures, TypeOK, Keys
  <2>6. request' \in [Requests -> RequestRecord]
    BY <2>2, <2>4, SetPartTypes
  <2> QED  BY <2>4, <2>5, <2>6 DEF SetPart, TypeOK
<1>5. ASSUME NEW s \in Sections, NEW query \in {"count", "group"},
             RunQuery(r, s, query)
      PROVE  TypeOK'
  <2>1. PICK new \in Part : SetPart(r, s, new) /\ UNCHANGED entry
    BY <1>5, RunQueryPart
  <2> QED  BY <2>1, SetPartTypes DEF SetPart, TypeOK
<1>6. CASE GetAdminDashboard(r)
  <2>1. [Idle EXCEPT !.op = "dashboard", !.begun = clock,
           !.part = [s \in Sections |-> [NoPart EXCEPT !.at = "lookUp"]]]
          \in RequestRecord
    <3>1. [NoPart EXCEPT !.at = "lookUp"] \in Part
      BY Constructors DEF Part
    <3> QED  BY <3>1, Constructors DEF RequestRecord, TypeOK
  <2> QED  BY <1>6, <2>1 DEF GetAdminDashboard, TypeOK
<1>7. CASE StoreDashboard(r)
  <2>1. Fresh([s \in Sections |-> request[r].part[s].oldest]) \in Entry
    BY DEF Fresh, Entry, TypeOK, RequestRecord, Part
  <2> QED  BY <1>7, <2>1, Constructors DEF StoreDashboard, TypeOK, Keys
<1>8. CASE AnswerStats(r)
  BY <1>8, Constructors DEF AnswerStats, TypeOK
<1> QED  BY <1>1, <1>2, <1>3, <1>4, <1>5, <1>6, <1>7, <1>8 DEF StatsStep

\* So do the steps of those who read the list of messages.
LEMMA ContactTypes ==
  ASSUME TypeOK, NEW r \in Requests, ContactStep(r)
  PROVE  TypeOK'
<1>1. request[r] \in RequestRecord /\ request[r].walk \in Walk
  BY DEF TypeOK, RequestRecord
<1>2. \A unread : Listed(unread) \subseteq Contacts
  BY DEF Listed
<1>3. ASSUME NEW limit \in Limits, NEW unread \in BOOLEAN, NEW sort \in Sorts,
             GetAllContacts(r, limit, unread, sort)
      PROVE  TypeOK'
  <2>1. [NoWalk EXCEPT !.limit = limit, !.unread = unread, !.sort = sort,
                       !.page = 1, !.todo = BothQueries, !.due = Listed(unread)] \in Walk
    BY <1>2, Constructors DEF Walk, BothQueries
  <2> QED  BY <1>3, <2>1, Constructors DEF GetAllContacts, TypeOK, RequestRecord
<1>4. CASE FetchPage(r)
  <2>1. PICK skipped, read \in SUBSET Listed(request[r].walk.unread) :
          request' = [request EXCEPT
            ![r].walk.todo = @ \ {"data"},
            ![r].walk.seen = @ \cup (read \ skipped),
            ![r].walk.tied = @ \/ SplitsTie(request[r].walk, read)]
    BY <1>4 DEF FetchPage, FirstOnes
  <2>2. /\ read \ skipped \subseteq Contacts
        /\ SplitsTie(request[r].walk, read) \in BOOLEAN
    BY <1>2 DEF SplitsTie
  <2>3. PICK todo \in SUBSET BothQueries, seen \in SUBSET Contacts, tied \in BOOLEAN :
          request' = [request EXCEPT ![r].walk.todo = todo,
                        ![r].walk.seen = seen, ![r].walk.tied = tied]
    <3>1. /\ request[r].walk.todo \ {"data"} \in SUBSET BothQueries
          /\ request[r].walk.seen \cup (read \ skipped) \in SUBSET Contacts
          /\ (request[r].walk.tied \/ SplitsTie(request[r].walk, read)) \in BOOLEAN
      BY <1>1, <2>2 DEF Walk, BothQueries
    <3> QED  BY <2>1, <3>1
  <2>4. request' \in [Requests -> RequestRecord]
    BY <1>1, <2>3 DEF TypeOK, RequestRecord, Walk, BothQueries
  <2> QED  BY <1>4, <2>4 DEF FetchPage, TypeOK
<1>5. CASE GetMeta(r)
  <2>1. Cardinality(Listed(request[r].walk.unread)) \in Nat
    BY <1>2, Numbers
  <2> QED  BY <1>1, <1>5, <2>1 DEF GetMeta, TypeOK, RequestRecord, Walk
<1>6. CASE NextPage(r)
  <2>1. request[r].walk.page + 1 \in Nat
    BY <1>1 DEF Walk
  <2>2. CASE request' = [request EXCEPT ![r].listed = TRUE]
    <3>1. [request[r] EXCEPT !.listed = TRUE] \in RequestRecord
      BY <1>1 DEF RequestRecord
    <3>2. request' \in [Requests -> RequestRecord]
      BY <2>2, <3>1 DEF TypeOK
    <3>3. UNCHANGED <<office, clock, entry, contact, writes>>
      BY <1>6 DEF NextPage
    <3> QED  BY <3>2, <3>3 DEF TypeOK
  <2>3. CASE request' = [request EXCEPT ![r].walk.page = @ + 1,
                                        ![r].walk.todo = BothQueries]
    <3>1. [request[r] EXCEPT !.walk = [request[r].walk EXCEPT
             !.page = @ + 1, !.todo = BothQueries]] \in RequestRecord
      BY <1>1, <2>1 DEF RequestRecord, Walk, BothQueries
    <3>2. request' = [request EXCEPT ![r] = [request[r] EXCEPT
             !.walk = [request[r].walk EXCEPT !.page = @ + 1, !.todo = BothQueries]]]
      BY <1>1, <2>3 DEF TypeOK, RequestRecord, Walk
    <3> QED  BY <1>6, <3>1, <3>2 DEF NextPage, TypeOK
  <2> QED  BY <1>6, <2>2, <2>3 DEF NextPage
<1> QED  BY <1>3, <1>4, <1>5, <1>6 DEF ContactStep

\* And so does everything that others do.
LEMMA ChangeTypes ==
  ASSUME TypeOK, NEW c \in Contacts, NEW new \in Contact, Change(c, new), Written
  PROVE  TypeOK'
<1>1. writes' \in 0..MaxWrites
  BY BackOfficeAssumption DEF TypeOK, Written
<1>2. ASSUME NEW r \in Requests PROVE request'[r] \in RequestRecord
  <2>1. request[r] \in RequestRecord /\ request[r].walk \in Walk
    BY DEF TypeOK, RequestRecord
  <2>2. Matches(contact[c], request[r].walk.unread) \in BOOLEAN
        /\ Matches(new, request[r].walk.unread) \in BOOLEAN
    BY DEF Matches, Contact, TypeOK
  <2> QED  BY <2>1, <2>2 DEF Change, RequestRecord, Walk
<1> QED  BY <1>1, <1>2 DEF Change, TypeOK

\* What the three operations on messages make of one.
LEMMA ChangeOf ==
  ASSUME TypeOK, NEW c \in Contacts,
         CreateContact(c) \/ MarkAsRead(c) \/ DeleteContact(c)
  PROVE  Written /\ \E new \in Contact : Change(c, new)
<1>1. contact[c] \in Contact
  BY DEF TypeOK
<1>2. CASE CreateContact(c)
  <2>1. PICK place \in Places :
          Change(c, [sent |-> TRUE, place |-> place, read |-> FALSE,
                     deleted |-> FALSE])
    BY <1>2 DEF CreateContact
  <2>2. [sent |-> TRUE, place |-> place, read |-> FALSE, deleted |-> FALSE]
          \in Contact
    BY BackOfficeAssumption DEF Contact
  <2> QED  BY <1>2, <2>1, <2>2 DEF CreateContact
<1>3. CASE MarkAsRead(c)
  <2>1. PICK place \in Places :
          Change(c, [contact[c] EXCEPT !.read = TRUE, !.place = place])
    BY <1>3 DEF MarkAsRead
  <2>2. [contact[c] EXCEPT !.read = TRUE, !.place = place] \in Contact
    BY <1>1, BackOfficeAssumption DEF Contact
  <2> QED  BY <1>3, <2>1, <2>2 DEF MarkAsRead
<1>4. CASE DeleteContact(c)
  <2>1. [contact[c] EXCEPT !.deleted = TRUE] \in Contact
    BY <1>1 DEF Contact
  <2> QED  BY <1>4, <2>1 DEF DeleteContact
<1> QED  BY <1>2, <1>3, <1>4

\* So do time and the operations on messages.
LEMMA OtherTypes ==
  ASSUME TypeOK,
         \/ Tick
         \/ \E c \in Contacts : CreateContact(c) \/ MarkAsRead(c) \/ DeleteContact(c)
  PROVE  TypeOK'
<1>1. CASE Tick
  BY <1>1, Constructors, BackOfficeAssumption DEF Tick, TypeOK
<1>2. CASE ~Tick
  BY <1>2, ChangeOf, ChangeTypes
<1> QED  BY <1>1, <1>2

\* Every step preserves the types.
LEMMA TypeStep == TypeOK /\ [Next]_vars => TypeOK'
<1> SUFFICES ASSUME TypeOK, [Next]_vars PROVE TypeOK'
  OBVIOUS
<1>1. CASE UNCHANGED vars
  BY <1>1 DEF TypeOK
<1> QED  BY <1>1, StatsTypes, ContactTypes, OtherTypes, BackOfficeAssumption DEF Next

\* TypeOK is an invariant, for any number of requests, sections and messages.
THEOREM BackOfficeTypes == Spec => []TypeOK
BY InitTypes, TypeStep, PTL DEF Spec

-----------------------------------------------------------------------------
(***************************************************************************)
(* How old a figure is.  The age of a cached figure follows from three     *)
(* times: a request takes at most Lag, an entry lives less than TTL, and   *)
(* the queries of a request ran after it began or came from the cache.     *)
(***************************************************************************)
RequestInTime ==
  \A r \in Requests : Busy(r) =>
    request[r].begun <= clock /\ clock <= request[r].begun + Lag

PartsInUse ==
  \A r \in Requests, s \in Sections :
    request[r].part[s].at # "none" => request[r].op \in {"stats", "dashboard"}

Stored(e) == e.stored <= clock /\ clock < e.stored + TTL

EntriesInTime ==
  /\ \A s \in Sections : entry[s].live =>
       Stored(entry[s]) /\ entry[s].stored <= entry[s].oldest[s] + Lag
  /\ entry[Dashboard].live =>
       /\ Stored(entry[Dashboard])
       /\ \A s \in Sections :
            entry[Dashboard].stored <=
              entry[Dashboard].oldest[s] + TTL - 1 + 2 * Lag

PartsInTime ==
  \A r \in Requests, s \in Sections :
    LET part == request[r].part[s]
        begun == request[r].begun
    IN /\ part.at = "query" => part.todo # {}
       /\ part.at = "query" /\ part.todo # {"count", "group"}
            => begun <= part.oldest
       /\ part.at = "store" => begun <= part.oldest
       /\ part.at = "done" => begun <= part.oldest + TTL - 1 + Lag

InTime == RequestInTime /\ PartsInUse /\ EntriesInTime /\ PartsInTime

\* Of the times in a state: numbers, all of them.
LEMMA Times ==
  ASSUME TypeOK
  PROVE  /\ clock \in Nat /\ TTL \in Nat /\ TTL >= 1 /\ Lag \in Nat
         /\ \A r \in Requests : request[r].begun \in Nat
         /\ \A r \in Requests, s \in Sections :
              request[r].part[s] \in Part /\ request[r].part[s].oldest \in Nat
         /\ \A k \in Keys : entry[k].stored \in Nat
         /\ \A k \in Keys, s \in Sections : entry[k].oldest[s] \in Nat
BY BackOfficeAssumption
   DEF TypeOK, RequestRecord, Part, Entry

\* The steps of the statistics take no time, or time is what Tick adds.
LEMMA StatsKeepTime ==
  ASSUME NEW r, StatsStep(r)
  PROVE  UNCHANGED clock
BY DEF StatsStep, GetStats, Hit, Miss, StoreFigures, RunQuery, SetPart,
       GetAdminDashboard, StoreDashboard, AnswerStats

\* What SetPart leaves alone.
LEMMA SetPartKeeps ==
  ASSUME TypeOK, NEW r \in Requests, NEW s \in Sections, NEW part \in Part,
         SetPart(r, s, part)
  PROVE  /\ \A q \in Requests : request'[q].op = request[q].op
                             /\ request'[q].begun = request[q].begun
         /\ request'[r].part[s] = part
         /\ \A q \in Requests, t \in Sections :
              q # r \/ t # s => request'[q].part[t] = request[q].part[t]
<1>1. \A q \in Requests : q = r \/ request'[q] = request[q]
  BY DEF SetPart, TypeOK
<1>2. request'[r].op = request[r].op /\ request'[r].begun = request[r].begun
  BY SetPartTypes
<1>3. request'[r].part[s] = part
  BY DEF SetPart, TypeOK, RequestRecord
<1>4. \A q \in Requests, t \in Sections :
        q # r \/ t # s => request'[q].part[t] = request[q].part[t]
  BY SetPartTypes
<1> QED  BY <1>1, <1>2, <1>3, <1>4

\* The steps of the statistics keep the times.
LEMMA StatsInTime ==
  ASSUME TypeOK, InTime, NEW r \in Requests, StatsStep(r)
  PROVE  InTime'
<1> USE DEF InTime, RequestInTime, PartsInUse, EntriesInTime, PartsInTime, Stored
<1>0. UNCHANGED clock
  BY StatsKeepTime
<1> USE Times
<1>1. ASSUME NEW s \in Sections, GetStats(r, s) PROVE InTime'
  <2>1. /\ \A q \in Requests \ {r} : request'[q] = request[q]
        /\ request'[r].op = "stats" /\ request'[r].begun = clock
        /\ \A t \in Sections : request'[r].part[t].at \in {"none", "lookUp"}
    BY <1>1 DEF GetStats, TypeOK, Idle, NoPart
  <2>2. UNCHANGED entry
    BY <1>1 DEF GetStats
  <2> QED  BY <1>0, <2>1, <2>2 DEF Busy
<1>2. CASE GetAdminDashboard(r)
  <2>1. /\ \A q \in Requests \ {r} : request'[q] = request[q]
        /\ request'[r].op = "dashboard" /\ request'[r].begun = clock
        /\ \A t \in Sections : request'[r].part[t].at = "lookUp"
    BY <1>2 DEF GetAdminDashboard, TypeOK, Idle, NoPart
  <2>2. UNCHANGED entry
    BY <1>2 DEF GetAdminDashboard
  <2> QED  BY <1>0, <2>1, <2>2 DEF Busy
<1>3. ASSUME NEW s \in Sections, NEW part \in Part, SetPart(r, s, part),
             request[r].part[s].at # "none",
             part.at = "query" => part.todo # {},
             part.at = "query" /\ part.todo # {"count", "group"}
               => request[r].begun <= part.oldest,
             part.at = "store" => request[r].begun <= part.oldest,
             part.at = "done" =>
               request[r].begun <= part.oldest + TTL - 1 + Lag
      PROVE  RequestInTime' /\ PartsInUse' /\ PartsInTime'
  <2>1. /\ \A q \in Requests : request'[q].op = request[q].op
                             /\ request'[q].begun = request[q].begun
        /\ request'[r].part[s] = part
        /\ \A q \in Requests, t \in Sections :
             q # r \/ t # s => request'[q].part[t] = request[q].part[t]
    BY <1>3, SetPartKeeps
  <2>2. RequestInTime'
    BY <1>0, <2>1 DEF Busy
  <2>3. PartsInUse'
    BY <1>3, <2>1
  <2>4. PartsInTime'
    BY <1>3, <2>1
  <2> QED  BY <2>2, <2>3, <2>4
<1>4. ASSUME NEW s \in Sections, Hit(r, s) PROVE InTime'
  <2> DEFINE part == [NoPart EXCEPT !.at = "done", !.oldest = entry[s].oldest[s]]
  <2>1. SetPart(r, s, part) /\ UNCHANGED entry
        /\ request[r].part[s].at = "lookUp" /\ entry[s].live
    BY <1>4 DEF Hit
  <2>2. part \in Part /\ part.at = "done" /\ part.oldest = entry[s].oldest[s]
    <3>1. entry[s] \in Entry
      BY DEF TypeOK, Keys
    <3> QED  BY <3>1, Constructors DEF Part, Entry
  <2>3. request[r].begun <= clock
    BY <2>1 DEF Busy
  <2>4. clock <= entry[s].oldest[s] + Lag + TTL - 1
    BY <2>1 DEF Keys
  <2>5. request[r].begun <= part.oldest + TTL - 1 + Lag
    BY <2>2, <2>3, <2>4 DEF Keys
  <2>6. EntriesInTime'
    BY <1>0, <2>1
  <2> HIDE DEF part
  <2> QED  BY <1>3, <2>1, <2>2, <2>5, <2>6
<1>5. ASSUME NEW s \in Sections, Miss(r, s) PROVE InTime'
  <2> DEFINE part == [NoPart EXCEPT !.at = "query", !.todo = {"count", "group"}]
  <2>1. SetPart(r, s, part) /\ UNCHANGED entry
        /\ request[r].part[s].at = "lookUp"
    BY <1>5 DEF Miss
  <2>2. part \in Part /\ part.at = "query" /\ part.todo = {"count", "group"}
    BY Constructors DEF NoPart, Part
  <2>3. EntriesInTime'
    BY <1>0, <2>1
  <2> HIDE DEF part
  <2> QED  BY <1>3, <2>1, <2>2, <2>3
<1>6. ASSUME NEW s \in Sections, NEW query \in {"count", "group"},
             RunQuery(r, s, query)
      PROVE  InTime'
  <2> DEFINE part == request[r].part[s]
             left == part.todo \ {query}
  <2>1. PICK new \in Part :
          /\ SetPart(r, s, new) /\ UNCHANGED entry
          /\ new.todo = left
          /\ new.at = IF left = {} THEN "store" ELSE "query"
          /\ new.oldest = IF left = {} THEN part.oldest ELSE clock
    BY <1>6, RunQueryPart
  <2>2. part.at = "query" /\ query \in part.todo
    BY <1>6 DEF RunQuery
  <2>3. request[r].begun <= clock
    BY <2>2 DEF Busy
  <2>4. left = {} => part.todo # {"count", "group"}
    <3>1. "count" \in {"count", "group"} \ {query}
            \/ "group" \in {"count", "group"} \ {query}
      OBVIOUS
    <3> QED  BY <3>1
  <2>5. request[r].begun <= new.oldest
    BY <2>1, <2>2, <2>3, <2>4
  <2>6. EntriesInTime'
    BY <1>0, <2>1
  <2> HIDE DEF part, left
  <2> QED  BY <1>3, <2>1, <2>2, <2>5, <2>6 DEF part
<1>7. ASSUME NEW s \in Sections, StoreFigures(r, s) PROVE InTime'
  <2> DEFINE part == request[r].part[s]
             new == [part EXCEPT !.at = "done"]
  <2>1. SetPart(r, s, new) /\ part.at = "store"
    BY <1>7 DEF StoreFigures
  <2>2. new \in Part /\ new.at = "done" /\ new.oldest = part.oldest
    BY DEF Part
  <2>3. /\ request[r].begun <= part.oldest
        /\ clock <= request[r].begun + Lag
    BY <2>1 DEF Busy
  <2>4. RequestInTime' /\ PartsInUse' /\ PartsInTime'
    <3> HIDE DEF new, part
    <3>1. request[r].begun <= new.oldest + TTL - 1 + Lag
      BY <2>2, <2>3 DEF part
    <3> QED  BY <1>3, <2>1, <2>2, <3>1 DEF part
  <2>5. CASE UNCHANGED entry
    BY <1>0, <2>4, <2>5
  <2>6. CASE entry' = [entry EXCEPT ![s] =
                         Fresh([NoEntry.oldest EXCEPT ![s] = part.oldest])]
    <3>1. /\ entry'[s].stored = clock /\ entry'[s].oldest[s] = part.oldest
          /\ \A k \in Keys \ {s} : entry'[k] = entry[k]
      BY <2>6, Constructors DEF Fresh, Keys, TypeOK, Entry
    <3>2. s # Dashboard
      BY BackOfficeAssumption
    <3>3. EntriesInTime'
      BY <1>0, <2>3, <3>1, <3>2 DEF Keys
    <3> QED  BY <2>4, <3>3
  <2> QED  BY <1>7, <2>5, <2>6 DEF StoreFigures
<1>8. CASE StoreDashboard(r) \/ AnswerStats(r)
  <2>1. /\ \A q \in Requests \ {r} : request'[q] = request[q]
        /\ ~Busy(r)' /\ \A s \in Sections : request'[r].part[s].at = "none"
    <3>1. request' = [request EXCEPT ![r] = Done]
      BY <1>8 DEF StoreDashboard, AnswerStats
    <3>2. /\ Done.op = "done"
          /\ \A s \in Sections : Done.part[s].at = "none"
      BY DEF Done, Idle, NoPart
    <3> QED  BY <3>1, <3>2 DEF Busy, TypeOK
  <2>2. RequestInTime' /\ PartsInUse' /\ PartsInTime'
    BY <1>0, <2>1 DEF Busy
  <2>3. CASE UNCHANGED entry
    BY <1>0, <2>2, <2>3
  <2>4. CASE ~UNCHANGED entry
    <3>1. StoreDashboard(r)
      BY <1>8, <2>4 DEF AnswerStats
    <3>2. /\ entry'[Dashboard].stored = clock
          /\ \A s \in Sections :
               entry'[Dashboard].oldest[s] = request[r].part[s].oldest
          /\ \A s \in Sections : entry'[s] = entry[s]
      BY <2>4, <3>1, BackOfficeAssumption DEF StoreDashboard, Fresh, Keys, TypeOK
    <3>3. clock <= request[r].begun + Lag
      BY <3>1 DEF StoreDashboard, Busy
    <3>4. \A s \in Sections :
            request[r].begun <= request[r].part[s].oldest + TTL - 1 + Lag
      BY <3>1 DEF StoreDashboard
    <3>5. \A s \in Sections :
            clock <= entry'[Dashboard].oldest[s] + TTL - 1 + 2 * Lag
      BY <3>2, <3>3, <3>4
    <3>6. EntriesInTime'
      BY <1>0, <3>2, <3>5
    <3> QED  BY <2>2, <3>6
  <2> QED  BY <2>3, <2>4
<1> QED  BY <1>1, <1>2, <1>4, <1>5, <1>6, <1>7, <1>8 DEF StatsStep

\* A change of a message does not touch the parts of a request.
LEMMA ChangeKeeps ==
  ASSUME TypeOK, NEW c \in Contacts,
         CreateContact(c) \/ MarkAsRead(c) \/ DeleteContact(c),
         NEW q \in Requests
  PROVE  /\ request'[q].op = request[q].op /\ request'[q].begun = request[q].begun
         /\ request'[q].part = request[q].part
<1>1. request[q] \in RequestRecord
  BY DEF TypeOK
<1>2. PICK new : Change(c, new)
  BY DEF CreateContact, MarkAsRead, DeleteContact
<1> QED  BY <1>1, <1>2 DEF Change, RequestRecord

\* Neither do those who read the list of messages.
LEMMA ContactKeeps ==
  ASSUME TypeOK, NEW r \in Requests, ContactStep(r), NEW q \in Requests
  PROVE  \/ /\ request'[q].op = "contacts" /\ request'[q].begun = clock
            /\ \A s \in Sections : request'[q].part[s] = NoPart
         \/ /\ request'[q].op = request[q].op
            /\ request'[q].begun = request[q].begun
            /\ request'[q].part = request[q].part
<1>1. request[q] \in RequestRecord
  BY DEF TypeOK
<1>2. CASE FetchPage(r) \/ GetMeta(r) \/ NextPage(r)
  <2>1. CASE FetchPage(r)
    <3>1. PICK todo, seen, tied :
            request' = [request EXCEPT ![r].walk.todo = todo,
                          ![r].walk.seen = seen, ![r].walk.tied = tied]
      BY <2>1 DEF FetchPage
    <3> QED  BY <1>1, <3>1 DEF TypeOK, RequestRecord
  <2>3. CASE GetMeta(r)
    BY <1>1, <2>3 DEF GetMeta, TypeOK, RequestRecord
  <2>2. CASE NextPage(r)
    BY <1>1, <2>2 DEF NextPage, TypeOK, RequestRecord
  <2> QED  BY <1>2, <2>1, <2>2, <2>3
<1>3. ASSUME NEW limit, NEW unread, NEW sort,
             GetAllContacts(r, limit, unread, sort)
      PROVE  \/ request'[q] = request[q]
             \/ /\ request'[q].op = "contacts" /\ request'[q].begun = clock
                /\ \A s \in Sections : request'[q].part[s] = NoPart
  BY <1>1, <1>3 DEF GetAllContacts, TypeOK, RequestRecord, Idle
<1> QED  BY <1>2, <1>3 DEF ContactStep

\* Time and the rest of the system keep the times, too.
LEMMA OtherInTime ==
  ASSUME TypeOK, InTime,
         \/ Tick
         \/ \E c \in Contacts : CreateContact(c) \/ MarkAsRead(c) \/ DeleteContact(c)
         \/ \E r \in Requests : ContactStep(r)
  PROVE  InTime'
<1> USE Times
<1> USE DEF InTime, RequestInTime, PartsInUse, EntriesInTime, PartsInTime, Stored
<1>1. CASE Tick
  <2>1. UNCHANGED request /\ clock' = clock + 1
    BY <1>1 DEF Tick
  <2>2. RequestInTime' /\ PartsInUse' /\ PartsInTime'
    BY <1>1, <2>1 DEF Tick, Busy
  <2>3. \A k \in Keys : entry'[k].live =>
          entry'[k] = entry[k] /\ clock + 1 < entry[k].stored + TTL
    BY <1>1 DEF Tick, Expires, NoEntry
  <2>4. EntriesInTime'
    BY <2>1, <2>3 DEF Keys
  <2> QED  BY <2>2, <2>4
<1>2. CASE ~Tick
  <2>1. UNCHANGED <<clock, entry>>
    BY <1>2
       DEF CreateContact, MarkAsRead, DeleteContact, Change,
           ContactStep, GetAllContacts, FetchPage, GetMeta, NextPage
  <2> DEFINE Begins(q) ==
               /\ request'[q].op = "contacts" /\ request'[q].begun = clock
               /\ \A s \in Sections : request'[q].part[s].at = "none"
             Keeps(q) ==
               /\ request'[q].op = request[q].op
               /\ request'[q].begun = request[q].begun
               /\ \A s \in Sections :
                    /\ request'[q].part[s].at = request[q].part[s].at
                    /\ request'[q].part[s].todo = request[q].part[s].todo
                    /\ request'[q].part[s].oldest =
                         request[q].part[s].oldest
  <2>2. ASSUME NEW q \in Requests PROVE Begins(q) \/ Keeps(q)
    <3>2. CASE \E c \in Contacts :
                 CreateContact(c) \/ MarkAsRead(c) \/ DeleteContact(c)
      BY <3>2, ChangeKeeps
    <3>3. CASE \E r \in Requests : ContactStep(r)
      BY <3>3, ContactKeeps DEF NoPart
    <3> QED  BY <1>2, <3>2, <3>3
  <2>3. RequestInTime' /\ PartsInUse' /\ PartsInTime'
    BY <2>1, <2>2 DEF Busy
  <2> QED  BY <2>1, <2>3
<1> QED  BY <1>1, <1>2

\* StatsAreRecent is an invariant: for every CACHE_TTL, a figure in the cache is
\* no older than CACHE_TTL and the request that stored it took, and one of a
\* cached dashboard no older than twice that.
THEOREM StatsTheorem == Spec => []StatsAreRecent
<1>1. Init => InTime
  BY BackOfficeAssumption
     DEF Init, InTime, RequestInTime, PartsInUse, EntriesInTime, PartsInTime,
         Busy, Idle, NoPart, NoEntry, Keys
<1>2. TypeOK /\ InTime /\ [Next]_vars => InTime'
  <2> SUFFICES ASSUME TypeOK, InTime, [Next]_vars PROVE InTime'
    OBVIOUS
  <2>1. CASE UNCHANGED vars
    BY <2>1 DEF InTime, RequestInTime, PartsInUse, EntriesInTime, PartsInTime,
                Busy, Stored
  <2> QED  BY <2>1, StatsInTime, OtherInTime, BackOfficeAssumption DEF Next
<1>3. TypeOK /\ InTime => StatsAreRecent
  BY Times DEF InTime, EntriesInTime, Stored, StatsAreRecent, Age, Keys
<1> QED  BY InitTypes, TypeStep, <1>1, <1>2, <1>3, PTL DEF Spec

(***************************************************************************)
(* What a client has seen.  The messages it has yet to see are behind the  *)
(* pages it has read, and the total it was told tells that there are more. *)
(* The rank of a message is how many are before it for certain.            *)
(***************************************************************************)
Rank(c, unread, sort) ==
  Cardinality({e \in Listed(unread) :
                 contact[e].place[sort] < contact[c].place[sort]})

\* The walk of a request that nothing has happened to that could hide messages.
Undisturbed(walk) == ~walk.moved /\ ~walk.tied /\ walk.limit <= MaxLimit

Walking(r) == request[r].op = "contacts" /\ ~request[r].listed
              /\ Undisturbed(request[r].walk)

PagesRead(walk) == IF "data" \in walk.todo THEN walk.page - 1 ELSE walk.page

Unseen(walk) == walk.due \ walk.seen

DueIsListed ==
  \A r \in Requests : Walking(r) =>
    request[r].walk.due \subseteq Listed(request[r].walk.unread)

UnseenIsBehind ==
  \A r \in Requests : Walking(r) =>
    LET walk == request[r].walk
    IN \A c \in Unseen(walk) :
         Rank(c, walk.unread, walk.sort) >=
           PagesRead(walk) * PageSize(walk.limit)

TotalIsTold ==
  \A r \in Requests : Walking(r) =>
    LET walk == request[r].walk
    IN ~walk.grew =>
         /\ walk.todo = {"data"} => walk.total = Cardinality(Listed(walk.unread))
         /\ walk.todo = {} /\ Unseen(walk) # {}
              => walk.total > walk.page * PageSize(walk.limit)

WalkersKnown ==
  \A r \in Requests :
    /\ request[r].walk.todo # {} =>
         request[r].op = "contacts" /\ ~request[r].listed
    /\ request[r].op = "contacts" => request[r].walk.page >= 1

Pages == WalkersKnown /\ DueIsListed /\ UnseenIsBehind /\ TotalIsTold

ListInv == Pages /\ EverythingIsListed

\* Of the limits: pages are not empty, and both queries mean the same ones
\* where the client does not ask for too much.
LEMMA PageSizes ==
  ASSUME NEW limit \in Limits
  PROVE  /\ PageSize(limit) \in Nat /\ PageSize(limit) >= 1
         /\ MetaLimit(limit) \in Nat /\ MetaLimit(limit) >= 1
         /\ limit <= MaxLimit => PageSize(limit) = MetaLimit(limit)
BY BackOfficeAssumption DEF PageSize, MetaLimit

\* Behind the last page there is nothing.
LEMMA LastPage ==
  ASSUME NEW total \in Nat, NEW page \in Nat, NEW size \in Nat, size >= 1,
         ~(page < (total + size - 1) \div size)
  PROVE  total <= page * size
<1> DEFINE n == (total + size - 1) \div size
<1>1. n \in Int /\ total + size - 1 < (n + 1) * size
  OBVIOUS
<1>2. (n + 1) * size = n * size + size
  BY <1>1
<1>3. n * size <= page * size
  <2> HIDE DEF n
  <2>1. n <= page
    BY <1>1 DEF n
  <2> QED  BY <1>1, <2>1
<1> QED  BY <1>1, <1>2, <1>3

\* A page more is a page size more.
LEMMA OneMorePage ==
  ASSUME NEW page \in Nat, NEW size \in Nat
  PROVE  (page - 1) * size + size = page * size /\ page * size \in Nat
OBVIOUS

\* Ranks are numbers, of messages on the list or not.
LEMMA RankType ==
  \A c, unread, sort : Rank(c, unread, sort) \in Nat /\ Rank(c, unread, sort)' \in Nat
<1> SUFFICES ASSUME NEW c, NEW unread, NEW sort
             PROVE  Rank(c, unread, sort) \in Nat /\ Rank(c, unread, sort)' \in Nat
  OBVIOUS
<1> DEFINE before == {e \in Listed(unread) :
                        contact[e].place[sort] < contact[c].place[sort]}
<1>1. before \in SUBSET Contacts /\ before' \in SUBSET Contacts
  BY DEF Listed
<1> QED  BY <1>1, Numbers DEF Rank

\* A message on the list is behind fewer than all of them.
LEMMA RankBound ==
  ASSUME TypeOK, NEW unread, NEW sort \in Sorts, NEW c \in Listed(unread)
  PROVE  /\ Rank(c, unread, sort) \in Nat /\ Cardinality(Listed(unread)) \in Nat
         /\ Rank(c, unread, sort) < Cardinality(Listed(unread))
<1> DEFINE before == {e \in Listed(unread) :
                        contact[e].place[sort] < contact[c].place[sort]}
<1>1. Listed(unread) \in SUBSET Contacts /\ c \in Contacts
  BY DEF Listed
<1>2. IsFiniteSet(Listed(unread)) /\ Cardinality(Listed(unread)) \in Nat
  BY <1>1, Numbers
<1>3. before \subseteq Listed(unread) \ {c}
  BY <1>1 DEF TypeOK, Contact
<1>4. /\ IsFiniteSet(Listed(unread) \ {c})
      /\ Cardinality(Listed(unread) \ {c}) = Cardinality(Listed(unread)) - 1
  BY <1>2, FS_RemoveElement
<1>5. /\ Cardinality(before) <= Cardinality(Listed(unread) \ {c})
      /\ Cardinality(before) \in Nat
  BY <1>3, <1>4, FS_Subset, FS_CardinalityType
<1> QED  BY <1>2, <1>4, <1>5 DEF Rank

\* Who was listed only falls back as long as nobody leaves or moves.
LEMMA RankGrows ==
  ASSUME NEW unread, NEW sort, NEW c \in Listed(unread),
         Listed(unread) \subseteq Listed(unread)',
         \A e \in Listed(unread) : contact'[e].place[sort] = contact[e].place[sort]
  PROVE  Rank(c, unread, sort) <= Rank(c, unread, sort)'
<1> DEFINE before == {e \in Listed(unread) :
                        contact[e].place[sort] < contact[c].place[sort]}
<1>1. before \subseteq before'
  OBVIOUS
<1>2. before' \in SUBSET Contacts
  BY DEF Listed
<1>3. IsFiniteSet(before')
  BY <1>2, Numbers
<1>4. Cardinality(before) <= Cardinality(before')
  BY <1>1, <1>3, FS_Subset
<1> QED  BY <1>4 DEF Rank

(***************************************************************************)
(* Of the first n messages, in whatever order those that tie come: a       *)
(* message among them has a rank below n, and one behind them, if they do  *)
(* not end between messages that tie, a rank of at least n.                *)
(***************************************************************************)
LEMMA FirstHaveLowRanks ==
  ASSUME TypeOK, NEW walk \in Walk, NEW n \in Nat, NEW part \in FirstOnes(walk, n),
         NEW c \in Listed(walk.unread)
  PROVE  /\ c \in part => Rank(c, walk.unread, walk.sort) < n
         /\ c \notin part /\ ~SplitsTie(walk, part)
              => Rank(c, walk.unread, walk.sort) >= n
<1> DEFINE list == Listed(walk.unread)
           before == {e \in list : contact[e].place[walk.sort]
                                     < contact[c].place[walk.sort]}
<1>1. list \in SUBSET Contacts /\ walk.sort \in Sorts
  BY DEF Listed, Walk
<1>2. \A e \in list : contact[e].place[walk.sort] \in Nat
  BY <1>1 DEF TypeOK, Contact
<1>3. /\ part \in SUBSET list
      /\ Cardinality(part) = IF n < Cardinality(list) THEN n ELSE Cardinality(list)
      /\ \A e \in part, d \in list \ part :
           contact[e].place[walk.sort] <= contact[d].place[walk.sort]
  BY DEF FirstOnes
<1>4. /\ IsFiniteSet(part) /\ Cardinality(part) \in Nat
      /\ IsFiniteSet(before) /\ Cardinality(before) \in Nat
      /\ Cardinality(list) \in Nat
  BY <1>1, <1>3, Numbers
<1>5. CASE c \in part
  <2>1. before \subseteq part \ {c}
    BY <1>2, <1>3, <1>5
  <2>2. /\ IsFiniteSet(part \ {c})
        /\ Cardinality(part \ {c}) = Cardinality(part) - 1
    BY <1>4, <1>5, FS_RemoveElement
  <2>3. Cardinality(before) <= Cardinality(part) - 1
    BY <2>1, <2>2, FS_Subset
  <2>4. Cardinality(before) < n
    <3> HIDE DEF before, list
    <3> QED  BY <1>3, <1>4, <2>3
  <2> QED  BY <1>5, <2>4 DEF Rank
<1>6. CASE c \notin part /\ ~SplitsTie(walk, part)
  <2>1. part \subseteq before
    BY <1>2, <1>3, <1>6 DEF SplitsTie
  <2>2. Cardinality(part) <= Cardinality(before)
    BY <1>4, <2>1, FS_Subset
  <2>3. Cardinality(before) < Cardinality(list)
    BY <1>1, RankBound DEF Rank
  <2>4. Cardinality(before) >= n
    <3> HIDE DEF before, list
    <3> QED  BY <1>3, <1>4, <2>2, <2>3
  <2> QED  BY <1>6, <2>4 DEF Rank
<1> QED  BY <1>5, <1>6

\* What a walk has to say for itself, in terms of its own parts.
WalkInv(req) ==
  LET walk == req.walk
      size == PageSize(walk.limit)
  IN /\ walk.todo # {} => req.op = "contacts" /\ ~req.listed
     /\ req.op = "contacts" => walk.page >= 1
     /\ req.op = "contacts" /\ ~req.listed /\ Undisturbed(walk)
          => /\ walk.due \subseteq Listed(walk.unread)
             /\ \A c \in Unseen(walk) : Rank(c, walk.unread, walk.sort) >= PagesRead(walk) * size
             /\ ~walk.grew =>
                  /\ walk.todo = {"data"}
                       => walk.total = Cardinality(Listed(walk.unread))
                  /\ walk.todo = {} /\ Unseen(walk) # {}
                       => walk.total > walk.page * size
     /\ req.listed /\ Undisturbed(walk) /\ ~walk.grew
          => walk.due \subseteq walk.seen

\* The invariant, request by request.
LEMMA ListInvIsWalkInv ==
  /\ ListInv <=> \A r \in Requests : WalkInv(request[r])
  /\ ListInv' <=> \A r \in Requests : WalkInv(request[r])'
BY DEF ListInv, Pages, WalkersKnown, DueIsListed, UnseenIsBehind, TotalIsTold,
       Walking, Undisturbed, EverythingIsListed, WalkInv

\* A request that does not read the list, and one whose walk is left alone.
LEMMA NoWalkInv ==
  ASSUME NEW q
  PROVE  /\ request[q].op # "contacts" /\ request[q].walk = NoWalk
            /\ ~request[q].listed => WalkInv(request[q])
         /\ request'[q].op # "contacts" /\ request'[q].walk = NoWalk
            /\ ~request'[q].listed => WalkInv(request[q])'
<1>1. NoWalk.todo = {}
  BY DEF NoWalk
<1> QED  BY <1>1 DEF WalkInv

\* A request whose walk and operation stay keeps the invariant of its walk.
LEMMA SameWalk ==
  ASSUME NEW q \in Requests, WalkInv(request[q]), UNCHANGED contact,
         request'[q].op = request[q].op, request'[q].walk = request[q].walk,
         request'[q].listed = request[q].listed
  PROVE  WalkInv(request[q])'
<1>1. \A u : Listed(u)' = Listed(u) /\ \A c, o : Rank(c, u, o)' = Rank(c, u, o)
  BY DEF Listed, Rank
<1> QED  BY <1>1 DEF WalkInv, Unseen, PagesRead, Undisturbed

\* The first page: all that is due is listed, and nothing has been read.
LEMMA FirstPage ==
  ASSUME TypeOK, NEW r \in Requests, NEW limit \in Limits, NEW unread \in BOOLEAN,
         NEW sort \in Sorts, GetAllContacts(r, limit, unread, sort)
  PROVE  WalkInv(request[r])'
<1> DEFINE walk == request'[r].walk
<1>1. /\ request'[r].op = "contacts" /\ ~request'[r].listed
      /\ walk.limit = limit /\ walk.unread = unread /\ walk.sort = sort
      /\ walk.page = 1
      /\ walk.todo = {"data", "count"} /\ walk.due = Listed(unread)
      /\ UNCHANGED contact
  BY DEF GetAllContacts, TypeOK, Idle, NoWalk, BothQueries
<1>2. \A u : Listed(u)' = Listed(u) /\ \A c, o : Rank(c, u, o)' = Rank(c, u, o)
  BY <1>1 DEF Listed, Rank
<1>3. PagesRead(walk) = 0 /\ PagesRead(walk) * PageSize(limit) = 0
  BY <1>1, PageSizes DEF PagesRead
<1>4. \A c \in Listed(unread) : Rank(c, unread, sort) >= 0
  BY RankType
<1> HIDE DEF walk
<1>5. /\ walk.todo # {} /\ walk.todo # {"data"}
  BY <1>1
<1> QED  BY <1>1, <1>2, <1>3, <1>4, <1>5 DEF WalkInv, Unseen, PagesRead, Undisturbed, walk

\* A page: what is due and not on it is behind it.
LEMMA APage ==
  ASSUME TypeOK, NEW r \in Requests, WalkInv(request[r]), FetchPage(r)
  PROVE  WalkInv(request[r])'
<1> DEFINE walk == request[r].walk
           next == request'[r].walk
           size == PageSize(walk.limit)
           first == (walk.page - 1) * size
<1>0. walk \in Walk /\ request[r] \in RequestRecord
  BY DEF TypeOK, RequestRecord
<1>1. PICK skipped \in FirstOnes(walk, first), read \in FirstOnes(walk, first + size) :
        request' = [request EXCEPT
          ![r].walk.todo = @ \ {"data"},
          ![r].walk.seen = @ \cup (read \ skipped),
          ![r].walk.tied = @ \/ SplitsTie(walk, read)]
  BY DEF FetchPage, Skip
<1>2. "data" \in walk.todo /\ UNCHANGED contact
  BY DEF FetchPage
<1>3. /\ request'[r].op = request[r].op /\ request'[r].listed = request[r].listed
      /\ next.limit = walk.limit /\ next.unread = walk.unread
      /\ next.sort = walk.sort
      /\ next.page = walk.page /\ next.total = walk.total /\ next.due = walk.due
      /\ next.moved = walk.moved /\ next.grew = walk.grew
      /\ next.tied = (walk.tied \/ SplitsTie(walk, read))
      /\ next.todo = walk.todo \ {"data"}
      /\ next.seen = walk.seen \cup (read \ skipped)
  BY <1>0, <1>1 DEF TypeOK, RequestRecord, Walk
<1>4. \A u : Listed(u)' = Listed(u) /\ \A c, o : Rank(c, u, o)' = Rank(c, u, o)
  BY <1>2 DEF Listed, Rank
<1>5. request[r].op = "contacts" /\ ~request[r].listed /\ walk.page >= 1
  BY <1>2 DEF WalkInv
<1>6. /\ walk.page \in Nat /\ size \in Nat /\ walk.page * size \in Nat
      /\ first + size = walk.page * size /\ first \in Nat
  <2>1. walk.page \in Nat /\ size \in Nat /\ walk.page - 1 \in Nat
    BY <1>0, <1>5, PageSizes DEF Walk
  <2> HIDE DEF size, walk
  <2> QED  BY <2>1, OneMorePage
<1>7. ASSUME Undisturbed(next)
      PROVE  /\ walk.due \subseteq Listed(walk.unread)
             /\ \A c \in Unseen(next) :
                  Rank(c, walk.unread, walk.sort) >= walk.page * size
             /\ ~walk.grew /\ next.todo = {} /\ Unseen(next) # {}
                  => walk.total > walk.page * size
  <2>0. Undisturbed(walk) /\ ~SplitsTie(walk, read)
    BY <1>3, <1>7 DEF Undisturbed
  <2>1. /\ walk.due \subseteq Listed(walk.unread)
        /\ \A c \in Unseen(walk) : Rank(c, walk.unread, walk.sort) >= first
        /\ ~walk.grew /\ walk.todo = {"data"}
             => walk.total = Cardinality(Listed(walk.unread))
    BY <1>2, <1>5, <2>0 DEF WalkInv, PagesRead
  <2>2. ASSUME NEW c \in Unseen(next)
        PROVE  /\ c \in Listed(walk.unread)
               /\ Rank(c, walk.unread, walk.sort) \in Nat
               /\ Rank(c, walk.unread, walk.sort) < Cardinality(Listed(walk.unread))
               /\ Rank(c, walk.unread, walk.sort) >= walk.page * size
    <3>1. c \in Unseen(walk) /\ (c \in skipped \/ c \notin read)
      BY <1>3, <2>2 DEF Unseen
    <3>2. c \in Listed(walk.unread) /\ walk.sort \in Sorts
      BY <1>0, <2>1, <3>1 DEF Unseen, Walk
    <3>3. /\ Rank(c, walk.unread, walk.sort) \in Nat
          /\ Rank(c, walk.unread, walk.sort) < Cardinality(Listed(walk.unread))
      BY <3>2, RankBound
    <3>4. Rank(c, walk.unread, walk.sort) >= first
      BY <2>1, <3>1
    <3>5. ~(Rank(c, walk.unread, walk.sort) < first)
      <4> HIDE DEF first, walk
      <4> QED  BY <1>6, <3>3, <3>4
    <3>6. c \notin skipped
      BY <1>0, <1>1, <1>6, <3>2, <3>5, FirstHaveLowRanks
    <3>7. c \notin read
      BY <3>1, <3>6
    <3>8. first + size \in Nat
      BY <1>6
    <3>9. Rank(c, walk.unread, walk.sort) >= first + size
      <4> HIDE DEF first, walk, size
      <4> QED  BY <1>0, <1>1, <2>0, <3>2, <3>7, <3>8, FirstHaveLowRanks
    <3> HIDE DEF first, walk, size
    <3> QED  BY <1>6, <3>2, <3>3, <3>9
  <2>3. ASSUME ~walk.grew, next.todo = {}, Unseen(next) # {}
        PROVE  walk.total > walk.page * size
    <3>1. walk.todo = {"data"}
      BY <1>2, <1>3, <2>3
    <3>2. PICK c \in Unseen(next) : TRUE
      BY <2>3
    <3>3. Cardinality(Listed(walk.unread)) \in Nat
      BY <1>0, <2>2, <3>2, RankBound DEF Walk
    <3> HIDE DEF size, walk, next
    <3> QED  BY <1>6, <2>1, <2>2, <2>3, <3>1, <3>2, <3>3
  <2> QED  BY <2>1, <2>2, <2>3
<1>8. PagesRead(next) = walk.page /\ next.todo # {"data"}
  BY <1>3 DEF PagesRead
<1> HIDE DEF walk, next, size, first
<1> QED  BY <1>3, <1>4, <1>5, <1>7, <1>8 DEF WalkInv, Undisturbed, walk, next, size

\* The total: what is due and behind the pages read makes it larger.
LEMMA ATotal ==
  ASSUME TypeOK, NEW r \in Requests, WalkInv(request[r]), GetMeta(r)
  PROVE  WalkInv(request[r])'
<1> DEFINE walk == request[r].walk
           next == request'[r].walk
           size == PageSize(walk.limit)
<1>0. walk \in Walk /\ request[r] \in RequestRecord
  BY DEF TypeOK, RequestRecord
<1>1. /\ "count" \in walk.todo
      /\ request'[r].op = request[r].op /\ request'[r].listed = request[r].listed
      /\ next.limit = walk.limit /\ next.unread = walk.unread
      /\ next.sort = walk.sort /\ next.tied = walk.tied
      /\ next.page = walk.page /\ next.seen = walk.seen /\ next.due = walk.due
      /\ next.moved = walk.moved /\ next.grew = walk.grew
      /\ next.todo = walk.todo \ {"count"}
      /\ next.total = Cardinality(Listed(walk.unread))
      /\ UNCHANGED contact
  BY <1>0 DEF GetMeta, TypeOK, RequestRecord, Walk
<1>2. \A u : Listed(u)' = Listed(u) /\ \A c, o : Rank(c, u, o)' = Rank(c, u, o)
  BY <1>1 DEF Listed, Rank
<1>3. request[r].op = "contacts" /\ ~request[r].listed /\ walk.page >= 1
  BY <1>1 DEF WalkInv
<1>4. PagesRead(next) = PagesRead(walk) /\ Unseen(next) = Unseen(walk)
  BY <1>1 DEF PagesRead, Unseen
<1>5. ASSUME Undisturbed(walk), next.todo = {}, Unseen(walk) # {}
      PROVE  next.total > walk.page * size
  <2>1. PICK c \in Unseen(walk) : TRUE
    BY <1>5
  <2>2. /\ c \in Listed(walk.unread)
        /\ Rank(c, walk.unread, walk.sort) >= PagesRead(walk) * size
    BY <1>3, <1>5, <2>1 DEF WalkInv, Unseen
  <2>3. PagesRead(walk) = walk.page
    BY <1>1, <1>5 DEF PagesRead
  <2>4. /\ Rank(c, walk.unread, walk.sort) < Cardinality(Listed(walk.unread))
        /\ Rank(c, walk.unread, walk.sort) \in Nat /\ Cardinality(Listed(walk.unread)) \in Nat
    BY <1>0, <2>2, RankBound DEF Walk
  <2>5. walk.page * size \in Nat
    BY <1>0, PageSizes, OneMorePage DEF Walk
  <2> HIDE DEF size
  <2> QED  BY <1>1, <2>2, <2>3, <2>4, <2>5
<1> HIDE DEF walk, next, size
<1> QED  BY <1>1, <1>2, <1>3, <1>4, <1>5 DEF WalkInv, Undisturbed, walk, next, size

\* The next page, or the end of the list.
LEMMA TheNextPage ==
  ASSUME TypeOK, NEW r \in Requests, WalkInv(request[r]), NextPage(r)
  PROVE  WalkInv(request[r])'
<1> DEFINE walk == request[r].walk
           next == request'[r].walk
           size == PageSize(walk.limit)
<1>0. walk \in Walk /\ request[r] \in RequestRecord
  BY DEF TypeOK, RequestRecord
<1>1. /\ request[r].op = "contacts" /\ ~request[r].listed /\ walk.todo = {}
      /\ UNCHANGED contact /\ walk.page >= 1
  BY DEF NextPage, WalkInv
<1>2. \A u : Listed(u)' = Listed(u) /\ \A c, o : Rank(c, u, o)' = Rank(c, u, o)
  BY <1>1 DEF Listed, Rank
<1>3. CASE walk.page < TotalPage(walk.total, walk.limit)
  <2>1. request' = [request EXCEPT ![r].walk.page = @ + 1,
                                   ![r].walk.todo = BothQueries]
    BY <1>3 DEF NextPage
  <2>2. /\ request'[r].op = request[r].op /\ request'[r].listed = request[r].listed
        /\ next.limit = walk.limit /\ next.unread = walk.unread
        /\ next.sort = walk.sort /\ next.tied = walk.tied
        /\ next.page = walk.page + 1 /\ next.todo = {"data", "count"}
        /\ next.seen = walk.seen /\ next.due = walk.due
        /\ next.moved = walk.moved /\ next.grew = walk.grew
    BY <1>0, <2>1 DEF TypeOK, RequestRecord, Walk, BothQueries
  <2>3. PagesRead(next) = PagesRead(walk) /\ Unseen(next) = Unseen(walk)
    BY <1>0, <1>1, <2>2 DEF PagesRead, Unseen, Walk
  <2>4. next.todo # {} /\ next.todo # {"data"} /\ next.page >= 1
    BY <1>0, <2>2 DEF Walk
  <2> HIDE DEF walk, next, size
  <2> QED  BY <1>1, <1>2, <2>2, <2>3, <2>4 DEF WalkInv, Undisturbed, walk, next, size
<1>4. CASE ~(walk.page < TotalPage(walk.total, walk.limit))
  <2>1. request' = [request EXCEPT ![r].listed = TRUE]
    BY <1>4 DEF NextPage
  <2>2. /\ request'[r].op = request[r].op /\ request'[r].listed /\ next = walk
    BY <1>0, <2>1 DEF TypeOK, RequestRecord
  <2>3. ASSUME Undisturbed(walk), ~walk.grew
        PROVE  walk.due \subseteq walk.seen
    <3>1. Unseen(walk) # {} => walk.total > walk.page * size
      BY <1>1, <2>3 DEF WalkInv
    <3>2. /\ walk.limit \in Limits /\ walk.total \in Nat /\ walk.page \in Nat
          /\ size \in Nat /\ size >= 1 /\ size = MetaLimit(walk.limit)
      BY <1>0, <2>3, PageSizes DEF Walk, Undisturbed
    <3>3. ~(walk.page < (walk.total + size - 1) \div size)
      BY <1>4, <3>2 DEF TotalPage
    <3>4. walk.total <= walk.page * size
      <4> HIDE DEF size, walk
      <4> QED  BY <3>2, <3>3, LastPage
    <3>5. walk.page * size \in Nat
      BY <3>2, OneMorePage
    <3>6. ~(walk.total > walk.page * size)
      <4> HIDE DEF size, walk
      <4> QED  BY <3>2, <3>4, <3>5
    <3> QED  BY <3>1, <3>6 DEF Unseen
  <2> HIDE DEF walk, next, size
  <2> QED  BY <1>1, <2>2, <2>3 DEF WalkInv, Undisturbed, walk, next, size
<1> QED  BY <1>3, <1>4

\* A message comes or changes: as long as none leaves, those that are due only
\* fall back.
LEMMA ChangeWalk ==
  ASSUME TypeOK, NEW c \in Contacts, NEW new \in Contact, Change(c, new),
         NEW q \in Requests, WalkInv(request[q])
  PROVE  WalkInv(request[q])'
<1> DEFINE walk == request[q].walk
           next == request'[q].walk
<1>0. walk \in Walk /\ request[q] \in RequestRecord
  BY DEF TypeOK, RequestRecord
<1> PICK u, o : u = walk.unread /\ o = walk.sort
  OBVIOUS
<1> DEFINE was == Matches(contact[c], u)
           is == Matches(new, u)
           stays == new.place[o] = contact[c].place[o]
<1>1. /\ contact'[c] = new
      /\ \A e \in Contacts : e # c => contact'[e] = contact[e]
  BY DEF Change, TypeOK
<1>2. CASE request[q].op # "contacts" \/ request[q].listed
  <2>1. request'[q] = request[q]
    BY <1>2 DEF Change
  <2>2. walk.todo = {}
    BY <1>2 DEF WalkInv
  <2> QED  BY <1>2, <2>1, <2>2 DEF WalkInv
<1>3. CASE request[q].op = "contacts" /\ ~request[q].listed
  <2>1. /\ request'[q].op = request[q].op /\ request'[q].listed = request[q].listed
        /\ next.limit = walk.limit /\ next.unread = u /\ walk.unread = u
        /\ next.sort = o /\ walk.sort = o /\ next.tied = walk.tied
        /\ next.page = walk.page /\ next.todo = walk.todo /\ next.total = walk.total
        /\ next.seen = walk.seen /\ next.due = walk.due
        /\ ~next.moved => ~walk.moved /\ (was => is /\ stays)
        /\ ~next.grew => ~walk.grew /\ ~(~was /\ is /\ Cardinality(walk.todo) = 1)
    BY <1>0, <1>3 DEF Change, RequestRecord, Walk
  <2>2. PagesRead(next) = PagesRead(walk) /\ Unseen(next) = Unseen(walk)
    BY <2>1 DEF PagesRead, Unseen
  <2>3. ASSUME ~next.moved
        PROVE  /\ Listed(u) \subseteq Listed(u)'
               /\ \A e \in Listed(u) : contact'[e].place[o] = contact[e].place[o]
    BY <1>1, <2>1, <2>3 DEF Listed, Matches
  <2>4. ASSUME Undisturbed(next)
        PROVE  /\ walk.due \subseteq Listed(u)'
               /\ \A e \in Unseen(walk) :
                    Rank(e, u, o)' >= PagesRead(walk) * PageSize(walk.limit)
    <3>1. /\ walk.due \subseteq Listed(u)
          /\ \A e \in Unseen(walk) :
               Rank(e, u, o) >= PagesRead(walk) * PageSize(walk.limit)
      BY <1>3, <2>1, <2>4 DEF WalkInv, Undisturbed
    <3>2. PagesRead(walk) * PageSize(walk.limit) \in Int
      BY <1>0, PageSizes DEF PagesRead, Walk
    <3>3. ASSUME NEW e \in Unseen(walk)
          PROVE  Rank(e, u, o)' >= PagesRead(walk) * PageSize(walk.limit)
      <4>1. e \in Listed(u)
        BY <3>1 DEF Unseen
      <4>2. Rank(e, u, o) <= Rank(e, u, o)'
        BY <2>3, <2>4, <4>1, RankGrows DEF Undisturbed
      <4>3. Rank(e, u, o) \in Nat /\ Rank(e, u, o)' \in Nat
        BY RankType
      <4> HIDE DEF walk
      <4> QED  BY <3>1, <3>2, <4>2, <4>3
    <3> QED  BY <2>3, <2>4, <3>1, <3>3 DEF Undisturbed
  <2>5. ASSUME ~next.moved, ~next.grew, walk.todo = {"data"}
        PROVE  Listed(u)' = Listed(u)
    <3>1. Cardinality(walk.todo) = 1
      BY <2>5, FS_Singleton
    <3>2. was <=> is
      BY <2>1, <2>5, <3>1
    <3> QED  BY <1>1, <3>2 DEF Listed
  <2> HIDE DEF walk, next, was, is, stays
  <2> QED  BY <1>3, <2>1, <2>2, <2>4, <2>5 DEF WalkInv, Undisturbed, walk, next
<1> QED  BY <1>2, <1>3

\* Statistics do not touch the walk of a request, or it has none.
LEMMA StatsWalk ==
  ASSUME TypeOK, NEW r \in Requests, StatsStep(r), NEW q \in Requests
  PROVE  \/ /\ request'[q].op = request[q].op /\ request'[q].walk = request[q].walk
            /\ request'[q].listed = request[q].listed
         \/ /\ request'[q].op # "contacts" /\ request'[q].walk = NoWalk
            /\ ~request'[q].listed
<1>1. ASSUME NEW s, GetStats(r, s)
      PROVE  \/ request'[q] = request[q]
             \/ /\ request'[q].op # "contacts" /\ request'[q].walk = NoWalk
                /\ ~request'[q].listed
  BY <1>1 DEF GetStats, TypeOK, Idle
<1>2. CASE GetAdminDashboard(r) \/ StoreDashboard(r) \/ AnswerStats(r)
  BY <1>2 DEF GetAdminDashboard, StoreDashboard, AnswerStats, TypeOK, Idle, Done
<1>3. ASSUME NEW s \in Sections, NEW part, SetPart(r, s, part)
      PROVE  /\ request'[q].op = request[q].op /\ request'[q].walk = request[q].walk
             /\ request'[q].listed = request[q].listed
  BY <1>3 DEF SetPart, TypeOK, RequestRecord
<1>4. ASSUME NEW s \in Sections, Hit(r, s) \/ Miss(r, s) \/ StoreFigures(r, s)
      PROVE  \E part : SetPart(r, s, part)
  BY <1>4, Zenon DEF Hit, Miss, StoreFigures
<1>5. ASSUME NEW s \in Sections, NEW query \in {"count", "group"},
             RunQuery(r, s, query)
      PROVE  \E part : SetPart(r, s, part)
  BY <1>5, RunQueryPart
<1> QED  BY <1>1, <1>2, <1>3, <1>4, <1>5 DEF StatsStep

\* All steps together.
LEMMA ListStep == TypeOK /\ ListInv /\ [Next]_vars => ListInv'
<1> SUFFICES ASSUME TypeOK, ListInv, [Next]_vars, NEW q \in Requests
             PROVE  WalkInv(request[q])'
  BY ListInvIsWalkInv
<1>1. WalkInv(request[q]) /\ TypeOK'
  BY ListInvIsWalkInv, TypeStep
<1>2. CASE UNCHANGED vars \/ Tick
  BY <1>1, <1>2, SameWalk DEF Tick
<1>4. ASSUME NEW c \in Contacts, CreateContact(c) \/ MarkAsRead(c) \/ DeleteContact(c)
      PROVE  WalkInv(request[q])'
  BY <1>1, <1>4, ChangeOf, ChangeWalk
<1>5. ASSUME NEW r \in Requests, ContactStep(r) PROVE WalkInv(request[q])'
  <2>1. CASE q # r
    <3>1. request'[q] = request[q] /\ UNCHANGED contact
      BY <1>5, <2>1 DEF ContactStep, GetAllContacts, FetchPage, GetMeta, NextPage,
                        TypeOK
    <3> QED  BY <1>1, <3>1, SameWalk
  <2>2. CASE q = r
    BY <1>1, <1>5, <2>2, FirstPage, APage, ATotal, TheNextPage DEF ContactStep
  <2> QED  BY <2>1, <2>2
<1>6. ASSUME NEW r \in Requests, StatsStep(r) PROVE WalkInv(request[q])'
  <2>1. UNCHANGED contact
    BY <1>6 DEF StatsStep, GetStats, Hit, Miss, StoreFigures, RunQuery, SetPart,
                GetAdminDashboard, StoreDashboard, AnswerStats
  <2>2. \/ /\ request'[q].op = request[q].op /\ request'[q].walk = request[q].walk
           /\ request'[q].listed = request[q].listed
        \/ /\ request'[q].op # "contacts" /\ request'[q].walk = NoWalk
           /\ ~request'[q].listed
    BY <1>6, StatsWalk
  <2>3. CASE /\ request'[q].op = request[q].op /\ request'[q].walk = request[q].walk
             /\ request'[q].listed = request[q].listed
    BY <1>1, <2>1, <2>3, SameWalk
  <2>4. CASE /\ request'[q].op # "contacts" /\ request'[q].walk = NoWalk
             /\ ~request'[q].listed
    BY <2>4, NoWalkInv
  <2> QED  BY <2>2, <2>3, <2>4
<1> QED  BY <1>2, <1>4, <1>5, <1>6, BackOfficeAssumption DEF Next

\* EverythingIsListed is an invariant: for every page size and order, a client
\* that turns the pages sees every message that stays, if none leaves the list or
\* moves in it, none comes between the two queries of a page, and no page ends
\* between messages that tie.
THEOREM ListTheorem == Spec => []EverythingIsListed
<1>1. Init => ListInv
  <2> SUFFICES ASSUME Init, NEW r \in Requests PROVE WalkInv(request[r])
    BY ListInvIsWalkInv
  <2> QED  BY NoWalkInv DEF Init, Idle
<1>2. ListInv => EverythingIsListed
  BY DEF ListInv
<1> QED  BY InitTypes, TypeStep, ListStep, <1>1, <1>2, PTL DEF Spec
=============================================================================
