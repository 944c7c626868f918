-------------------------- MODULE BackOfficeStore --------------------------
(***************************************************************************)
(* What administrators look at: statistics, which are kept in Redis for a  *)
(* while, and the messages of the contact form, which are listed page by   *)
(* page.  Of a set of figures the model keeps how old it is, of the fields *)
(* of a message the place that they give it in a sorted list.              *)
(***************************************************************************)
EXTENDS Integers, FiniteSets

CONSTANTS
  Sections,      \* users, workshops, enrollments, payments, trends
  TTL,           \* CACHE_TTL, in ticks of the clock
  Lag,           \* bound: ticks that a request takes at most
  MaxClock,      \* bound: the clock stops
  Contacts,      \* ids of messages
  InitialContacts,
  Sorts,         \* the orders in which queries ask for messages
  DefaultSort,   \* the order if the query asks for none: the newest first
  Steady,        \* orders by fields that no operation changes
  Places,        \* bound: the places a message may have in the orders
  DefaultLimit,  \* page size if the query asks for none, ten in the code
  MaxLimit,      \* largest page size, a hundred in the code
  Limits,        \* page sizes that queries ask for, zero for none
  Requests,      \* bound: the requests there are
  Readers,       \* bound: those of them that may read messages
  MaxWrites      \* bound: how often messages are written

Dashboard == "dashboard"

Keys == Sections \cup {Dashboard}

VARIABLES
  office,    \* bound: what a behaviour exercises; the two halves share nothing
  clock,
  entry,     \* what Redis holds under the stats:admin keys
  contact,   \* the messages
  writes,    \* how many writes there were
  request    \* the requests in flight

vars == <<office, clock, entry, contact, writes, request>>

-----------------------------------------------------------------------------
\* An entry of the cache, live until it expires; oldest[s] is when the first
\* of the queries ran that gave it the figures of section s.
Entry == [live : BOOLEAN, stored : 0..MaxClock,
          oldest : [Sections -> 0..MaxClock]]

NoEntry == [live |-> FALSE, stored |-> 0, oldest |-> [s \in Sections |-> 0]]

\* The work on one section in a request; todo are the queries left.
Part == [at : {"none", "lookUp", "query", "store", "done"},
         todo : SUBSET {"count", "group"}, oldest : 0..MaxClock]

NoPart == [at |-> "none", todo |-> {}, oldest |-> 0]

\* A message, or the id of one to come; messages may have the same place.
Contact == [sent : BOOLEAN, place : [Sorts -> Nat], read : BOOLEAN,
            deleted : BOOLEAN]

(***************************************************************************)
(* A client that reads the list page by page.  due, moved, grew and tied   *)
(* are history: the messages listed when it began; one of those on the     *)
(* list left it or changed its place; a message came while a page and its  *)
(* total were being read; a page ended between two messages that tie.      *)
(***************************************************************************)
Walk == [limit : Limits, unread : BOOLEAN, sort : Sorts, page : Nat,
         total : Nat, todo : SUBSET {"data", "count"}, seen : SUBSET Contacts,
         due : SUBSET Contacts, moved : BOOLEAN, grew : BOOLEAN,
         tied : BOOLEAN]

NoWalk == [limit |-> 0, unread |-> FALSE, sort |-> DefaultSort, page |-> 0,
           total |-> 0, todo |-> {}, seen |-> {}, due |-> {}, moved |-> FALSE,
           grew |-> FALSE, tied |-> FALSE]

RequestRecord == [op : {"none", "stats", "dashboard", "contacts", "done"},
                  begun : 0..MaxClock, part : [Sections -> Part],
                  walk : Walk, listed : BOOLEAN]

Idle == [op |-> "none", begun |-> 0, part |-> [s \in Sections |-> NoPart],
         walk |-> NoWalk, listed |-> FALSE]

ASSUME BackOfficeAssumption ==
  /\ Dashboard \notin Sections
  /\ IsFiniteSet(Contacts) /\ InitialContacts \in [Contacts -> Contact]
  /\ DefaultSort \in Steady /\ Steady \subseteq Sorts
  /\ Places \subseteq [Sorts -> Nat]
  /\ TTL \in Nat \ {0} /\ Lag \in Nat /\ MaxClock \in Nat
  /\ DefaultLimit \in Nat \ {0} /\ MaxLimit \in Nat /\ DefaultLimit <= MaxLimit
  /\ Readers \subseteq Requests
  /\ Limits \subseteq Nat /\ 0 \in Limits /\ MaxWrites \in Nat

TypeOK ==
  /\ office \in {"stats", "contacts"}
  /\ clock \in 0..MaxClock
  /\ entry \in [Keys -> Entry]
  /\ contact \in [Contacts -> Contact]
  /\ writes \in 0..MaxWrites
  /\ request \in [Requests -> RequestRecord]

Init ==
  /\ office \in {"stats", "contacts"}
  /\ clock = 0
  /\ entry = [k \in Keys |-> NoEntry]
  /\ contact = InitialContacts
  /\ writes = 0
  /\ request = [r \in Requests |-> Idle]

Busy(r) == request[r].op \in {"stats", "dashboard", "contacts"}

Done == [Idle EXCEPT !.op = "done"]

Written ==
  /\ writes < MaxWrites
  /\ writes' = writes + 1
=============================================================================
