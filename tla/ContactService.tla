--------------------------- MODULE ContactService ---------------------------
(***************************************************************************)
(* contact.service.ts and queryBuilder.ts: messages come, are marked and   *)
(* deleted while administrators read the list of them page by page.        *)
(***************************************************************************)
EXTENDS BackOfficeStore

\* paginate: no limit is the default, and no page is larger than MaxLimit.
PageSize(limit) ==
  LET asked == IF limit = 0 THEN DefaultLimit ELSE limit
  IN IF asked > MaxLimit THEN MaxLimit ELSE asked

\* getMeta has the limit without that cap.
MetaLimit(limit) == IF limit = 0 THEN DefaultLimit ELSE limit

TotalPage(total, limit) ==
  (total + MetaLimit(limit) - 1) \div MetaLimit(limit)

\* MUTANT of Skip: pages are counted from zero.
SkipFromZero(page, limit) == page * PageSize(limit)

Skip(page, limit) == (page - 1) * PageSize(limit)

\* The messages of the list, all of them or those with isRead=false.
Matches(doc, unread) == doc.sent /\ ~doc.deleted /\ (unread => ~doc.read)

Listed(unread) == {c \in Contacts : Matches(contact[c], unread)}

(***************************************************************************)
(* The first n messages of the list, in an order that the database may     *)
(* take.  It sorts by the fields that the query names, -createdAt if it    *)
(* names none; of messages that tie any may come first.                    *)
(***************************************************************************)
FirstOnes(walk, n) ==
  LET list == Listed(walk.unread)
      total == Cardinality(list)
  IN {part \in SUBSET list :
        /\ Cardinality(part) = IF n < total THEN n ELSE total
        /\ \A c \in part, d \in list \ part :
             contact[c].place[walk.sort] <= contact[d].place[walk.sort]}

\* The messages in part could as well have been others.
SplitsTie(walk, part) ==
  \E c \in part, d \in Listed(walk.unread) \ part :
    contact[c].place[walk.sort] = contact[d].place[walk.sort]

-----------------------------------------------------------------------------
BothQueries == {"data", "count"}

\* getAllContacts for the first page.
GetAllContacts(r, limit, unread, sort) ==
  /\ request[r].op = "none"
  /\ request' = [request EXCEPT ![r] =
       [Idle EXCEPT !.op = "contacts", !.begun = clock,
          !.walk = [NoWalk EXCEPT !.limit = limit, !.unread = unread,
                      !.sort = sort, !.page = 1, !.todo = BothQueries,
                      !.due = Listed(unread)]]]
  /\ UNCHANGED <<office, clock, entry, contact, writes>>

\* The page and the total are two parallel queries.
FetchPage(r) ==
  LET walk == request[r].walk
      first == Skip(walk.page, walk.limit)
  IN /\ "data" \in walk.todo
     /\ \E skipped \in FirstOnes(walk, first),
           read \in FirstOnes(walk, first + PageSize(walk.limit)) :
          /\ skipped \subseteq read
          /\ request' = [request EXCEPT
               ![r].walk.todo = @ \ {"data"},
               ![r].walk.seen = @ \cup (read \ skipped),
               ![r].walk.tied = @ \/ SplitsTie(walk, read)]
     /\ UNCHANGED <<office, clock, entry, contact, writes>>

GetMeta(r) ==
  LET walk == request[r].walk
  IN /\ "count" \in walk.todo
     /\ request' = [request EXCEPT
          ![r].walk.todo = @ \ {"count"},
          ![r].walk.total = Cardinality(Listed(walk.unread))]
     /\ UNCHANGED <<office, clock, entry, contact, writes>>

\* The client asks for the next page as long as there is one.
NextPage(r) ==
  LET walk == request[r].walk
  IN /\ request[r].op = "contacts" /\ ~request[r].listed /\ walk.todo = {}
     /\ request' =
          IF walk.page < TotalPage(walk.total, walk.limit)
          THEN [request EXCEPT ![r].walk.page = @ + 1,
                               ![r].walk.todo = BothQueries]
          ELSE [request EXCEPT ![r].listed = TRUE]
     /\ UNCHANGED <<office, clock, entry, contact, writes>>

-----------------------------------------------------------------------------
\* Message c becomes new; what that means for those who read the list.
Change(c, new) ==
  /\ contact' = [contact EXCEPT ![c] = new]
  /\ request' = [r \in Requests |->
       LET walk == request[r].walk
           was  == Matches(contact[c], walk.unread)
           is   == Matches(new, walk.unread)
           stays == new.place[walk.sort] = contact[c].place[walk.sort]
       IN IF request[r].op # "contacts" \/ request[r].listed THEN request[r]
          ELSE [request[r] EXCEPT
                  !.walk.moved = @ \/ (was /\ ~(is /\ stays)),
                  !.walk.grew = @ \/ (~was /\ is
                                        /\ Cardinality(walk.todo) = 1)]]
  /\ UNCHANGED <<office, clock, entry>>

CreateContact(c) ==
  /\ ~contact[c].sent
  /\ Written
  /\ \E place \in Places :
       Change(c, [sent |-> TRUE, place |-> place, read |-> FALSE,
                  deleted |-> FALSE])

\* markAsRead and deleteContact find deleted messages, too.  isRead and
\* updatedAt change, and the place in the orders that depend on them.
MarkAsRead(c) ==
  /\ contact[c].sent
  /\ Written
  /\ \E place \in Places :
       /\ \A sort \in Steady : place[sort] = contact[c].place[sort]
       /\ Change(c, [contact[c] EXCEPT !.read = TRUE, !.place = place])

DeleteContact(c) ==
  /\ contact[c].sent
  /\ Written
  /\ Change(c, [contact[c] EXCEPT !.deleted = TRUE])
=============================================================================
