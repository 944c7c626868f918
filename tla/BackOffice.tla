----------------------------- MODULE BackOffice -----------------------------
(***************************************************************************)
(* The statistics and the contact messages of the administrators.          *)
(***************************************************************************)
EXTENDS StatsService, ContactService

StatsStep(r) ==
  \/ \E s \in Sections :
       \/ GetStats(r, s) \/ Hit(r, s) \/ Miss(r, s) \/ StoreFigures(r, s)
       \/ \E query \in {"count", "group"} : RunQuery(r, s, query)
  \/ GetAdminDashboard(r) \/ StoreDashboard(r) \/ AnswerStats(r)

ContactStep(r) ==
  \/ \E limit \in Limits, unread \in BOOLEAN, sort \in Sorts :
       GetAllContacts(r, limit, unread, sort)
  \/ FetchPage(r) \/ GetMeta(r) \/ NextPage(r)

Next ==
  \/ /\ office = "stats"
     /\ \/ \E r \in Requests : StatsStep(r)
        \/ Tick
  \/ /\ office = "contacts"
     /\ \/ \E r \in Readers : ContactStep(r)
        \/ \E c \in Contacts :
             CreateContact(c) \/ MarkAsRead(c) \/ DeleteContact(c)

Spec == Init /\ [][Next]_vars

-----------------------------------------------------------------------------
(***************************************************************************)
(* CACHE_TTL.  Figures in the cache are at most as old as CACHE_TTL and    *)
(* the request that stored them took; those on a cached dashboard may be   *)
(* twice as old, for they may have come from the cache themselves.         *)
(***************************************************************************)
Age(k, s) == clock - entry[k].oldest[s]

StatsAreRecent ==
  /\ \A s \in Sections : entry[s].live => Age(s, s) <= TTL - 1 + Lag
  /\ entry[Dashboard].live =>
       \A s \in Sections : Age(Dashboard, s) <= 2 * (TTL - 1 + Lag)

(***************************************************************************)
(* sort, paginate and getMeta.  A client that follows totalPage sees every *)
(* message that was there when it began and still is.  Not if a message    *)
(* left the list or changed its place in it meanwhile, if one came between *)
(* the two queries of a page, if a page ended between two messages with    *)
(* the same place, or if the client asked for more than MaxLimit, which    *)
(* only the pages know of.                                                 *)
(***************************************************************************)
EverythingIsListed ==
  \A r \in Requests :
    LET walk == request[r].walk
    IN request[r].listed /\ ~walk.moved /\ ~walk.grew /\ ~walk.tied
         /\ walk.limit <= MaxLimit => walk.due \subseteq walk.seen
=============================================================================
