---------------------------- MODULE StatsService ----------------------------
(***************************************************************************)
(* stats.service.ts: five sets of figures, each kept for CACHE_TTL, and a  *)
(* dashboard of the five, kept for CACHE_TTL again.  A Redis that does not *)
(* answer reads as a miss and a write to it is lost.                       *)
(***************************************************************************)
EXTENDS BackOfficeStore

SetPart(r, s, part) ==
  /\ request' = [request EXCEPT ![r].part[s] = part]
  /\ UNCHANGED <<office, clock, contact, writes>>

-----------------------------------------------------------------------------
\* One of the five functions is asked for its figures.
GetStats(r, s) ==
  /\ request[r].op = "none"
  /\ request' = [request EXCEPT ![r] =
       [Idle EXCEPT !.op = "stats", !.begun = clock, !.part[s].at = "lookUp"]]
  /\ UNCHANGED <<office, clock, entry, contact, writes>>

\* getAdminDashboard finds none in the cache and calls all five at once.
GetAdminDashboard(r) ==
  /\ request[r].op = "none"
  /\ request' = [request EXCEPT ![r] =
       [Idle EXCEPT !.op = "dashboard", !.begun = clock,
          !.part = [s \in Sections |-> [NoPart EXCEPT !.at = "lookUp"]]]]
  /\ UNCHANGED <<office, clock, entry, contact, writes>>

Hit(r, s) ==
  /\ request[r].part[s].at = "lookUp"
  /\ entry[s].live
  /\ SetPart(r, s, [NoPart EXCEPT !.at = "done",
                                  !.oldest = entry[s].oldest[s]])
  /\ UNCHANGED entry

Miss(r, s) ==
  /\ request[r].part[s].at = "lookUp"
  /\ SetPart(r, s, [NoPart EXCEPT !.at = "query", !.todo = {"count", "group"}])
  /\ UNCHANGED entry

\* One of the parallel queries; the order is up to the database.
RunQuery(r, s, query) ==
  LET part == request[r].part[s]
      left == part.todo \ {query}
  IN /\ part.at = "query" /\ query \in part.todo
     /\ SetPart(r, s,
          [part EXCEPT !.todo = left,
             !.at = IF left = {} THEN "store" ELSE "query",
             !.oldest = IF left = {} THEN @ ELSE clock])
     /\ UNCHANGED entry

Fresh(oldest) == [live |-> TRUE, stored |-> clock, oldest |-> oldest]

\* The figures go to the cache, unless Redis fails, and to the caller.
StoreFigures(r, s) ==
  LET part == request[r].part[s]
  IN /\ part.at = "store"
     /\ SetPart(r, s, [part EXCEPT !.at = "done"])
     /\ \/ entry' = [entry EXCEPT ![s] =
             Fresh([NoEntry.oldest EXCEPT ![s] = part.oldest])]
        \/ UNCHANGED entry

\* The five are there: the dashboard is stored and sent.
StoreDashboard(r) ==
  /\ request[r].op = "dashboard"
  /\ \A s \in Sections : request[r].part[s].at = "done"
  /\ request' = [request EXCEPT ![r] = Done]
  /\ \/ entry' = [entry EXCEPT ![Dashboard] =
          Fresh([s \in Sections |-> request[r].part[s].oldest])]
     \/ UNCHANGED entry
  /\ UNCHANGED <<office, clock, contact, writes>>

AnswerStats(r) ==
  /\ request[r].op = "stats"
  /\ \A s \in Sections : request[r].part[s].at \in {"none", "done"}
  /\ request' = [request EXCEPT ![r] = Done]
  /\ UNCHANGED <<office, clock, entry, contact, writes>>

-----------------------------------------------------------------------------
\* MUTANT of Expires: the dashboard is stored without EX.
ExpiresIfSection(k) ==
  k # Dashboard /\ entry[k].live /\ entry[k].stored + TTL <= clock + 1

Expires(k) == entry[k].live /\ entry[k].stored + TTL <= clock + 1

\* Time passes; a request that has taken its time is done by then.
Tick ==
  /\ clock < MaxClock
  /\ \A r \in Requests : Busy(r) => clock < request[r].begun + Lag
  /\ clock' = clock + 1
  /\ entry' = [k \in Keys |-> IF Expires(k) THEN NoEntry ELSE entry[k]]
  /\ UNCHANGED <<office, contact, writes, request>>
=============================================================================
