------------------------------ MODULE Catalog ------------------------------
(***************************************************************************)
(* The catalogue: categories, levels, workshops, reviews and the cached    *)
(* lists, with outages of Redis, requests that die and lists that expire.  *)
(***************************************************************************)
EXTENDS CategoryService, ReviewService

MustPurge(r) == request[r].pc \in {"destroy", "scan", "purge"}

\* The process dies: nothing of the request is resumed.
Crash(r) ==
  /\ "crash" \in Faults /\ failures < MaxFailures
  /\ request[r].op # "none"
  /\ failures' = failures + 1
  /\ Finish(r)
  /\ IF MustPurge(r) THEN Excuse(r) ELSE UNCHANGED cacheVars
  /\ UNCHANGED <<docVars, logVars, imageVars, redisUp>>

\* Redis goes out of reach, or comes back with its keys.
RedisTurns ==
  /\ "redis" \in Faults
  /\ redisUp => failures < MaxFailures
  /\ redisUp' = ~redisUp
  /\ failures' = IF redisUp THEN failures + 1 ELSE failures
  /\ UNCHANGED <<docVars, cacheVars, logVars, imageVars, request>>

-----------------------------------------------------------------------------
Arrive(r) ==
  \/ \E g \in Groups, n \in Names : CreateGroup(r, g, n) \/ UpdateGroup(r, g, n)
  \/ \E g \in Groups : DeleteGroup(r, g)
  \/ \E w \in Workshops, p \in Payloads :
       CreateWorkshop(r, w, p) \/ UpdateWorkshop(r, w, p)
  \/ \E w \in Workshops : DeleteWorkshop(r, w)
  \/ \E k \in Keys : GetAllWorkshops(r, k)
  \/ \E u \in Users, w \in Workshops : CreateReview(r, u, w)
  \/ \E v \in Reviews :
       \/ DeleteReview(r, v)
       \/ \E s \in {"PENDING", "APPROVED", "REJECTED"} :
            UpdateReviewStatus(r, v, s)
  \/ \E u \in Users : DeleteUser(r, u)

Resume(r) ==
  \/ InsertGroup(r) \/ RenameGroup(r) \/ CountWorkshops(r)
  \/ AuditDelete(r) \/ SoftDeleteGroup(r) \/ SoftDeleteWorkshop(r)
  \/ FindSlug(r) \/ InsertWorkshop(r) \/ WriteWorkshop(r) \/ DestroyImages(r)
  \/ ScanCache(r) \/ PurgeCache(r)
  \/ QueryList(r) \/ QueryRest(r) \/ FillCache(r)
  \/ CheckEnrollment(r) \/ CheckDuplicate(r) \/ WriteReview(r)
  \/ \E v \in Reviews : InsertReview(r, v)
  \/ \E c \in {"enrollments", "reviews"} : Cascade(r, c)
  \/ SaveUser(r)

Next ==
  \/ \E r \in Requests : Arrive(r) \/ Resume(r) \/ Crash(r)
  \/ \E k \in Keys : ListExpires(k)
  \/ RedisTurns

Spec == Init /\ [][Next]_vars

-----------------------------------------------------------------------------
(***************************************************************************)
(* invalidateWorkshopCache.  A cached list that misses a change is one     *)
(* whose purge is under way, was prevented, or that was read before the    *)
(* change and stored after it: no other stale list is ever served.         *)
(***************************************************************************)
StaleOnlyByOverlap ==
  \A k \in cached : \A w \in missing[k] \ excused[k] :
    \E r \in Requests :
      /\ Target(r) = w /\ MustPurge(r)
      /\ At(r, "purge") => k \in request[r].keys

(***************************************************************************)
(* deleteCategory and deleteLevel.  When a category or level is deleted,   *)
(* the only workshops left that refer to it were written since the request *)
(* counted them: the guard holds but for that overlap.                     *)
(***************************************************************************)
DeletionSparesLinked ==
  [][\A r \in Requests, g \in Groups :
       (At(r, "softDelete") /\ Target(r) = g /\ request'[r] # request[r]
          /\ ~group[g].deleted /\ group'[g].deleted) =>
         \A w \in Workshops :
           FoundWorkshop(w) /\ RefersTo(w, g) => w \in request[r].since]_vars

(***************************************************************************)
(* createWorkshop and updateWorkshop.  No index covers titles: a workshop  *)
(* gets the title of another one only if that one was written since the    *)
(* request looked for duplicates, or if the workshop itself was renamed    *)
(* since and gets back the title it had, which nobody looks up.            *)
(***************************************************************************)
TitlesClashOnlyByOverlap ==
  [][\A r \in Requests, v \in Workshops :
       LET w == Target(r)
       IN (/\ request[r].pc \in {"insert", "write"}
           /\ request'[r].pc # request[r].pc
           /\ workshop'[w].title # workshop[w].title
           /\ v # w /\ FoundWorkshop(v)
           /\ workshop[v].title = workshop'[w].title) =>
             \/ v \in request[r].since
             \/ w \in request[r].since /\ workshop'[w].title = request[r].title]_vars

(***************************************************************************)
(* The soft-delete plugin.  A deleted document never changes again: no     *)
(* update that was under way when it was deleted comes through.            *)
(***************************************************************************)
DeletedIsFinal ==
  [][/\ \A g \in Groups : group[g].deleted => group'[g] = group[g]
     /\ \A w \in Workshops : workshop[w].deleted => workshop'[w] = workshop[w]
     /\ \A v \in Reviews : review[v].deleted => review'[v] = review[v]]_vars

(***************************************************************************)
(* deleteWorkshop and deleteLevel.  Whatever was deleted has its entry in  *)
(* the audit log, also when the request died halfway, unless the log       *)
(* itself failed.                                                          *)
(***************************************************************************)
DeletionIsAudited ==
  /\ \A w \in Workshops : workshop[w].deleted => w \in audited \cup lostAudits
  /\ \A l \in Levels : group[l].deleted => l \in audited \cup lostAudits

(***************************************************************************)
(* updateWorkshop.  An image that was destroyed at Cloudinary is shown by  *)
(* no workshop, unless two updates of its images overlapped or an update   *)
(* named the image when it was known already.                              *)
(***************************************************************************)
DestroyedIsNotShown ==
  \A w \in Workshops :
    FoundWorkshop(w) /\ (workshop[w].images \cap destroyed) \ reused # {} =>
      w \in raced

(***************************************************************************)
(* The cascade of the user model.  A review of a deleted user is hidden,   *)
(* unless it was being written while the user was being deleted.           *)
(***************************************************************************)
ReviewsGoWithUser ==
  \A v \in Reviews :
    FoundReview(v) /\ review[v].user \notin registered => review[v].overtaken
=============================================================================
