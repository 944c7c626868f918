--------------------------- MODULE ReviewService ---------------------------
(***************************************************************************)
(* review.service.ts and review.repository.ts, and the cascade with which  *)
(* the user model hides the reviews and enrollments of a deleted user.     *)
(* A review's text is left out: updateReview changes nothing else.         *)
(***************************************************************************)
EXTENDS CatalogStore

ReviewsOf(u) == {v \in Reviews : FoundReview(v) /\ review[v].user = u}

Reviewed(u, w) == \E v \in ReviewsOf(u) : review[v].workshop = w

BeingDeleted(u) ==
  \E q \in Requests : request[q].op = "deleteUser" /\ request[q].user = u

\* createReview: the user is signed in and the workshop is there.
CreateReview(r, u, w) ==
  /\ u \in registered
  /\ FoundWorkshop(w)
  /\ Begin(r, "createReview", [Idle EXCEPT !.pc = "enrollment", !.target = w,
                                           !.user = u])
  /\ UNCHANGED <<docVars, cacheVars, logVars, imageVars, faultVars>>

\* MUTANT of CheckEnrollment: anybody who is signed in may review.
WelcomeAnybody(r) ==
  /\ At(r, "enrollment")
  /\ request' = [request EXCEPT ![r].pc = "duplicate", ![r].since = {}]
  /\ UNCHANGED <<docVars, cacheVars, logVars, imageVars, faultVars>>

\* Only a COMPLETE enrollment entitles to a review.
CheckEnrollment(r) ==
  /\ At(r, "enrollment")
  /\ IF Target(r) \in enrolled[request[r].user]
     THEN request' = [request EXCEPT ![r].pc = "duplicate", ![r].since = {}]
     ELSE Finish(r)
  /\ UNCHANGED <<docVars, cacheVars, logVars, imageVars, faultVars>>

CheckDuplicate(r) ==
  /\ At(r, "duplicate")
  /\ IF Reviewed(request[r].user, Target(r)) THEN Finish(r)
                                             ELSE Goto(r, "insertReview")
  /\ UNCHANGED <<docVars, cacheVars, logVars, imageVars, faultVars>>

Pending(r) ==
  LET u == request[r].user
  IN [user |-> u, workshop |-> Target(r), status |-> "PENDING",
      deleted |-> FALSE,
      overtaken |-> u \in request[r].since \/ BeingDeleted(u)]

\* The unique partial index over user and workshop has the last word.
InsertReview(r, v) ==
  /\ At(r, "insertReview")
  /\ Finish(r)
  /\ review[v].user = None
  /\ review' = IF Reviewed(request[r].user, Target(r)) THEN review
               ELSE [review EXCEPT ![v] = Pending(r)]
  /\ UNCHANGED <<group, workshop, registered, enrolled, cacheVars, logVars,
                 imageVars, faultVars>>

\* updateReviewStatus and deleteReview find the review.
UpdateReviewStatus(r, v, status) ==
  /\ FoundReview(v)
  /\ Begin(r, "updateReviewStatus",
           [Idle EXCEPT !.pc = "writeReview", !.target = v,
                        !.status = status])
  /\ UNCHANGED <<docVars, cacheVars, logVars, imageVars, faultVars>>

DeleteReview(r, v) ==
  /\ FoundReview(v)
  /\ Begin(r, "deleteReview",
           [Idle EXCEPT !.pc = "writeReview", !.target = v])
  /\ UNCHANGED <<docVars, cacheVars, logVars, imageVars, faultVars>>

Changed(doc, rec) ==
  IF rec.op = "deleteReview" THEN [doc EXCEPT !.deleted = TRUE]
                             ELSE [doc EXCEPT !.status = rec.status]

\* MUTANT of WriteReview: the update goes by _id alone.
WriteReviewById(r) ==
  /\ At(r, "writeReview")
  /\ Finish(r)
  /\ review' = [review EXCEPT ![Target(r)] = Changed(@, request[r])]
  /\ UNCHANGED <<group, workshop, registered, enrolled, cacheVars, logVars,
                 imageVars, faultVars>>

\* updateById and deleteById: the plugin restricts them to documents that
\* are not deleted.
WriteReview(r) ==
  /\ At(r, "writeReview")
  /\ Finish(r)
  /\ review' = IF FoundReview(Target(r))
               THEN [review EXCEPT ![Target(r)] = Changed(@, request[r])]
               ELSE review
  /\ UNCHANGED <<group, workshop, registered, enrolled, cacheVars, logVars,
                 imageVars, faultVars>>

-----------------------------------------------------------------------------
\* deleteUser finds the user, and the hook starts both updates at once.
DeleteUser(r, u) ==
  /\ u \in registered
  /\ Begin(r, "deleteUser", [Idle EXCEPT !.pc = "cascade", !.user = u,
                               !.todo = {"enrollments", "reviews"}])
  /\ UNCHANGED <<docVars, cacheVars, logVars, imageVars, faultVars>>

Cascade(r, c) ==
  LET u == request[r].user
      left == request[r].todo \ {c}
  IN /\ At(r, "cascade") /\ c \in request[r].todo
     /\ enrolled' = IF c = "enrollments" THEN [enrolled EXCEPT ![u] = {}]
                                         ELSE enrolled
     /\ review' = IF c = "reviews"
                  THEN [v \in Reviews |-> IF v \in ReviewsOf(u)
                          THEN [review[v] EXCEPT !.deleted = TRUE]
                          ELSE review[v]]
                  ELSE review
     /\ Overtake(r, [request[r] EXCEPT !.todo = left,
                       !.pc = IF left = {} THEN "saveUser" ELSE "cascade"], u)
     /\ UNCHANGED <<group, workshop, registered, cacheVars, logVars,
                    imageVars, faultVars>>

SaveUser(r) ==
  /\ At(r, "saveUser")
  /\ registered' = registered \ {request[r].user}
  /\ Finish(r)
  /\ UNCHANGED <<group, workshop, review, enrolled, cacheVars, logVars,
                 imageVars, faultVars>>
=============================================================================
