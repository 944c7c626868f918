-------------------------- MODULE WorkshopService --------------------------
(***************************************************************************)
(* workshop.service.ts: workshops and levels, the cached lists of          *)
(* workshops, and the images that workshops show.                          *)
(***************************************************************************)
EXTENDS CatalogStore

\* Names and slugs that a unique index holds, those of deleted documents too.
SlugTaken(w, base, n) ==
  \E v \in Workshops \ {w} :
    /\ workshop[v].title # None
    /\ SlugOf[workshop[v].title] = base /\ workshop[v].suffix = n

\* Some other workshop is found under the slug; deleted ones do not show.
SlugFound(w, base, n) ==
  \E v \in Workshops \ {w} :
    /\ FoundWorkshop(v)
    /\ SlugOf[workshop[v].title] = base /\ workshop[v].suffix = n

\* generateUniqueSlug: the slug itself, or the first of -1, -2, ...
FreeSuffix(w, base, n) ==
  ~SlugFound(w, base, n) /\ \A m \in 0..(n-1) : SlugFound(w, base, m)

\* MUTANT of FinalImages: a deleted image stays in the list.
KeepDropped(seen, p) == seen \cup p.add

\* processWorkshopImages: deletions first, then what is new.
FinalImages(seen, p) == (seen \ p.drop) \cup p.add

ToDelete(r) == request[r].payload.drop \cap request[r].images

\* Images that were destroyed, or that a workshop or another request has.
KnownImages(r) ==
  destroyed \cup (UNION {workshop[w].images : w \in Workshops})
  \cup (UNION {request[q].payload.add \cup request[q].images : q \in Requests \ {r}})

\* History: an update adds images that are known already.
Reuse(r, w, p) ==
  /\ reused' = reused \cup ((p.add \ (workshop[w].images \ p.drop)) \cap KnownImages(r))
  /\ UNCHANGED <<destroyed, raced>>

TitleTaken(w, title) ==
  \E v \in Workshops \ {w} : FoundWorkshop(v) /\ workshop[v].title = title

-----------------------------------------------------------------------------
\* createWorkshop finds no workshop with the title; nobody looks for the
\* category and the level.  Its images are uploads, which get random names.
CreateWorkshop(r, w, p) ==
  /\ workshop[w].title = None
  /\ \A q \in Requests : Target(q) # w
  /\ p.title # None /\ ~TitleTaken(w, p.title)
  /\ p.category # None /\ p.level # None
  /\ p.add \cap KnownImages(r) = {}
  /\ Begin(r, "createWorkshop",
           [Idle EXCEPT !.pc = "slug", !.target = w, !.payload = p])
  /\ UNCHANGED <<docVars, cacheVars, logVars, imageVars, faultVars>>

\* MUTANT of UpdateWorkshop: the new title is not looked up.
RenameUnchecked(r, w, p) ==
  /\ FoundWorkshop(w)
  /\ Reuse(r, w, p)
  /\ Begin(r, "updateWorkshop",
           [Idle EXCEPT !.pc = IF p.title = None THEN "write" ELSE "slug",
                        !.target = w, !.payload = p, !.title = workshop[w].title,
                        !.images = workshop[w].images])
  /\ UNCHANGED <<docVars, cacheVars, logVars, faultVars>>

(***************************************************************************)
(* updateWorkshop, by an administrator or the owner, finds the workshop    *)
(* and, if the title is to change, no other one with the new title.  The   *)
(* images are uploads, or any URLs that the body names.                    *)
(***************************************************************************)
UpdateWorkshop(r, w, p) ==
  /\ FoundWorkshop(w)
  /\ p.title \notin {None, workshop[w].title} => ~TitleTaken(w, p.title)
  /\ Reuse(r, w, p)
  /\ Begin(r, "updateWorkshop",
           [Idle EXCEPT !.pc = IF p.title = None THEN "write" ELSE "slug",
                        !.target = w, !.payload = p, !.title = workshop[w].title,
                        !.images = workshop[w].images])
  /\ UNCHANGED <<docVars, cacheVars, logVars, faultVars>>

\* The pre-save or the pre-update hook looks for a free slug, and throws when
\* a hundred are taken.
FindSlug(r) ==
  LET rec == request[r]
      Free(n) == FreeSuffix(Target(r), SlugOf[rec.payload.title], n)
  IN /\ At(r, "slug")
     /\ IF \E n \in 0..99 : Free(n)
        THEN \E n \in 0..99 :
               /\ Free(n)
               /\ request' = [request EXCEPT ![r].suffix = n,
                    ![r].pc = IF rec.op = "createWorkshop" THEN "insert"
                                                           ELSE "write"]
        ELSE Finish(r)
     /\ UNCHANGED <<docVars, cacheVars, logVars, imageVars, faultVars>>

\* WorkShop.create, refused if the slug's unique index knows the slug.
InsertWorkshop(r) ==
  LET w == Target(r)
      rec == request[r]
      p == rec.payload
  IN /\ At(r, "insert")
     /\ IF SlugTaken(w, SlugOf[p.title], rec.suffix)
        THEN /\ Finish(r)
             /\ UNCHANGED <<docVars, cacheVars>>
        ELSE /\ workshop' = [workshop EXCEPT ![w] =
                  [title |-> p.title, suffix |-> rec.suffix,
                   category |-> p.category, level |-> p.level,
                   images |-> p.add, deleted |-> FALSE]]
             /\ Outdate(w)
             /\ Overtake(r, [rec EXCEPT !.pc = "scan"], w)
             /\ UNCHANGED <<group, review, registered, enrolled>>
     /\ UNCHANGED <<logVars, imageVars, faultVars>>

\* MUTANT of Updated: fields the body does not mention are written, too.
OverwriteAll(doc, rec) ==
  [doc EXCEPT !.title = rec.payload.title, !.category = rec.payload.category,
              !.level = rec.payload.level,
              !.images = FinalImages(rec.images, rec.payload)]

\* The document with the fields that the body mentions; a mentioned list of
\* images is written with those that were read, however empty it is.
Updated(doc, rec) ==
  LET p == rec.payload
  IN [doc EXCEPT !.title = IF p.title = None THEN @ ELSE p.title,
                 !.suffix = IF p.title = None THEN @ ELSE rec.suffix,
                 !.category = IF p.category = None THEN @ ELSE p.category,
                 !.level = IF p.level = None THEN @ ELSE p.level,
                 !.images = IF p.lists THEN FinalImages(rec.images, p) ELSE @]

(***************************************************************************)
(* findByIdAndUpdate: nothing is written to a workshop that was deleted    *)
(* meanwhile, but the request goes on; a taken slug is an error.           *)
(***************************************************************************)
WriteWorkshop(r) ==
  LET w == Target(r)
      rec == request[r]
      p == rec.payload
      next == [rec EXCEPT !.pc = IF ToDelete(r) = {} THEN "scan" ELSE "destroy"]
  IN /\ At(r, "write")
     /\ \/ /\ ~FoundWorkshop(w)
           /\ request' = [request EXCEPT ![r] = next]
           /\ UNCHANGED <<docVars, cacheVars, raced>>
        \/ /\ FoundWorkshop(w)
           /\ p.title # None /\ SlugTaken(w, SlugOf[p.title], rec.suffix)
           /\ Finish(r)
           /\ UNCHANGED <<docVars, cacheVars, raced>>
        \/ /\ FoundWorkshop(w)
           /\ p.title # None => ~SlugTaken(w, SlugOf[p.title], rec.suffix)
           /\ workshop' = [workshop EXCEPT ![w] = Updated(@, rec)]
           /\ raced' = IF p.lists /\ w \in rec.since
                       THEN raced \cup {w} ELSE raced
           /\ Outdate(w)
           /\ Overtake(r, next, w)
           /\ UNCHANGED <<group, review, registered, enrolled>>
     /\ UNCHANGED <<logVars, destroyed, reused, faultVars>>

(***************************************************************************)
(* deleteImageFromCloudinary for each image: only URLs with the version    *)
(* right before the file name give an id; the others are logged and stay.  *)
(***************************************************************************)
DestroyImages(r) ==
  /\ At(r, "destroy")
  /\ destroyed' = destroyed \cup (ToDelete(r) \cap Matching)
  /\ Goto(r, "scan")
  /\ UNCHANGED <<docVars, cacheVars, logVars, raced, reused, faultVars>>

-----------------------------------------------------------------------------
\* MUTANT of DeleteWorkshop: nothing is written to the audit log.
DeleteUnaudited(r, w) ==
  /\ FoundWorkshop(w)
  /\ Begin(r, "deleteWorkshop",
           [Idle EXCEPT !.pc = "softDelete", !.target = w])
  /\ UNCHANGED <<docVars, cacheVars, logVars, imageVars, faultVars>>

DeleteWorkshop(r, w) ==
  /\ FoundWorkshop(w)
  /\ Begin(r, "deleteWorkshop",
           [Idle EXCEPT !.pc = "auditDelete", !.target = w])
  /\ UNCHANGED <<docVars, cacheVars, logVars, imageVars, faultVars>>

\* logAudit, before the deletion itself; it swallows its own failure.
AuditDelete(r) ==
  /\ At(r, "auditDelete")
  /\ \/ /\ audited' = audited \cup {Target(r)}
        /\ UNCHANGED lostAudits
     \/ /\ "audit" \in Faults
        /\ lostAudits' = lostAudits \cup {Target(r)}
        /\ UNCHANGED audited
  /\ Goto(r, "softDelete")
  /\ UNCHANGED <<docVars, cacheVars, imageVars, faultVars>>

\* MUTANT of SoftDeleteWorkshop: the cached lists are not invalidated.
SoftDeleteOnly(r) ==
  LET w == Target(r)
  IN /\ At(r, "softDelete") /\ w \in Workshops
     /\ workshop' = [workshop EXCEPT ![w].deleted = TRUE]
     /\ Outdate(w)
     /\ Overtake(r, Done, w)
     /\ UNCHANGED <<group, review, registered, enrolled, logVars, imageVars,
                    faultVars>>

SoftDeleteWorkshop(r) ==
  LET w == Target(r)
  IN /\ At(r, "softDelete") /\ w \in Workshops
     /\ workshop' = [workshop EXCEPT ![w].deleted = TRUE]
     /\ Outdate(w)
     /\ Overtake(r, [request[r] EXCEPT !.pc = "scan"], w)
     /\ UNCHANGED <<group, review, registered, enrolled, logVars, imageVars,
                    faultVars>>

-----------------------------------------------------------------------------
\* The lists that r should have purged stay until they expire.
Excuse(r) ==
  /\ excused' = [k \in Keys |-> IF k \in cached
                                THEN excused[k] \cup {Target(r)}
                                ELSE excused[k]]
  /\ UNCHANGED <<cached, missing>>

\* invalidateWorkshopCache looks for the keys, if there is a connection.
ScanCache(r) ==
  /\ At(r, "scan")
  /\ IF redisUp
     THEN /\ request' = [request EXCEPT ![r].pc = "purge", ![r].keys = cached]
          /\ UNCHANGED cacheVars
     ELSE Finish(r) /\ Excuse(r)
  /\ UNCHANGED <<docVars, logVars, imageVars, faultVars>>

Drop(ks) ==
  /\ cached' = cached \ ks
  /\ missing' = [k \in Keys |-> IF k \in ks THEN {} ELSE missing[k]]
  /\ excused' = [k \in Keys |-> IF k \in ks THEN {} ELSE excused[k]]

\* One DEL for all the keys found; its failure is logged.
PurgeCache(r) ==
  /\ At(r, "purge")
  /\ Finish(r)
  /\ IF redisUp THEN Drop(request[r].keys) ELSE Excuse(r)
  /\ UNCHANGED <<docVars, logVars, imageVars, faultVars>>

\* getAllWorkshops finds nothing under its key, or Redis does not answer.
GetAllWorkshops(r, k) ==
  /\ ~(redisUp /\ k \in cached)
  /\ Begin(r, "getAllWorkshops", [Idle EXCEPT !.pc = "query", !.keys = {k}])
  /\ UNCHANGED <<docVars, cacheVars, logVars, imageVars, faultVars>>

\* The documents and their number are two parallel queries: the first one...
QueryList(r) ==
  /\ At(r, "query")
  /\ request' = [request EXCEPT ![r].pc = "queryRest", ![r].since = {}]
  /\ UNCHANGED <<docVars, cacheVars, logVars, imageVars, faultVars>>

\* ...and the other one.
QueryRest(r) ==
  /\ At(r, "queryRest")
  /\ Goto(r, "fill")
  /\ UNCHANGED <<docVars, cacheVars, logVars, imageVars, faultVars>>

FillCache(r) ==
  LET since == request[r].since \cap Workshops
      k == CHOOSE key \in Keys : request[r].keys = {key}
  IN /\ At(r, "fill")
     /\ Finish(r)
     /\ IF redisUp
        THEN /\ cached' = cached \cup {k}
             /\ missing' = [missing EXCEPT ![k] = since]
             /\ excused' = [excused EXCEPT ![k] = since]
        ELSE UNCHANGED cacheVars
     /\ UNCHANGED <<docVars, logVars, imageVars, faultVars>>

\* The 60 seconds of a list are over.
ListExpires(k) ==
  /\ k \in cached
  /\ Drop({k})
  /\ UNCHANGED <<docVars, logVars, imageVars, faultVars, request>>
=============================================================================
