---------------------------- MODULE CatalogStore ----------------------------
(***************************************************************************)
(* The state of the catalogue: categories and levels, the workshops that   *)
(* refer to them, the reviews of workshops, the Redis keys that hold lists *)
(* of workshops, the images at Cloudinary, and the requests in flight.     *)
(*                                                                         *)
(* One query is one step; a request may be overtaken at each await.  What  *)
(* it keeps in local variables is its record in request.                   *)
(***************************************************************************)
EXTENDS Naturals, FiniteSets

CONSTANTS
  Categories, Levels, Workshops, Reviews, Users,   \* ids of documents
  Names,            \* names and titles
  Slugs, SlugOf,    \* SlugOf[n]: what slugifying n gives
  Images,           \* image URLs
  Matching,         \* those in which deleteImageFromCloudinary finds an id
  Keys,             \* query strings of the workshop list
  Payloads,         \* the bodies of create and update requests
  Requests,         \* bound: the requests there are
  None,
  InitialGroups, InitialWorkshops, Ops, Faults,
  MaxFailures       \* bound: requests that die and outages of Redis

Groups == Categories \cup Levels

VARIABLES
  group,        \* the category and level documents
  workshop,     \* the workshop documents
  review,       \* the review documents
  registered,   \* users that are not deleted
  enrolled,     \* enrolled[u]: workshops where u has a COMPLETE enrollment
  cached,       \* the workshops:list:<query> keys there are
  missing,      \* missing[k]: workshops changed since the list under k was read
  excused,      \* excused[k]: those of missing[k] that no purge was to see
  audited,      \* documents with a DELETE entry in the audit log
  lostAudits,   \* documents whose DELETE entry could not be written
  destroyed,    \* images deleted at Cloudinary
  raced,        \* workshops whose images two overlapping updates wrote
  reused,       \* images that an update added when they were known already
  redisUp,      \* Redis answers
  failures,     \* how many requests have died and outages begun
  request       \* the requests in flight

docVars   == <<group, workshop, review, registered, enrolled>>
cacheVars == <<cached, missing, excused>>
logVars   == <<audited, lostAudits>>
imageVars == <<destroyed, raced, reused>>
faultVars == <<redisUp, failures>>

vars == <<docVars, cacheVars, logVars, imageVars, faultVars, request>>

-----------------------------------------------------------------------------
AllOps == {"createGroup", "updateGroup", "deleteLevel", "deleteCategory",
           "createWorkshop", "updateWorkshop", "deleteWorkshop",
           "getAllWorkshops", "createReview", "updateReviewStatus",
           "deleteReview", "deleteUser"}

\* Redis is out of reach, a request dies, the audit log cannot be written.
AllFaults == {"redis", "crash", "audit"}

\* A category or level, or what will become one.
GroupDoc == [name : {None}, deleted : {FALSE}]
            \cup [name : Names, deleted : BOOLEAN]

\* No workshop, or a whole one; suffix is the number that generateUniqueSlug
\* appended, 0 for none.
WorkshopDoc ==
  [title : {None}, suffix : {0}, category : {None}, level : {None},
   images : {{}}, deleted : {FALSE}]
  \cup [title : Names, suffix : Nat, category : Categories, level : Levels,
        images : SUBSET Images, deleted : BOOLEAN]

NoReview == [user |-> None, workshop |-> None, status |-> "PENDING",
             deleted |-> FALSE, overtaken |-> FALSE]

\* overtaken: it was written while its author was being deleted.
ReviewDoc == {NoReview}
             \cup [user : Users, workshop : Workshops,
                   status : {"PENDING", "APPROVED", "REJECTED"},
                   deleted : BOOLEAN, overtaken : BOOLEAN]

\* What a body asks for; None where it says nothing.  lists: it mentions images
\* to add or to drop, be it an empty list.
Payload ==
  {p \in [title : Names \cup {None}, category : Categories \cup {None},
          level : Levels \cup {None}, lists : BOOLEAN, add : SUBSET Images,
          drop : SUBSET Images] :
     p.lists \/ p.add \cup p.drop = {}}

Empty == [title |-> None, category |-> None, level |-> None, lists |-> FALSE,
          add |-> {}, drop |-> {}]

PCs == {"idle", "done", "insertGroup", "renameGroup", "count", "auditDelete",
        "softDelete", "slug", "insert", "write", "destroy", "scan", "purge",
        "query", "queryRest", "fill", "enrollment", "duplicate",
        "insertReview", "writeReview", "cascade", "saveUser"}

(***************************************************************************)
(* A request in flight.  title and images are those it read, suffix the    *)
(* slug it found, keys the cache keys it will set or delete, todo the      *)
(* collections it has yet to cascade to.  since is history: the workshops  *)
(* and users that others have written since the query on which the request *)
(* decides.                                                                *)
(***************************************************************************)
RequestRecord ==
  [op      : AllOps \cup {"none"},
   pc      : PCs,
   target  : Groups \cup Workshops \cup Reviews \cup {None},
   user    : Users \cup {None},
   status  : {"PENDING", "APPROVED", "REJECTED"},
   payload : Payload,
   title   : Names \cup {None},
   images  : SUBSET Images,
   suffix  : Nat,
   keys    : SUBSET Keys,
   todo    : SUBSET {"enrollments", "reviews"},
   since   : SUBSET (Workshops \cup Users)]

Idle == [op |-> "none", pc |-> "idle", target |-> None, user |-> None,
         status |-> "PENDING", payload |-> Empty, title |-> None,
         images |-> {}, suffix |-> 0, keys |-> {}, todo |-> {}, since |-> {}]

\* Each of Requests is served once.
Done == [Idle EXCEPT !.pc = "done"]

ASSUME CatalogAssumption ==
  /\ IsFiniteSet(Requests)
  /\ Ops \subseteq AllOps /\ Faults \subseteq AllFaults
  /\ Payloads \subseteq Payload
  /\ SlugOf \in [Names -> Slugs]
  /\ InitialGroups \in [Groups -> GroupDoc]
  /\ InitialWorkshops \in [Workshops -> WorkshopDoc]
  /\ Matching \subseteq Images /\ MaxFailures \in Nat

ASSUME DistinctIds ==
  /\ None \notin Categories \cup Levels \cup Workshops \cup Reviews
  /\ None \notin Users \cup Names \cup Images
  /\ Workshops \cap Groups = {} /\ Workshops \cap Reviews = {}
  /\ Reviews \cap Groups = {} /\ Users \cap Workshops = {}

TypeOK ==
  /\ group \in [Groups -> GroupDoc]
  /\ workshop \in [Workshops -> WorkshopDoc]
  /\ review \in [Reviews -> ReviewDoc]
  /\ registered \subseteq Users
  /\ enrolled \in [Users -> SUBSET Workshops]
  /\ cached \subseteq Keys
  /\ missing \in [Keys -> SUBSET Workshops]
  /\ excused \in [Keys -> SUBSET Workshops]
  /\ audited \subseteq Workshops \cup Levels
  /\ lostAudits \subseteq Workshops \cup Levels
  /\ destroyed \subseteq Images
  /\ raced \subseteq Workshops
  /\ reused \subseteq Images
  /\ redisUp \in BOOLEAN
  /\ failures \in Nat
  /\ request \in [Requests -> RequestRecord]

Init ==
  /\ group = InitialGroups
  /\ workshop = InitialWorkshops
  /\ review = [v \in Reviews |-> NoReview]
  /\ registered = Users
  /\ enrolled = [u \in Users |-> Workshops]
  /\ cached = {}
  /\ missing = [k \in Keys |-> {}] /\ excused = [k \in Keys |-> {}]
  /\ audited = {w \in Workshops : InitialWorkshops[w].deleted}
               \cup {l \in Levels : InitialGroups[l].deleted}
  /\ lostAudits = {}
  /\ destroyed = {} /\ raced = {}
  /\ reused = {i \in Images : \E v, w \in Workshops :
                 v # w /\ i \in workshop[v].images \cap workshop[w].images}
  /\ redisUp = TRUE /\ failures = 0
  /\ request = [r \in Requests |-> Idle]

-----------------------------------------------------------------------------
\* The soft-delete plugin hides deleted documents from every query.
FoundGroup(g)    == group[g].name # None /\ ~group[g].deleted
FoundWorkshop(w) == workshop[w].title # None /\ ~workshop[w].deleted
FoundReview(v)   == review[v].user # None /\ ~review[v].deleted

RefersTo(w, g) == g \in {workshop[w].category, workshop[w].level}

At(r, label)   == request[r].pc = label
Target(r)      == request[r].target
Goto(r, label) == request' = [request EXCEPT ![r].pc = label]
Finish(r)      == request' = [request EXCEPT ![r] = Done]

Begin(r, op, rec) ==
  /\ op \in Ops
  /\ At(r, "idle")
  /\ request' = [request EXCEPT ![r] = [rec EXCEPT !.op = op]]

\* Request r, which becomes rec, writes x: the others are overtaken.
Overtake(r, rec, x) ==
  request' = [q \in Requests |->
    IF q = r THEN rec
    ELSE IF request[q].op = "none" THEN request[q]
    ELSE [request[q] EXCEPT !.since = @ \cup {x}]]

\* Workshop w is written: the lists in the cache were read before.
Outdate(w) ==
  /\ missing' = [k \in Keys |-> IF k \in cached THEN missing[k] \cup {w}
                                                ELSE missing[k]]
  /\ UNCHANGED <<cached, excused>>
=============================================================================
