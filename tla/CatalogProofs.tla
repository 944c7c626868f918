--------------------------- MODULE CatalogProofs ---------------------------
(***************************************************************************)
(* What holds of categories, levels, workshops, reviews, cached lists and  *)
(* images for any number of documents and requests, with any faults: the   *)
(* deleted stays as it is and was audited, the reviews of a deleted user   *)
(* are hidden, and a list is stale, a title taken twice or a deleted       *)
(* category in use only where two requests overlapped; so is a destroyed   *)
(* image shown, unless an update named an image that was known already.    *)
(***************************************************************************)
EXTENDS Catalog, TLAPS

USE DEF vars, docVars, cacheVars, logVars, imageVars, faultVars

-----------------------------------------------------------------------------
(***************************************************************************)
(* Types, and what a request in flight knows: which kind of document it is *)
(* about, and what it was told to write.                                   *)
(***************************************************************************)
Shape(req) ==
  /\ req.op = "none" <=> req.pc \in {"idle", "done"}
  /\ req.op = "deleteUser" <=> req.pc \in {"cascade", "saveUser"}
  /\ req.pc \in {"slug", "insert", "write", "destroy", "scan", "purge"} =>
       req.target \in Workshops
  /\ req.pc \in {"insertGroup", "renameGroup", "count"} => req.target \in Groups
  /\ req.pc = "auditDelete" => req.target \in Workshops \cup Levels
  /\ req.pc = "softDelete" => req.target \in Workshops \cup Groups
  /\ req.pc \in {"insertGroup", "renameGroup", "slug", "insert"} =>
       req.payload.title \in Names
  /\ req.pc \in {"slug", "insert"} /\ req.op = "createWorkshop" =>
       /\ req.payload.category \in Categories /\ req.payload.level \in Levels
       /\ req.images = {}
  /\ req.pc = "insert" => req.op = "createWorkshop"
  /\ req.pc \in {"query", "queryRest", "fill"} => \E k \in Keys : req.keys = {k}
  /\ req.pc \in {"enrollment", "duplicate", "insertReview"} =>
       req.target \in Workshops /\ req.user \in Users
  /\ req.pc = "writeReview" => req.target \in Reviews
  /\ req.op = "deleteUser" => req.user \in Users
  /\ req.pc = "saveUser" => req.todo = {}

\* What is to be deleted has been created.
Created(req) ==
  /\ req.pc \in {"count", "auditDelete", "softDelete"} /\ req.target \in Groups =>
       group[req.target].name # None
  /\ req.pc \in {"auditDelete", "softDelete"} /\ req.target \in Workshops =>
       workshop[req.target].title # None

Shapes == \A r \in Requests : Shape(request[r]) /\ Created(request[r])

TypeInv == TypeOK /\ Shapes

\* Request r becomes new; the others have at most been overtaken.
Moves(r, new) ==
  /\ request' \in [Requests -> RequestRecord]
  /\ request'[r] = new
  /\ \A q \in Requests \ {r} :
       /\ request'[q].op = request[q].op /\ request'[q].pc = request[q].pc
       /\ request'[q].target = request[q].target
       /\ request'[q].user = request[q].user
       /\ request'[q].status = request[q].status
       /\ request'[q].payload = request[q].payload
       /\ request'[q].title = request[q].title
       /\ request'[q].images = request[q].images
       /\ request'[q].suffix = request[q].suffix
       /\ request'[q].keys = request[q].keys
       /\ request'[q].todo = request[q].todo
       /\ request[q].since \subseteq request'[q].since

\* Documents keep that they were created.
NamesStay ==
  /\ \A g \in Groups : group[g].name # None => group'[g].name # None
  /\ \A w \in Workshops : workshop[w].title # None => workshop'[w].title # None

\* The records that requests start from and end with.
LEMMA Records ==
  /\ Idle \in RequestRecord /\ Shape(Idle) /\ Idle.pc = "idle"
  /\ Done \in RequestRecord /\ Shape(Done) /\ Done.pc = "done"
  /\ Done.op = "none" /\ Done.target = None /\ Done.payload = Empty
  /\ Idle.op = "none" /\ Idle.target = None /\ Idle.payload = Empty
  /\ Done.images = {} /\ Idle.images = {} /\ Idle.since = {} /\ Idle.title = None
  /\ Empty \in Payload
  /\ Empty.title = None /\ Empty.add = {} /\ Empty.drop = {}
<1>1. Empty \in Payload /\ Empty.title = None /\ Empty.add = {}
      /\ Empty.drop = {}
  BY DEF Empty, Payload
<1>2. Idle \in RequestRecord /\ Done \in RequestRecord
  BY <1>1 DEF Idle, Done, RequestRecord, PCs
<1>3. Idle.op = "none" /\ Idle.pc = "idle" /\ Idle.target = None
      /\ Idle.payload = Empty /\ Idle.images = {} /\ Idle.since = {}
      /\ Idle.title = None
  BY DEF Idle
<1>4. Done.op = "none" /\ Done.pc = "done" /\ Done.target = None
      /\ Done.payload = Empty /\ Done.images = {}
  BY DEF Idle, Done
<1> QED  BY <1>1, <1>2, <1>3, <1>4 DEF Shape

LEMMA Went ==
  ASSUME TypeInv, NEW r \in Requests, NEW new \in RequestRecord,
         request' = [request EXCEPT ![r] = new]
  PROVE  Moves(r, new)
BY DEF TypeInv, TypeOK, Moves, RequestRecord

LEMMA Overtook ==
  ASSUME TypeInv, NEW r \in Requests, NEW new \in RequestRecord,
         NEW x \in Workshops \cup Users, Overtake(r, new, x)
  PROVE  Moves(r, new)
<1>1. request' = [q \in Requests |->
        IF q = r THEN new
        ELSE IF request[q].op = "none" THEN request[q]
        ELSE [request[q] EXCEPT !.since = @ \cup {x}]]
  BY DEF Overtake
<1>2. ASSUME NEW q \in Requests \ {r}
      PROVE  /\ request'[q] \in RequestRecord
             /\ request'[q] = request[q]
                \/ request'[q] =
                     [request[q] EXCEPT !.since = request[q].since \cup {x}]
  <2>1. request[q] \in RequestRecord
    BY DEF TypeInv, TypeOK
  <2> QED  BY <1>1, <2>1 DEF RequestRecord
<1>3. request' \in [Requests -> RequestRecord] /\ request'[r] = new
  BY <1>1, <1>2
<1>4. ASSUME NEW q \in Requests \ {r}
      PROVE  /\ request'[q].op = request[q].op /\ request'[q].pc = request[q].pc
             /\ request'[q].target = request[q].target
             /\ request'[q].user = request[q].user
             /\ request'[q].status = request[q].status
             /\ request'[q].payload = request[q].payload
             /\ request'[q].title = request[q].title
             /\ request'[q].images = request[q].images
             /\ request'[q].suffix = request[q].suffix
             /\ request'[q].keys = request[q].keys
             /\ request'[q].todo = request[q].todo
             /\ request[q].since \subseteq request'[q].since
  <2>1. request[q] \in RequestRecord
    BY DEF TypeInv, TypeOK
  <2>2. CASE request'[q] = request[q]
    BY <2>2
  <2>3. CASE request'[q] = [request[q] EXCEPT !.since = request[q].since \cup {x}]
    BY <2>1, <2>3 DEF RequestRecord
  <2> QED  BY <1>2, <2>2, <2>3
<1> QED  BY <1>3, <1>4 DEF Moves

\* A request moves to a record of the right shape.
LEMMA MovesTypes ==
  ASSUME TypeInv, NamesStay, NEW r \in Requests, NEW new \in RequestRecord,
         Moves(r, new), Shape(new), Created(new)'
  PROVE  request' \in [Requests -> RequestRecord] /\ Shapes'
<1>1. ASSUME NEW q \in Requests PROVE (Shape(request[q]) /\ Created(request[q]))'
  <2>1. CASE q = r
    BY <2>1 DEF Moves
  <2>2. CASE q # r
    <3>1. Shape(request[q]) /\ Created(request[q])
      BY DEF TypeInv, Shapes
    <3>2. Shape(request[q])'
      BY <2>2, <3>1 DEF Moves, Shape
    <3>3. Created(request[q])'
      BY <2>2, <3>1 DEF Moves, Created, NamesStay
    <3> QED  BY <3>2, <3>3
  <2> QED  BY <2>1, <2>2
<1> QED  BY <1>1 DEF Moves, Shapes

LEMMA StandTypes ==
  ASSUME TypeInv, NamesStay, UNCHANGED request
  PROVE  request' \in [Requests -> RequestRecord] /\ Shapes'
<1>1. ASSUME NEW q \in Requests PROVE (Shape(request[q]) /\ Created(request[q]))'
  <2>1. Shape(request[q]) /\ Created(request[q])
    BY DEF TypeInv, Shapes
  <2>2. Shape(request[q])'
    BY <2>1 DEF Shape
  <2>3. Created(request[q])'
    BY <2>1 DEF Created, NamesStay
  <2> QED  BY <2>2, <2>3
<1> QED  BY <1>1 DEF TypeInv, TypeOK, Shapes

LEMMA InitTypes == Init => TypeInv
<1> SUFFICES ASSUME Init PROVE TypeInv
  OBVIOUS
<1>1. TypeOK
  BY CatalogAssumption, Records DEF Init, TypeOK, ReviewDoc
<1>2. Shapes
  BY Records DEF Init, Shapes, Created
<1> QED  BY <1>1, <1>2 DEF TypeInv

-----------------------------------------------------------------------------
(***************************************************************************)
(* What a request has found when it starts.                                *)
(***************************************************************************)
Starts(r, new) ==
  /\ At(r, "idle") /\ new \in RequestRecord /\ Shape(new) /\ new.since = {}
  /\ new.pc \in {"insertGroup", "renameGroup", "count", "slug", "write",
                 "auditDelete", "query", "enrollment", "writeReview", "cascade"}
  /\ new.pc = "insertGroup" =>
       group[new.target].name = None /\ \A q \in Requests : Target(q) # new.target
  /\ new.pc \in {"renameGroup", "count"} => FoundGroup(new.target)
  /\ new.pc \in {"slug", "write"} =>
       /\ (new.payload.add \ (new.images \ new.payload.drop)) \cap KnownImages(r)
            \subseteq reused'
       /\ new.title \in {None, workshop[new.target].title}
       /\ new.payload.title \notin {None, new.title} =>
            ~TitleTaken(new.target, new.payload.title)
       /\ new.op = "createWorkshop" =>
            /\ new.pc = "slug" /\ new.images = {}
            /\ workshop[new.target].title = None
            /\ \A q \in Requests : Target(q) # new.target
       /\ new.op # "createWorkshop" =>
            /\ FoundWorkshop(new.target)
            /\ new.images = workshop[new.target].images
  /\ new.pc = "auditDelete" => new.target \in Workshops /\ FoundWorkshop(new.target)
  /\ new.pc = "enrollment" => FoundWorkshop(new.target)
  /\ new.pc \in {"query", "cascade"} => new.target = None
  /\ new.pc = "cascade" =>
       new.user \in registered /\ new.todo = {"enrollments", "reviews"}

LEMMA Began ==
  ASSUME TypeInv, NEW r \in Requests, NEW op \in AllOps, NEW rec \in RequestRecord,
         NEW new, new = [rec EXCEPT !.op = op], Begin(r, op, rec)
  PROVE  Moves(r, new) /\ At(r, "idle") /\ new \in RequestRecord
<1>1. new \in RequestRecord
  BY DEF RequestRecord
<1>2. request' = [request EXCEPT ![r] = new] /\ At(r, "idle")
  BY DEF Begin
<1> QED  BY <1>1, <1>2, Went

LEMMA GroupArrives ==
  ASSUME TypeInv, NEW r \in Requests, NEW g \in Groups, NEW n \in Names,
         CreateGroup(r, g, n) \/ UpdateGroup(r, g, n) \/ DeleteGroup(r, g)
  PROVE  \E new \in RequestRecord : Moves(r, new) /\ Starts(r, new)
<1> PICK pay : pay = [Empty EXCEPT !.title = n]
  OBVIOUS
<1>1. pay \in Payload /\ pay.title = n
  BY Records DEF Payload
<1>2. CASE CreateGroup(r, g, n)
  <2> PICK rec : rec = [Idle EXCEPT !.pc = "insertGroup", !.target = g,
                                    !.payload.title = n]
    OBVIOUS
  <2> PICK new : new = [rec EXCEPT !.op = "createGroup"]
    OBVIOUS
  <2>1. rec \in RequestRecord /\ rec.pc = "insertGroup" /\ rec.target = g
        /\ rec.payload = pay /\ rec.since = {}
    BY <1>1, Records DEF RequestRecord, PCs
  <2>2. Begin(r, "createGroup", rec)
    BY <1>2 DEF CreateGroup
  <2>3. Moves(r, new) /\ At(r, "idle") /\ new \in RequestRecord
    BY <2>1, <2>2, Began DEF AllOps
  <2>4. new.op = "createGroup" /\ new.pc = "insertGroup" /\ new.target = g
        /\ new.payload = pay /\ new.since = {}
    BY <2>1 DEF RequestRecord
  <2>5. Shape(new)
    BY <1>1, <2>4 DEF Shape
  <2>6. group[g].name = None /\ \A q \in Requests : Target(q) # g
    BY <1>2 DEF CreateGroup
  <2>7. group[new.target].name = None
        /\ \A q \in Requests : Target(q) # new.target
    BY <2>4, <2>6
  <2>8. Starts(r, new)
    BY <2>3, <2>4, <2>5, <2>7 DEF Starts
  <2> QED  BY <2>3, <2>8
<1>3. CASE UpdateGroup(r, g, n)
  <2> PICK rec : rec = [Idle EXCEPT !.pc = "renameGroup", !.target = g,
                                    !.payload.title = n]
    OBVIOUS
  <2> PICK new : new = [rec EXCEPT !.op = "updateGroup"]
    OBVIOUS
  <2>1. rec \in RequestRecord /\ rec.pc = "renameGroup" /\ rec.target = g
        /\ rec.payload = pay /\ rec.since = {}
    BY <1>1, Records DEF RequestRecord, PCs
  <2>2. Begin(r, "updateGroup", rec) /\ FoundGroup(g)
    BY <1>3 DEF UpdateGroup
  <2>3. Moves(r, new) /\ At(r, "idle") /\ new \in RequestRecord
    BY <2>1, <2>2, Began DEF AllOps
  <2>4. new.op = "updateGroup" /\ new.pc = "renameGroup" /\ new.target = g
        /\ new.payload = pay /\ new.since = {}
    BY <2>1 DEF RequestRecord
  <2>5. Shape(new)
    BY <1>1, <2>4 DEF Shape
  <2> QED  BY <2>2, <2>3, <2>4, <2>5 DEF Starts
<1>4. CASE DeleteGroup(r, g)
  <2> PICK op : op = IF g \in Levels THEN "deleteLevel" ELSE "deleteCategory"
    OBVIOUS
  <2> PICK rec : rec = [Idle EXCEPT !.pc = "count", !.target = g]
    OBVIOUS
  <2> PICK new : new = [rec EXCEPT !.op = op]
    OBVIOUS
  <2>1. rec \in RequestRecord /\ rec.pc = "count" /\ rec.target = g
        /\ rec.since = {} /\ op \in AllOps /\ op # "none" /\ op # "deleteUser"
    BY Records DEF RequestRecord, PCs, AllOps
  <2>2. Begin(r, op, rec) /\ FoundGroup(g)
    BY <1>4 DEF DeleteGroup
  <2>3. Moves(r, new) /\ At(r, "idle") /\ new \in RequestRecord
    BY <2>1, <2>2, Began
  <2>4. new.op = op /\ new.pc = "count" /\ new.target = g /\ new.since = {}
    BY <2>1 DEF RequestRecord
  <2>5. Shape(new)
    BY <2>1, <2>4 DEF Shape
  <2> QED  BY <2>2, <2>3, <2>4, <2>5 DEF Starts
<1> QED  BY <1>2, <1>3, <1>4

LEMMA WorkshopArrives ==
  ASSUME TypeInv, NEW r \in Requests, NEW w \in Workshops, NEW p \in Payload,
         CreateWorkshop(r, w, p) \/ UpdateWorkshop(r, w, p)
         \/ DeleteWorkshop(r, w)
  PROVE  \E new \in RequestRecord : Moves(r, new) /\ Starts(r, new)
<1>2. CASE CreateWorkshop(r, w, p)
  <2> PICK rec : rec = [Idle EXCEPT !.pc = "slug", !.target = w, !.payload = p]
    OBVIOUS
  <2> PICK new : new = [rec EXCEPT !.op = "createWorkshop"]
    OBVIOUS
  <2>1. rec \in RequestRecord /\ rec.pc = "slug" /\ rec.target = w
        /\ rec.payload = p /\ rec.since = {} /\ rec.images = {} /\ rec.title = None
    BY Records DEF RequestRecord, PCs
  <2>2. Begin(r, "createWorkshop", rec)
    BY <1>2 DEF CreateWorkshop
  <2>3. Moves(r, new) /\ At(r, "idle") /\ new \in RequestRecord
    BY <2>1, <2>2, Began DEF AllOps
  <2>4. new.op = "createWorkshop" /\ new.pc = "slug" /\ new.target = w
        /\ new.payload = p /\ new.since = {} /\ new.images = {} /\ new.title = None
    BY <2>1 DEF RequestRecord
  <2>5. p.title \in Names /\ p.category \in Categories /\ p.level \in Levels
    BY <1>2 DEF CreateWorkshop, Payload
  <2>6. Shape(new)
    BY <2>4, <2>5 DEF Shape
  <2>7. /\ p.add \cap KnownImages(r) = {} /\ ~TitleTaken(w, p.title)
        /\ workshop[w].title = None /\ \A q \in Requests : Target(q) # w
    BY <1>2 DEF CreateWorkshop
  <2> QED  BY <2>3, <2>4, <2>6, <2>7 DEF Starts
<1>3. CASE UpdateWorkshop(r, w, p)
  <2> PICK pc : pc = IF p.title = None THEN "write" ELSE "slug"
    OBVIOUS
  <2> PICK seen : seen = workshop[w].images
    OBVIOUS
  <2> PICK read : read = workshop[w].title
    OBVIOUS
  <2> PICK rec : rec = [Idle EXCEPT !.pc = pc, !.target = w, !.payload = p,
                                    !.title = read, !.images = seen]
    OBVIOUS
  <2> PICK new : new = [rec EXCEPT !.op = "updateWorkshop"]
    OBVIOUS
  <2>1. /\ seen \subseteq Images /\ pc \in PCs /\ pc \in {"write", "slug"}
        /\ pc = "slug" => p.title \in Names
        /\ read \in Names \cup {None}
    BY DEF TypeInv, TypeOK, WorkshopDoc, PCs, Payload
  <2>2. rec \in RequestRecord /\ rec.pc = pc /\ rec.target = w
        /\ rec.payload = p /\ rec.since = {} /\ rec.images = seen
        /\ rec.title = read
    BY <2>1, Records DEF RequestRecord
  <2>3. Begin(r, "updateWorkshop", rec)
    BY <1>3 DEF UpdateWorkshop
  <2>4. Moves(r, new) /\ At(r, "idle") /\ new \in RequestRecord
    BY <2>2, <2>3, Began DEF AllOps
  <2>5. new.op = "updateWorkshop" /\ new.pc = pc /\ new.target = w
        /\ new.payload = p /\ new.since = {} /\ new.images = seen
        /\ new.title = read
    BY <2>2 DEF RequestRecord
  <2>6. Shape(new)
    BY <2>1, <2>5 DEF Shape
  <2>7. /\ (p.add \ (seen \ p.drop)) \cap KnownImages(r) \subseteq reused'
        /\ FoundWorkshop(w)
        /\ p.title \notin {None, read} => ~TitleTaken(w, p.title)
    BY <1>3 DEF UpdateWorkshop, Reuse
  <2> QED  BY <2>1, <2>4, <2>5, <2>6, <2>7 DEF Starts
<1>4. CASE DeleteWorkshop(r, w)
  <2> PICK rec : rec = [Idle EXCEPT !.pc = "auditDelete", !.target = w]
    OBVIOUS
  <2> PICK new : new = [rec EXCEPT !.op = "deleteWorkshop"]
    OBVIOUS
  <2>1. rec \in RequestRecord /\ rec.pc = "auditDelete" /\ rec.target = w
        /\ rec.since = {}
    BY Records DEF RequestRecord, PCs
  <2>2. Begin(r, "deleteWorkshop", rec) /\ FoundWorkshop(w)
    BY <1>4 DEF DeleteWorkshop
  <2>3. Moves(r, new) /\ At(r, "idle") /\ new \in RequestRecord
    BY <2>1, <2>2, Began DEF AllOps
  <2>4. new.op = "deleteWorkshop" /\ new.pc = "auditDelete" /\ new.target = w
        /\ new.since = {}
    BY <2>1 DEF RequestRecord
  <2>5. Shape(new)
    BY <2>4 DEF Shape
  <2> QED  BY <2>2, <2>3, <2>4, <2>5 DEF Starts
<1> QED  BY <1>2, <1>3, <1>4

LEMMA OthersArrive ==
  ASSUME TypeInv, NEW r \in Requests,
         \/ \E k \in Keys : GetAllWorkshops(r, k)
         \/ \E u \in Users, w \in Workshops : CreateReview(r, u, w)
         \/ \E v \in Reviews :
              \/ DeleteReview(r, v)
              \/ \E s \in {"PENDING", "APPROVED", "REJECTED"} :
                   UpdateReviewStatus(r, v, s)
         \/ \E u \in Users : DeleteUser(r, u)
  PROVE  \E new \in RequestRecord : Moves(r, new) /\ Starts(r, new)
<1>1. ASSUME NEW k \in Keys, GetAllWorkshops(r, k)
      PROVE  \E new \in RequestRecord : Moves(r, new) /\ Starts(r, new)
  <2> PICK rec : rec = [Idle EXCEPT !.pc = "query", !.keys = {k}]
    OBVIOUS
  <2> PICK new : new = [rec EXCEPT !.op = "getAllWorkshops"]
    OBVIOUS
  <2>1. rec \in RequestRecord /\ rec.pc = "query" /\ rec.keys = {k}
        /\ rec.since = {} /\ rec.target = None
    BY Records DEF RequestRecord, PCs
  <2>2. Begin(r, "getAllWorkshops", rec)
    BY <1>1 DEF GetAllWorkshops
  <2>3. Moves(r, new) /\ At(r, "idle") /\ new \in RequestRecord
    BY <2>1, <2>2, Began DEF AllOps
  <2>4. new.op = "getAllWorkshops" /\ new.pc = "query" /\ new.keys = {k}
        /\ new.since = {} /\ new.target = None
    BY <2>1 DEF RequestRecord
  <2>5. Shape(new)
    BY <2>4 DEF Shape
  <2> QED  BY <2>3, <2>4, <2>5 DEF Starts
<1>2. ASSUME NEW u \in Users, NEW w \in Workshops, CreateReview(r, u, w)
      PROVE  \E new \in RequestRecord : Moves(r, new) /\ Starts(r, new)
  <2> PICK rec : rec = [Idle EXCEPT !.pc = "enrollment", !.target = w, !.user = u]
    OBVIOUS
  <2> PICK new : new = [rec EXCEPT !.op = "createReview"]
    OBVIOUS
  <2>1. rec \in RequestRecord /\ rec.pc = "enrollment" /\ rec.target = w
        /\ rec.user = u /\ rec.since = {}
    BY Records DEF RequestRecord, PCs
  <2>2. Begin(r, "createReview", rec) /\ FoundWorkshop(w)
    BY <1>2 DEF CreateReview
  <2>3. Moves(r, new) /\ At(r, "idle") /\ new \in RequestRecord
    BY <2>1, <2>2, Began DEF AllOps
  <2>4. new.op = "createReview" /\ new.pc = "enrollment" /\ new.target = w
        /\ new.user = u /\ new.since = {}
    BY <2>1 DEF RequestRecord
  <2>5. Shape(new)
    BY <2>4 DEF Shape
  <2> QED  BY <2>2, <2>3, <2>4, <2>5 DEF Starts
<1>3. ASSUME NEW v \in Reviews, DeleteReview(r, v)
      PROVE  \E new \in RequestRecord : Moves(r, new) /\ Starts(r, new)
  <2> PICK rec : rec = [Idle EXCEPT !.pc = "writeReview", !.target = v]
    OBVIOUS
  <2> PICK new : new = [rec EXCEPT !.op = "deleteReview"]
    OBVIOUS
  <2>1. rec \in RequestRecord /\ rec.pc = "writeReview" /\ rec.target = v
        /\ rec.since = {}
    BY Records DEF RequestRecord, PCs
  <2>2. Begin(r, "deleteReview", rec)
    BY <1>3 DEF DeleteReview
  <2>3. Moves(r, new) /\ At(r, "idle") /\ new \in RequestRecord
    BY <2>1, <2>2, Began DEF AllOps
  <2>4. new.op = "deleteReview" /\ new.pc = "writeReview" /\ new.target = v
        /\ new.since = {}
    BY <2>1 DEF RequestRecord
  <2>5. Shape(new)
    BY <2>4 DEF Shape
  <2> QED  BY <2>3, <2>4, <2>5 DEF Starts
<1>4. ASSUME NEW v \in Reviews, NEW s \in {"PENDING", "APPROVED", "REJECTED"},
             UpdateReviewStatus(r, v, s)
      PROVE  \E new \in RequestRecord : Moves(r, new) /\ Starts(r, new)
  <2> PICK rec : rec = [Idle EXCEPT !.pc = "writeReview", !.target = v,
                                    !.status = s]
    OBVIOUS
  <2> PICK new : new = [rec EXCEPT !.op = "updateReviewStatus"]
    OBVIOUS
  <2>1. rec \in RequestRecord /\ rec.pc = "writeReview" /\ rec.target = v
        /\ rec.since = {}
    BY Records DEF RequestRecord, PCs
  <2>2. Begin(r, "updateReviewStatus", rec)
    BY <1>4 DEF UpdateReviewStatus
  <2>3. Moves(r, new) /\ At(r, "idle") /\ new \in RequestRecord
    BY <2>1, <2>2, Began DEF AllOps
  <2>4. new.op = "updateReviewStatus" /\ new.pc = "writeReview"
        /\ new.target = v /\ new.since = {}
    BY <2>1 DEF RequestRecord
  <2>5. Shape(new)
    BY <2>4 DEF Shape
  <2> QED  BY <2>3, <2>4, <2>5 DEF Starts
<1>5. ASSUME NEW u \in Users, DeleteUser(r, u)
      PROVE  \E new \in RequestRecord : Moves(r, new) /\ Starts(r, new)
  <2> PICK rec : rec = [Idle EXCEPT !.pc = "cascade", !.user = u,
                                    !.todo = {"enrollments", "reviews"}]
    OBVIOUS
  <2> PICK new : new = [rec EXCEPT !.op = "deleteUser"]
    OBVIOUS
  <2>1. rec \in RequestRecord /\ rec.pc = "cascade" /\ rec.user = u
        /\ rec.todo = {"enrollments", "reviews"} /\ rec.since = {}
        /\ rec.target = None
    BY Records DEF RequestRecord, PCs
  <2>2. Begin(r, "deleteUser", rec) /\ u \in registered
    BY <1>5 DEF DeleteUser
  <2>3. Moves(r, new) /\ At(r, "idle") /\ new \in RequestRecord
    BY <2>1, <2>2, Began DEF AllOps
  <2>4. new.op = "deleteUser" /\ new.pc = "cascade" /\ new.user = u
        /\ new.todo = {"enrollments", "reviews"} /\ new.since = {}
        /\ new.target = None
    BY <2>1 DEF RequestRecord
  <2>5. Shape(new)
    BY <2>4 DEF Shape
  <2> QED  BY <2>2, <2>3, <2>4, <2>5 DEF Starts
<1> QED  BY <1>1, <1>2, <1>3, <1>4, <1>5

\* A request arrives: nothing else changes.
LEMMA Arrivals ==
  ASSUME TypeInv, NEW r \in Requests, Arrive(r)
  PROVE  /\ \E new \in RequestRecord : Moves(r, new) /\ Starts(r, new)
         /\ UNCHANGED <<docVars, cacheVars, logVars, destroyed, raced, faultVars>>
         /\ reused \subseteq reused'
<1>1. \E new \in RequestRecord : Moves(r, new) /\ Starts(r, new)
  <2>1. ASSUME NEW g \in Groups, DeleteGroup(r, g)
        PROVE  \E new \in RequestRecord : Moves(r, new) /\ Starts(r, new)
    <3>1. PICK n \in Names : TRUE
      BY <2>1 DEF DeleteGroup, FoundGroup, TypeInv, TypeOK, GroupDoc
    <3> QED  BY <2>1, <3>1, GroupArrives
  <2>2. ASSUME NEW w \in Workshops, DeleteWorkshop(r, w)
        PROVE  \E new \in RequestRecord : Moves(r, new) /\ Starts(r, new)
    BY <2>2, WorkshopArrives, Records
  <2>3. ASSUME NEW w \in Workshops, NEW p \in Payloads,
               CreateWorkshop(r, w, p) \/ UpdateWorkshop(r, w, p)
        PROVE  \E new \in RequestRecord : Moves(r, new) /\ Starts(r, new)
    <3>1. p \in Payload
      BY CatalogAssumption
    <3> QED  BY <2>3, <3>1, WorkshopArrives
  <2>4. ASSUME NEW g \in Groups, NEW n \in Names,
               CreateGroup(r, g, n) \/ UpdateGroup(r, g, n)
        PROVE  \E new \in RequestRecord : Moves(r, new) /\ Starts(r, new)
    BY <2>4, GroupArrives
  <2> QED  BY <2>1, <2>2, <2>3, <2>4, OthersArrive DEF Arrive
<1>2. /\ UNCHANGED <<docVars, cacheVars, logVars, destroyed, raced, faultVars>>
      /\ reused \subseteq reused'
  BY DEF Arrive, CreateGroup, UpdateGroup, DeleteGroup, CreateWorkshop,
         UpdateWorkshop, Reuse, DeleteWorkshop, GetAllWorkshops, CreateReview,
         DeleteReview, UpdateReviewStatus, DeleteUser
<1> QED  BY <1>1, <1>2

-----------------------------------------------------------------------------
(***************************************************************************)
(* How a request goes on: it ends, or it keeps what it is about and takes  *)
(* its next step.                                                          *)
(***************************************************************************)
NextStep(r, new) ==
  LET req == request[r]
  IN \/ req.pc = "count" /\ new.pc = IF req.target \in Levels
                                     THEN "auditDelete" ELSE "softDelete"
     \/ req.pc = "auditDelete" /\ new.pc = "softDelete"
     \/ req.pc = "softDelete" /\ req.target \in Workshops /\ new.pc = "scan"
     \/ req.pc = "slug" /\ new.pc = IF req.op = "createWorkshop"
                                    THEN "insert" ELSE "write"
     \/ req.pc = "insert" /\ new.pc = "scan"
     \/ req.pc = "write" /\ new.pc = IF ToDelete(r) = {}
                                     THEN "scan" ELSE "destroy"
     \/ req.pc = "destroy" /\ new.pc = "scan"
     \/ req.pc = "scan" /\ new.pc = "purge" /\ new.keys = cached
     \/ req.pc = "query" /\ new.pc = "queryRest"
     \/ req.pc = "queryRest" /\ new.pc = "fill"
     \/ req.pc = "enrollment" /\ new.pc = "duplicate"
     \/ req.pc = "duplicate" /\ new.pc = "insertReview"
     \/ req.pc = "cascade" /\ new.pc = IF new.todo = {} THEN "saveUser"
                                                        ELSE "cascade"

GoesOn(r, new) ==
  LET req == request[r]
  IN /\ NextStep(r, new)
     /\ new.op = req.op /\ new.target = req.target /\ new.user = req.user
     /\ new.payload = req.payload /\ new.images = req.images
     /\ new.title = req.title
     /\ new.since = IF req.pc \in {"count", "query", "enrollment"}
                    THEN {} ELSE req.since
     /\ req.pc # "scan" => new.keys = req.keys
     /\ req.pc # "cascade" => new.todo = req.todo

Continues(r, new) ==
  request[r].op # "none" /\ new \in RequestRecord
  /\ (new = Done \/ GoesOn(r, new))

LEMMA Ended ==
  ASSUME TypeInv, NEW r \in Requests, Finish(r), request[r].op # "none"
  PROVE  \E new \in RequestRecord : Moves(r, new) /\ Continues(r, new)
BY Records, Went DEF Finish, Continues

\* A step that changes only the label.
LEMMA Labelled ==
  ASSUME TypeInv, NEW r \in Requests, NEW label \in PCs, Goto(r, label),
         request[r].op # "none",
         request[r].pc \notin {"count", "query", "enrollment", "scan", "cascade"},
         \A new \in RequestRecord : new.pc = label => NextStep(r, new)
  PROVE  \E new \in RequestRecord : Moves(r, new) /\ Continues(r, new)
<1> PICK new : new = [request[r] EXCEPT !.pc = label]
  OBVIOUS
<1>1. request[r] \in RequestRecord
  BY DEF TypeInv, TypeOK
<1>2. /\ new \in RequestRecord /\ new.pc = label /\ new.op = request[r].op
      /\ new.target = request[r].target /\ new.user = request[r].user
      /\ new.payload = request[r].payload /\ new.images = request[r].images
      /\ new.since = request[r].since /\ new.keys = request[r].keys
      /\ new.todo = request[r].todo /\ new.title = request[r].title
  BY <1>1 DEF RequestRecord
<1>3. Moves(r, new)
  BY <1>2, Went DEF Goto
<1>4. GoesOn(r, new)
  BY <1>2 DEF GoesOn
<1> QED  BY <1>2, <1>3, <1>4 DEF Continues

\* A step that changes the label and forgets who wrote before.
LEMMA Afresh ==
  ASSUME TypeInv, NEW r \in Requests, NEW label \in PCs,
         request' = [request EXCEPT ![r].pc = label, ![r].since = {}],
         request[r].op # "none",
         request[r].pc \in {"count", "query", "enrollment"},
         \A new \in RequestRecord : new.pc = label => NextStep(r, new)
  PROVE  \E new \in RequestRecord : Moves(r, new) /\ Continues(r, new)
<1> PICK new : new = [request[r] EXCEPT !.pc = label, !.since = {}]
  OBVIOUS
<1>1. request[r] \in RequestRecord
  BY DEF TypeInv, TypeOK
<1>2. /\ new \in RequestRecord /\ new.pc = label /\ new.op = request[r].op
      /\ new.target = request[r].target /\ new.user = request[r].user
      /\ new.payload = request[r].payload /\ new.images = request[r].images
      /\ new.since = {} /\ new.keys = request[r].keys
      /\ new.todo = request[r].todo /\ new.title = request[r].title
  BY <1>1 DEF RequestRecord
<1>3. request' = [request EXCEPT ![r] = new]
  BY <1>1 DEF TypeInv, TypeOK, RequestRecord
<1>4. Moves(r, new)
  BY <1>2, <1>3, Went
<1>5. GoesOn(r, new)
  BY <1>2 DEF GoesOn
<1> QED  BY <1>2, <1>4, <1>5 DEF Continues

\* A step that changes the label and overtakes the others.
LEMMA Overtakes ==
  ASSUME TypeInv, NEW r \in Requests, NEW label \in PCs,
         NEW x \in Workshops \cup Users,
         Overtake(r, [request[r] EXCEPT !.pc = label], x),
         request[r].op # "none",
         request[r].pc \notin {"count", "query", "enrollment", "scan", "cascade"},
         \A new \in RequestRecord : new.pc = label => NextStep(r, new)
  PROVE  \E new \in RequestRecord : Moves(r, new) /\ Continues(r, new)
<1> PICK new : new = [request[r] EXCEPT !.pc = label]
  OBVIOUS
<1>1. request[r] \in RequestRecord
  BY DEF TypeInv, TypeOK
<1>2. /\ new \in RequestRecord /\ new.pc = label /\ new.op = request[r].op
      /\ new.target = request[r].target /\ new.user = request[r].user
      /\ new.payload = request[r].payload /\ new.images = request[r].images
      /\ new.since = request[r].since /\ new.keys = request[r].keys
      /\ new.todo = request[r].todo /\ new.title = request[r].title
  BY <1>1 DEF RequestRecord
<1>3. Moves(r, new)
  BY <1>2, Overtook
<1>4. GoesOn(r, new)
  BY <1>2 DEF GoesOn
<1> QED  BY <1>2, <1>3, <1>4 DEF Continues

LEMMA GroupResumes ==
  ASSUME TypeInv, NEW r \in Requests,
         InsertGroup(r) \/ RenameGroup(r) \/ CountWorkshops(r)
         \/ AuditDelete(r) \/ SoftDeleteGroup(r) \/ SoftDeleteWorkshop(r)
  PROVE  \E new \in RequestRecord : Moves(r, new) /\ Continues(r, new)
<1>1. Shape(request[r])
  BY DEF TypeInv, Shapes
<1>2. CASE InsertGroup(r) \/ RenameGroup(r) \/ SoftDeleteGroup(r)
  BY <1>1, <1>2, Ended DEF InsertGroup, RenameGroup, SoftDeleteGroup, At, Shape
<1>3. CASE CountWorkshops(r)
  <2> PICK label : label = IF Target(r) \in Levels THEN "auditDelete"
                                                   ELSE "softDelete"
    OBVIOUS
  <2>1. request[r].pc = "count" /\ request[r].op # "none" /\ label \in PCs
    BY <1>1, <1>3 DEF CountWorkshops, At, Shape, PCs
  <2>2. \A new \in RequestRecord : new.pc = label => NextStep(r, new)
    BY <2>1 DEF NextStep, Target
  <2>3. CASE Finish(r)
    BY <2>1, <2>3, Ended
  <2>4. CASE request' = [request EXCEPT ![r].pc = label, ![r].since = {}]
    BY <2>1, <2>2, <2>4, Afresh
  <2> QED  BY <1>3, <2>3, <2>4 DEF CountWorkshops
<1>4. CASE AuditDelete(r)
  <2>1. request[r].pc = "auditDelete" /\ request[r].op # "none"
        /\ Goto(r, "softDelete") /\ "softDelete" \in PCs
    BY <1>1, <1>4 DEF AuditDelete, At, Shape, PCs
  <2>2. \A new \in RequestRecord : new.pc = "softDelete" => NextStep(r, new)
    BY <2>1 DEF NextStep
  <2> QED  BY <2>1, <2>2, Labelled
<1>5. CASE SoftDeleteWorkshop(r)
  <2>1. request[r].pc = "softDelete" /\ request[r].op # "none"
        /\ request[r].target \in Workshops /\ "scan" \in PCs
        /\ Overtake(r, [request[r] EXCEPT !.pc = "scan"], request[r].target)
    BY <1>1, <1>5 DEF SoftDeleteWorkshop, Target, At, Shape, PCs
  <2>2. \A new \in RequestRecord : new.pc = "scan" => NextStep(r, new)
    BY <2>1 DEF NextStep
  <2> QED  BY <2>1, <2>2, Overtakes
<1> QED  BY <1>2, <1>3, <1>4, <1>5

LEMMA WorkshopResumes ==
  ASSUME TypeInv, NEW r \in Requests,
         FindSlug(r) \/ InsertWorkshop(r) \/ WriteWorkshop(r) \/ DestroyImages(r)
  PROVE  \E new \in RequestRecord : Moves(r, new) /\ Continues(r, new)
<1>1. Shape(request[r]) /\ request[r] \in RequestRecord
  BY DEF TypeInv, TypeOK, Shapes
<1>2. CASE FindSlug(r)
  <2> PICK label : label = IF request[r].op = "createWorkshop" THEN "insert"
                                                               ELSE "write"
    OBVIOUS
  <2>1. request[r].pc = "slug" /\ request[r].op # "none" /\ label \in PCs
    BY <1>1, <1>2 DEF FindSlug, At, Shape, PCs
  <2>2. CASE Finish(r)
    BY <2>1, <2>2, Ended
  <2>3. ASSUME NEW n \in 0..99,
               request' = [request EXCEPT ![r].suffix = n, ![r].pc = label]
        PROVE  \E new \in RequestRecord : Moves(r, new) /\ Continues(r, new)
    <3> PICK new : new = [request[r] EXCEPT !.suffix = n, !.pc = label]
      OBVIOUS
    <3>0. n \in Nat
      OBVIOUS
    <3>1. /\ new \in RequestRecord /\ new.pc = label /\ new.op = request[r].op
          /\ new.target = request[r].target /\ new.user = request[r].user
          /\ new.payload = request[r].payload
          /\ new.images = request[r].images
          /\ new.since = request[r].since /\ new.keys = request[r].keys
          /\ new.todo = request[r].todo
      BY <1>1, <2>1, <3>0 DEF RequestRecord
    <3>2. request' = [request EXCEPT ![r] = new]
      BY <1>1, <2>3 DEF TypeInv, TypeOK, RequestRecord
    <3>3. Moves(r, new)
      BY <3>1, <3>2, Went
    <3>4. NextStep(r, new)
      BY <2>1, <3>1 DEF NextStep
    <3>5. GoesOn(r, new)
      BY <2>1, <3>1, <3>4 DEF GoesOn
    <3> QED  BY <2>1, <3>1, <3>3, <3>5 DEF Continues
  <2> QED  BY <1>2, <2>2, <2>3 DEF FindSlug
<1>3. CASE InsertWorkshop(r)
  <2>1. request[r].pc = "insert" /\ request[r].op # "none"
        /\ request[r].target \in Workshops /\ "scan" \in PCs
    BY <1>1, <1>3 DEF InsertWorkshop, At, Shape, PCs
  <2>2. \A new \in RequestRecord : new.pc = "scan" => NextStep(r, new)
    BY <2>1 DEF NextStep
  <2>3. CASE Finish(r)
    BY <2>1, <2>3, Ended
  <2>4. CASE Overtake(r, [request[r] EXCEPT !.pc = "scan"], request[r].target)
    BY <2>1, <2>2, <2>4, Overtakes
  <2> QED  BY <1>3, <2>3, <2>4 DEF InsertWorkshop, Target
<1>4. CASE WriteWorkshop(r)
  <2> PICK label : label = IF ToDelete(r) = {} THEN "scan" ELSE "destroy"
    OBVIOUS
  <2>1. request[r].pc = "write" /\ request[r].op # "none"
        /\ request[r].target \in Workshops /\ label \in PCs
    BY <1>1, <1>4 DEF WriteWorkshop, At, Shape, PCs
  <2>2. \A new \in RequestRecord : new.pc = label => NextStep(r, new)
    BY <2>1 DEF NextStep
  <2>3. CASE Finish(r)
    BY <2>1, <2>3, Ended
  <2>4. CASE Overtake(r, [request[r] EXCEPT !.pc = label], request[r].target)
    BY <2>1, <2>2, <2>4, Overtakes
  <2>5. CASE request' = [request EXCEPT ![r] = [request[r] EXCEPT !.pc = label]]
    <3>1. Goto(r, label)
      BY <2>5 DEF Goto
    <3> QED  BY <2>1, <2>2, <3>1, Labelled
  <2> QED  BY <1>4, <2>3, <2>4, <2>5 DEF WriteWorkshop, Target
<1>5. CASE DestroyImages(r)
  <2>1. request[r].pc = "destroy" /\ request[r].op # "none"
        /\ Goto(r, "scan") /\ "scan" \in PCs
    BY <1>1, <1>5 DEF DestroyImages, At, Shape, PCs
  <2>2. \A new \in RequestRecord : new.pc = "scan" => NextStep(r, new)
    BY <2>1 DEF NextStep
  <2> QED  BY <2>1, <2>2, Labelled
<1> QED  BY <1>2, <1>3, <1>4, <1>5

LEMMA CacheResumes ==
  ASSUME TypeInv, NEW r \in Requests,
         ScanCache(r) \/ PurgeCache(r) \/ QueryList(r) \/ QueryRest(r)
         \/ FillCache(r)
  PROVE  \E new \in RequestRecord : Moves(r, new) /\ Continues(r, new)
<1>1. Shape(request[r]) /\ request[r] \in RequestRecord
  BY DEF TypeInv, TypeOK, Shapes
<1>2. CASE PurgeCache(r) \/ FillCache(r)
  BY <1>1, <1>2, Ended DEF PurgeCache, FillCache, At, Shape
<1>3. CASE ScanCache(r)
  <2>1. request[r].pc = "scan" /\ request[r].op # "none" /\ "purge" \in PCs
        /\ cached \subseteq Keys
    BY <1>1, <1>3 DEF ScanCache, At, Shape, PCs, TypeInv, TypeOK
  <2>2. CASE Finish(r)
    BY <2>1, <2>2, Ended
  <2>3. CASE request' = [request EXCEPT ![r].pc = "purge", ![r].keys = cached]
    <3> PICK new : new = [request[r] EXCEPT !.pc = "purge", !.keys = cached]
      OBVIOUS
    <3>1. /\ new \in RequestRecord /\ new.pc = "purge" /\ new.op = request[r].op
          /\ new.target = request[r].target /\ new.user = request[r].user
          /\ new.payload = request[r].payload
          /\ new.images = request[r].images
          /\ new.since = request[r].since /\ new.keys = cached
          /\ new.todo = request[r].todo
      BY <1>1, <2>1 DEF RequestRecord
    <3>2. request' = [request EXCEPT ![r] = new]
      BY <1>1, <2>3 DEF TypeInv, TypeOK, RequestRecord
    <3>3. Moves(r, new)
      BY <3>1, <3>2, Went
    <3>4. NextStep(r, new)
      BY <2>1, <3>1 DEF NextStep
    <3>5. GoesOn(r, new)
      BY <2>1, <3>1, <3>4 DEF GoesOn
    <3> QED  BY <2>1, <3>1, <3>3, <3>5 DEF Continues
  <2> QED  BY <1>3, <2>2, <2>3 DEF ScanCache
<1>4. CASE QueryList(r)
  <2>1. request[r].pc = "query" /\ request[r].op # "none" /\ "queryRest" \in PCs
        /\ request' = [request EXCEPT ![r].pc = "queryRest", ![r].since = {}]
    BY <1>1, <1>4 DEF QueryList, At, Shape, PCs
  <2>2. \A new \in RequestRecord : new.pc = "queryRest" => NextStep(r, new)
    BY <2>1 DEF NextStep
  <2> QED  BY <2>1, <2>2, Afresh
<1>5. CASE QueryRest(r)
  <2>1. request[r].pc = "queryRest" /\ request[r].op # "none"
        /\ Goto(r, "fill") /\ "fill" \in PCs
    BY <1>1, <1>5 DEF QueryRest, At, Shape, PCs
  <2>2. \A new \in RequestRecord : new.pc = "fill" => NextStep(r, new)
    BY <2>1 DEF NextStep
  <2> QED  BY <2>1, <2>2, Labelled
<1> QED  BY <1>2, <1>3, <1>4, <1>5

LEMMA ReviewResumes ==
  ASSUME TypeInv, NEW r \in Requests,
         \/ CheckEnrollment(r) \/ CheckDuplicate(r) \/ WriteReview(r)
         \/ \E v \in Reviews : InsertReview(r, v)
         \/ \E c \in {"enrollments", "reviews"} : Cascade(r, c)
         \/ SaveUser(r)
  PROVE  \E new \in RequestRecord : Moves(r, new) /\ Continues(r, new)
<1>1. Shape(request[r]) /\ request[r] \in RequestRecord
  BY DEF TypeInv, TypeOK, Shapes
<1>2. CASE WriteReview(r) \/ SaveUser(r) \/ \E v \in Reviews : InsertReview(r, v)
  BY <1>1, <1>2, Ended DEF WriteReview, SaveUser, InsertReview, At, Shape
<1>3. CASE CheckEnrollment(r)
  <2>1. request[r].pc = "enrollment" /\ request[r].op # "none"
        /\ "duplicate" \in PCs
    BY <1>1, <1>3 DEF CheckEnrollment, At, Shape, PCs
  <2>2. \A new \in RequestRecord : new.pc = "duplicate" => NextStep(r, new)
    BY <2>1 DEF NextStep
  <2>3. CASE Finish(r)
    BY <2>1, <2>3, Ended
  <2>4. CASE request' = [request EXCEPT ![r].pc = "duplicate", ![r].since = {}]
    BY <2>1, <2>2, <2>4, Afresh
  <2> QED  BY <1>3, <2>3, <2>4 DEF CheckEnrollment
<1>4. CASE CheckDuplicate(r)
  <2>1. request[r].pc = "duplicate" /\ request[r].op # "none"
        /\ "insertReview" \in PCs
    BY <1>1, <1>4 DEF CheckDuplicate, At, Shape, PCs
  <2>2. \A new \in RequestRecord : new.pc = "insertReview" => NextStep(r, new)
    BY <2>1 DEF NextStep
  <2>3. CASE Finish(r)
    BY <2>1, <2>3, Ended
  <2>4. CASE Goto(r, "insertReview")
    BY <2>1, <2>2, <2>4, Labelled
  <2> QED  BY <1>4, <2>3, <2>4 DEF CheckDuplicate
<1>5. ASSUME NEW c \in {"enrollments", "reviews"}, Cascade(r, c)
      PROVE  \E new \in RequestRecord : Moves(r, new) /\ Continues(r, new)
  <2> PICK left : left = request[r].todo \ {c}
    OBVIOUS
  <2> PICK new : new = [request[r] EXCEPT !.todo = left,
                          !.pc = IF left = {} THEN "saveUser" ELSE "cascade"]
    OBVIOUS
  <2>1. request[r].pc = "cascade" /\ request[r].op # "none"
        /\ request[r].user \in Users /\ Overtake(r, new, request[r].user)
    BY <1>1, <1>5 DEF Cascade, At, Shape
  <2>2. /\ new \in RequestRecord /\ new.op = request[r].op
        /\ new.pc = IF left = {} THEN "saveUser" ELSE "cascade"
        /\ new.target = request[r].target /\ new.user = request[r].user
        /\ new.payload = request[r].payload
        /\ new.images = request[r].images
        /\ new.since = request[r].since /\ new.keys = request[r].keys
        /\ new.todo = left
    <3>1. left \subseteq {"enrollments", "reviews"}
      BY <1>1 DEF RequestRecord
    <3>2. "saveUser" \in PCs /\ "cascade" \in PCs
      BY DEF PCs
    <3> QED  BY <1>1, <3>1, <3>2 DEF RequestRecord
  <2>3. Moves(r, new)
    BY <2>1, <2>2, Overtook
  <2>4. NextStep(r, new)
    BY <2>1, <2>2 DEF NextStep
  <2>5. GoesOn(r, new)
    BY <2>1, <2>2, <2>4 DEF GoesOn
  <2> QED  BY <2>1, <2>2, <2>3, <2>5 DEF Continues
<1> QED  BY <1>2, <1>3, <1>4, <1>5

\* A request goes on, or dies.
LEMMA Resumptions ==
  ASSUME TypeInv, NEW r \in Requests, Resume(r) \/ Crash(r)
  PROVE  \E new \in RequestRecord : Moves(r, new) /\ Continues(r, new)
<1>1. CASE Crash(r)
  BY <1>1, Ended DEF Crash
<1> QED  BY <1>1, GroupResumes, WorkshopResumes, CacheResumes, ReviewResumes
         DEF Resume

-----------------------------------------------------------------------------
(***************************************************************************)
(* How a request changes the documents.                                    *)
(***************************************************************************)
Acts(r) == Arrive(r) \/ Resume(r) \/ Crash(r)

\* The requests under way are told that x was written.
Overtaken(r, x) ==
  \A q \in Requests \ {r} : request[q].op # "none" => x \in request'[q].since

GroupWritten(r, g) ==
  LET renamed == [group[g] EXCEPT !.name = request[r].payload.title]
  IN /\ g = Target(r)
     /\ \/ At(r, "insertGroup") /\ group'[g] = renamed
        \/ At(r, "renameGroup") /\ FoundGroup(g) /\ group'[g] = renamed
        \/ At(r, "softDelete") /\ group'[g] = [group[g] EXCEPT !.deleted = TRUE]

WorkshopWritten(r, w) ==
  LET req == request[r]
      p == req.payload
  IN /\ w = Target(r) /\ Overtaken(r, w) /\ Outdate(w)
     /\ destroyed' = destroyed
     /\ \/ /\ At(r, "insert")
           /\ ~SlugTaken(w, SlugOf[p.title], req.suffix)
           /\ workshop'[w] = [title |-> p.title, suffix |-> req.suffix,
                              category |-> p.category, level |-> p.level,
                              images |-> p.add, deleted |-> FALSE]
           /\ request'[r].pc = "scan" /\ raced' = raced
        \/ /\ At(r, "write") /\ FoundWorkshop(w)
           /\ p.title # None => ~SlugTaken(w, SlugOf[p.title], req.suffix)
           /\ workshop'[w] = Updated(workshop[w], req)
           /\ request'[r].pc \in {"scan", "destroy"}
           /\ raced' = IF p.lists /\ w \in req.since
                       THEN raced \cup {w} ELSE raced
        \/ /\ At(r, "softDelete")
           /\ workshop'[w] = [workshop[w] EXCEPT !.deleted = TRUE]
           /\ request'[r].pc = "scan" /\ raced' = raced

WorkshopsAside ==
  workshop' = workshop /\ raced' = raced

\* Overtaking, seen from those who are overtaken.
LEMMA OvertakenBy ==
  ASSUME TypeInv, NEW r \in Requests, NEW new, NEW x, Overtake(r, new, x)
  PROVE  Overtaken(r, x) /\ request'[r] = new
<1>1. ASSUME NEW q \in Requests \ {r}, request[q].op # "none"
      PROVE  x \in request'[q].since
  <2>1. request[q] \in RequestRecord
    BY DEF TypeInv, TypeOK
  <2>2. request'[q] = [request[q] EXCEPT !.since = request[q].since \cup {x}]
    BY <1>1 DEF Overtake
  <2> QED  BY <2>1, <2>2 DEF RequestRecord
<1>2. request'[r] = new
  BY DEF Overtake
<1> QED  BY <1>1, <1>2 DEF Overtaken

LEMMA Untouched ==
  ASSUME TypeInv, NEW r \in Requests, Acts(r)
  PROVE  /\ group' = group \/ InsertGroup(r) \/ RenameGroup(r)
            \/ SoftDeleteGroup(r)
         /\ WorkshopsAside \/ InsertWorkshop(r) \/ WriteWorkshop(r)
            \/ SoftDeleteWorkshop(r)
         /\ UNCHANGED cacheVars \/ InsertWorkshop(r) \/ WriteWorkshop(r)
            \/ SoftDeleteWorkshop(r) \/ ScanCache(r) \/ PurgeCache(r)
            \/ FillCache(r) \/ (MustPurge(r) /\ Crash(r))
         /\ UNCHANGED logVars \/ AuditDelete(r)
         /\ destroyed' = destroyed \/ DestroyImages(r)
         /\ reused' = reused \/ Arrive(r)
         /\ enrolled' = enrolled
            \/ \E c \in {"enrollments", "reviews"} : Cascade(r, c)
         /\ review' = review \/ WriteReview(r)
            \/ (\E v \in Reviews : InsertReview(r, v))
            \/ \E c \in {"enrollments", "reviews"} : Cascade(r, c)
         /\ registered' = registered \/ SaveUser(r)
         /\ UNCHANGED faultVars \/ Crash(r)
<1>1. CASE Arrive(r)
  BY <1>1, Arrivals DEF WorkshopsAside
<1>2. CASE Crash(r)
  BY <1>2 DEF Crash, WorkshopsAside
<1>3. CASE InsertGroup(r) \/ RenameGroup(r) \/ SoftDeleteGroup(r)
  BY <1>3 DEF InsertGroup, RenameGroup, SoftDeleteGroup, WorkshopsAside
<1>4. CASE CountWorkshops(r) \/ AuditDelete(r)
  BY <1>4 DEF CountWorkshops, AuditDelete, WorkshopsAside
<1>5. CASE SoftDeleteWorkshop(r) \/ InsertWorkshop(r) \/ WriteWorkshop(r)
  BY <1>5 DEF SoftDeleteWorkshop, InsertWorkshop, WriteWorkshop
<1>6. CASE FindSlug(r) \/ DestroyImages(r)
  BY <1>6 DEF FindSlug, DestroyImages, WorkshopsAside
<1>7. CASE ScanCache(r) \/ PurgeCache(r) \/ FillCache(r)
  BY <1>7 DEF ScanCache, PurgeCache, FillCache, WorkshopsAside
<1>8. CASE QueryList(r) \/ QueryRest(r) \/ CheckEnrollment(r) \/ CheckDuplicate(r)
  BY <1>8 DEF QueryList, QueryRest, CheckEnrollment, CheckDuplicate,
              WorkshopsAside
<1>9. CASE WriteReview(r) \/ SaveUser(r)
  BY <1>9 DEF WriteReview, SaveUser, WorkshopsAside
<1>10. CASE \E v \in Reviews : InsertReview(r, v)
  BY <1>10 DEF InsertReview, WorkshopsAside
<1>11. CASE \E c \in {"enrollments", "reviews"} : Cascade(r, c)
  BY <1>11 DEF Cascade, WorkshopsAside
<1> QED  BY <1>1, <1>2, <1>3, <1>4, <1>5, <1>6, <1>7, <1>8, <1>9, <1>10, <1>11
         DEF Acts, Resume

\* At most the document the request is about is written.
LEMMA GroupStep ==
  ASSUME TypeInv, NEW r \in Requests, Acts(r)
  PROVE  /\ group' \in [Groups -> GroupDoc]
         /\ \A g \in Groups : group'[g] = group[g] \/ GroupWritten(r, g)
<1>0. group \in [Groups -> GroupDoc] /\ Shape(request[r]) /\ Created(request[r])
  BY DEF TypeInv, TypeOK, Shapes
<1> PICK g : g = Target(r)
  OBVIOUS
<1> PICK name : name = request[r].payload.title
  OBVIOUS
<1>1. ASSUME group' = [group EXCEPT ![g].name = name], name \in Names,
             At(r, "insertGroup") \/ (At(r, "renameGroup") /\ FoundGroup(g))
      PROVE  /\ group' \in [Groups -> GroupDoc]
             /\ \A h \in Groups : group'[h] = group[h] \/ GroupWritten(r, h)
  BY <1>0, <1>1 DEF GroupDoc, GroupWritten
<1>2. CASE group' = group
  BY <1>0, <1>2
<1>3. CASE InsertGroup(r)
  <2>1. name \in Names /\ At(r, "insertGroup")
    BY <1>0, <1>3 DEF InsertGroup, Shape, At
  <2> QED  BY <1>1, <1>2, <1>3, <2>1 DEF InsertGroup
<1>4. CASE RenameGroup(r)
  <2>1. name \in Names /\ At(r, "renameGroup")
    BY <1>0, <1>4 DEF RenameGroup, Shape, At
  <2> QED  BY <1>1, <1>2, <1>4, <2>1 DEF RenameGroup
<1>5. CASE SoftDeleteGroup(r)
  <2>1. At(r, "softDelete") /\ g \in Groups
        /\ group' = [group EXCEPT ![g].deleted = TRUE]
    BY <1>5 DEF SoftDeleteGroup
  <2>2. group[g].name # None
    BY <1>0, <2>1 DEF Created, At, Target
  <2>3. group'[g] = [group[g] EXCEPT !.deleted = TRUE]
        /\ \A h \in Groups \ {g} : group'[h] = group[h]
    BY <1>0, <2>1
  <2>4. group'[g] \in GroupDoc
    BY <1>0, <2>1, <2>2, <2>3 DEF GroupDoc
  <2>5. group' \in [Groups -> GroupDoc]
    BY <1>0, <2>1, <2>3, <2>4
  <2> QED  BY <2>1, <2>3, <2>5 DEF GroupWritten
<1> QED  BY <1>2, <1>3, <1>4, <1>5, Untouched

LEMMA WorkshopStep ==
  ASSUME TypeInv, NEW r \in Requests, Acts(r)
  PROVE  /\ workshop' \in [Workshops -> WorkshopDoc]
         /\ \/ WorkshopsAside
            \/ \E w \in Workshops :
                 /\ WorkshopWritten(r, w)
                 /\ \A v \in Workshops \ {w} : workshop'[v] = workshop[v]
<1>0. /\ workshop \in [Workshops -> WorkshopDoc] /\ request[r] \in RequestRecord
      /\ Shape(request[r]) /\ Created(request[r])
  BY DEF TypeInv, TypeOK, Shapes
<1> PICK w : w = Target(r)
  OBVIOUS
<1> PICK p : p = request[r].payload
  OBVIOUS
<1>1. p \in Payload /\ request[r].suffix \in Nat /\ request[r].images \subseteq Images
  BY <1>0 DEF RequestRecord
<1>2. CASE InsertWorkshop(r)
  <2> PICK doc : doc = [title |-> p.title, suffix |-> request[r].suffix,
                        category |-> p.category, level |-> p.level,
                        images |-> p.add, deleted |-> FALSE]
    OBVIOUS
  <2>1. At(r, "insert") /\ w \in Workshops /\ p.title \in Names
        /\ p.category \in Categories /\ p.level \in Levels
    BY <1>0, <1>2 DEF InsertWorkshop, Shape, At, Target
  <2>2. doc \in WorkshopDoc
    BY <1>1, <2>1 DEF WorkshopDoc, Payload
  <2>3. CASE UNCHANGED docVars
    BY <1>0, <1>2, <2>3 DEF InsertWorkshop, WorkshopsAside
  <2>4. CASE /\ workshop' = [workshop EXCEPT ![w] = doc]
             /\ ~SlugTaken(w, SlugOf[p.title], request[r].suffix)
             /\ Outdate(w) /\ Overtake(r, [request[r] EXCEPT !.pc = "scan"], w)
    <3>1. workshop' \in [Workshops -> WorkshopDoc]
          /\ workshop'[w] = doc
          /\ \A v \in Workshops \ {w} : workshop'[v] = workshop[v]
      BY <1>0, <2>1, <2>2, <2>4
    <3>2. Overtaken(r, w) /\ request'[r] = [request[r] EXCEPT !.pc = "scan"]
      BY <2>4, OvertakenBy
    <3>3. request'[r].pc = "scan"
      BY <1>0, <3>2 DEF RequestRecord
    <3>4. raced' = raced /\ destroyed' = destroyed
      BY <1>2 DEF InsertWorkshop
    <3>5. WorkshopWritten(r, w)
      BY <2>1, <2>4, <3>1, <3>2, <3>3, <3>4 DEF WorkshopWritten
    <3> QED  BY <2>1, <3>1, <3>5
  <2> QED  BY <1>2, <2>3, <2>4 DEF InsertWorkshop
<1>3. CASE WriteWorkshop(r)
  <2> PICK next : next = [request[r] EXCEPT
         !.pc = IF ToDelete(r) = {} THEN "scan" ELSE "destroy"]
    OBVIOUS
  <2>1. At(r, "write") /\ w \in Workshops
    BY <1>0, <1>3 DEF WriteWorkshop, Shape, At, Target
  <2>2. CASE UNCHANGED <<docVars, raced>>
    BY <1>0, <2>2 DEF WorkshopsAside
  <2>3. CASE /\ FoundWorkshop(w)
             /\ p.title # None => ~SlugTaken(w, SlugOf[p.title], request[r].suffix)
             /\ workshop' = [workshop EXCEPT ![w] = Updated(@, request[r])]
             /\ raced' = IF p.lists /\ w \in request[r].since
                         THEN raced \cup {w} ELSE raced
             /\ Outdate(w) /\ Overtake(r, next, w)
    <3> PICK doc : doc = Updated(workshop[w], request[r])
      OBVIOUS
    <3>1. doc \in WorkshopDoc
      <4> PICK images : images = IF p.lists THEN FinalImages(request[r].images, p)
                                 ELSE workshop[w].images
        OBVIOUS
      <4>1. images \subseteq Images
        BY <1>0, <1>1, <2>1 DEF FinalImages, Payload, WorkshopDoc
      <4>2. workshop[w] \in [title : Names, suffix : Nat, category : Categories,
                             level : Levels, images : SUBSET Images,
                             deleted : BOOLEAN]
        BY <1>0, <2>1, <2>3 DEF WorkshopDoc, FoundWorkshop
      <4> PICK title : title = IF p.title = None THEN workshop[w].title
                               ELSE p.title
        OBVIOUS
      <4> PICK suffix : suffix = IF p.title = None THEN workshop[w].suffix
                                 ELSE request[r].suffix
        OBVIOUS
      <4> PICK category : category = IF p.category = None
                                     THEN workshop[w].category ELSE p.category
        OBVIOUS
      <4> PICK level : level = IF p.level = None THEN workshop[w].level
                               ELSE p.level
        OBVIOUS
      <4>3. title \in Names /\ suffix \in Nat
        BY <1>1, <4>2 DEF Payload
      <4>4. category \in Categories /\ level \in Levels
        BY <1>1, <4>2 DEF Payload
      <4>5. doc = [workshop[w] EXCEPT !.title = title, !.suffix = suffix,
                     !.category = category, !.level = level, !.images = images]
        BY DEF Updated
      <4>6. doc = [title |-> title, suffix |-> suffix, category |-> category,
                   level |-> level, images |-> images,
                   deleted |-> workshop[w].deleted]
        BY <4>2, <4>5
      <4>7. workshop[w].deleted \in BOOLEAN
        BY <4>2
      <4>8. doc \in [title : Names, suffix : Nat, category : Categories,
                    level : Levels, images : SUBSET Images, deleted : BOOLEAN]
        BY <4>1, <4>3, <4>4, <4>6, <4>7
      <4> QED  BY <4>8 DEF WorkshopDoc
    <3>2. workshop' \in [Workshops -> WorkshopDoc] /\ workshop'[w] = doc
          /\ \A v \in Workshops \ {w} : workshop'[v] = workshop[v]
      BY <1>0, <2>1, <2>3, <3>1
    <3>3. Overtaken(r, w) /\ request'[r] = next
      BY <2>3, OvertakenBy
    <3>4. request'[r].pc \in {"scan", "destroy"}
      BY <1>0, <3>3 DEF RequestRecord
    <3>5. destroyed' = destroyed
      BY <1>3 DEF WriteWorkshop
    <3>6. WorkshopWritten(r, w)
      BY <2>1, <2>3, <3>2, <3>3, <3>4, <3>5 DEF WorkshopWritten
    <3> QED  BY <2>1, <3>2, <3>6
  <2> QED  BY <1>3, <2>2, <2>3 DEF WriteWorkshop
<1>4. CASE SoftDeleteWorkshop(r)
  <2>1. /\ At(r, "softDelete") /\ w \in Workshops
        /\ workshop' = [workshop EXCEPT ![w].deleted = TRUE]
        /\ Outdate(w) /\ Overtake(r, [request[r] EXCEPT !.pc = "scan"], w)
        /\ raced' = raced /\ destroyed' = destroyed
    BY <1>4 DEF SoftDeleteWorkshop
  <2>2. workshop[w].title # None
    BY <1>0, <2>1 DEF Created, At, Target
  <2>3. workshop'[w] = [workshop[w] EXCEPT !.deleted = TRUE]
        /\ \A v \in Workshops \ {w} : workshop'[v] = workshop[v]
    BY <1>0, <2>1
  <2>4. workshop'[w] \in WorkshopDoc
    BY <1>0, <2>1, <2>2, <2>3 DEF WorkshopDoc
  <2>5. workshop' \in [Workshops -> WorkshopDoc]
    BY <1>0, <2>1, <2>3, <2>4
  <2>6. Overtaken(r, w) /\ request'[r] = [request[r] EXCEPT !.pc = "scan"]
    BY <2>1, OvertakenBy
  <2>7. request'[r].pc = "scan"
    BY <1>0, <2>6 DEF RequestRecord
  <2>8. WorkshopWritten(r, w)
    BY <2>1, <2>3, <2>6, <2>7 DEF WorkshopWritten
  <2> QED  BY <2>1, <2>3, <2>5, <2>8
<1>5. CASE WorkshopsAside
  BY <1>0, <1>5 DEF WorkshopsAside
<1> QED  BY <1>2, <1>3, <1>4, <1>5, Untouched

\* Reviews are written, changed or hidden; users leave.
ReviewWritten(r, v) ==
  \/ /\ At(r, "insertReview") /\ review[v] = NoReview
     /\ review'[v] = Pending(r)
  \/ /\ At(r, "writeReview") /\ v = Target(r) /\ FoundReview(v)
     /\ review'[v] = Changed(review[v], request[r])
  \/ /\ At(r, "cascade") /\ v \in ReviewsOf(request[r].user)
     /\ review'[v] = [review[v] EXCEPT !.deleted = TRUE]

CascadeStep(r, c) ==
  LET u == request[r].user
  IN /\ At(r, "cascade") /\ c \in request[r].todo
     /\ request'[r].todo = request[r].todo \ {c}
     /\ Overtaken(r, u)
     /\ c = "enrollments" => enrolled' = [enrolled EXCEPT ![u] = {}]
                             /\ review' = review
     /\ c = "reviews" => enrolled' = enrolled
                         /\ \A v \in ReviewsOf(u) : review'[v].deleted

LEMMA Cascaded ==
  ASSUME TypeInv, NEW r \in Requests, NEW c \in {"enrollments", "reviews"},
         Cascade(r, c)
  PROVE  /\ review' \in [Reviews -> ReviewDoc]
         /\ enrolled' \in [Users -> SUBSET Workshops]
         /\ \A x \in Reviews : review'[x] = review[x] \/ ReviewWritten(r, x)
         /\ CascadeStep(r, c)
<1>0. /\ review \in [Reviews -> ReviewDoc] /\ request[r] \in RequestRecord
      /\ enrolled \in [Users -> SUBSET Workshops] /\ Shape(request[r])
  BY DEF TypeInv, TypeOK, Shapes
<1> PICK u : u = request[r].user
  OBVIOUS
<1> PICK left : left = request[r].todo \ {c}
  OBVIOUS
<1> PICK new : new = [request[r] EXCEPT !.todo = left,
                        !.pc = IF left = {} THEN "saveUser" ELSE "cascade"]
  OBVIOUS
<1>1. At(r, "cascade") /\ c \in request[r].todo /\ Overtake(r, new, u)
  BY DEF Cascade
<1>2. Overtaken(r, u) /\ request'[r] = new
  BY <1>1, OvertakenBy
<1>3. request'[r].todo = left
  BY <1>0, <1>2 DEF RequestRecord
<1>4. u \in Users
  BY <1>0, <1>1 DEF Shape, At
<1>5. CASE c = "enrollments"
  <2>1. enrolled' = [enrolled EXCEPT ![u] = {}] /\ review' = review
    BY <1>5 DEF Cascade
  <2>2. CascadeStep(r, c)
    BY <1>1, <1>2, <1>3, <1>5, <2>1 DEF CascadeStep
  <2>3. enrolled' \in [Users -> SUBSET Workshops]
    BY <1>0, <1>4, <2>1
  <2> QED  BY <1>0, <2>1, <2>2, <2>3
<1>6. CASE c = "reviews"
  <2>1. enrolled' = enrolled
        /\ review' = [v \in Reviews |-> IF v \in ReviewsOf(u)
                        THEN [review[v] EXCEPT !.deleted = TRUE]
                        ELSE review[v]]
    BY <1>6 DEF Cascade
  <2>2. ASSUME NEW v \in Reviews
        PROVE  /\ review'[v] \in ReviewDoc
               /\ review'[v] = review[v] \/ ReviewWritten(r, v)
               /\ v \in ReviewsOf(u) => review'[v].deleted
    <3>1. CASE v \in ReviewsOf(u)
      <4>1. review[v] \in [user : Users, workshop : Workshops,
                           status : {"PENDING", "APPROVED", "REJECTED"},
                           deleted : BOOLEAN, overtaken : BOOLEAN]
        BY <1>0, <3>1 DEF ReviewsOf, FoundReview, ReviewDoc, NoReview
      <4>2. review'[v] = [review[v] EXCEPT !.deleted = TRUE]
        BY <2>1, <3>1
      <4>3. review'[v] \in ReviewDoc /\ review'[v].deleted
        BY <4>1, <4>2 DEF ReviewDoc
      <4> QED  BY <1>1, <3>1, <4>2, <4>3 DEF ReviewWritten
    <3>2. CASE v \notin ReviewsOf(u)
      BY <1>0, <2>1, <3>2
    <3> QED  BY <3>1, <3>2
  <2>3. review' \in [Reviews -> ReviewDoc]
    BY <2>1, <2>2
  <2>4. \A v \in ReviewsOf(u) : review'[v].deleted
    BY <2>2 DEF ReviewsOf
  <2>5. CascadeStep(r, c)
    BY <1>1, <1>2, <1>3, <1>6, <2>1, <2>4 DEF CascadeStep
  <2> QED  BY <1>0, <2>1, <2>2, <2>3, <2>5
<1> QED  BY <1>5, <1>6

LEMMA ReviewStep ==
  ASSUME TypeInv, NEW r \in Requests, Acts(r)
  PROVE  /\ review' \in [Reviews -> ReviewDoc]
         /\ enrolled' \in [Users -> SUBSET Workshops]
         /\ \A v \in Reviews : review'[v] = review[v] \/ ReviewWritten(r, v)
         /\ \/ review' = review /\ enrolled' = enrolled
            \/ enrolled' = enrolled /\ request'[r] = Done
               /\ request[r].pc \in {"insertReview", "writeReview"}
            \/ \E c \in {"enrollments", "reviews"} : CascadeStep(r, c)
<1>0. /\ review \in [Reviews -> ReviewDoc] /\ request[r] \in RequestRecord
      /\ enrolled \in [Users -> SUBSET Workshops]
      /\ request \in [Requests -> RequestRecord]
      /\ Shape(request[r])
  BY DEF TypeInv, TypeOK, Shapes
<1> PICK u : u = request[r].user
  OBVIOUS
<1>1. ASSUME NEW v \in Reviews, InsertReview(r, v)
      PROVE  /\ review' \in [Reviews -> ReviewDoc]
             /\ \A x \in Reviews : review'[x] = review[x] \/ ReviewWritten(r, x)
             /\ enrolled' = enrolled /\ request'[r] = Done
             /\ At(r, "insertReview")
  <2>1. At(r, "insertReview") /\ review[v].user = None /\ enrolled' = enrolled
    BY <1>1 DEF InsertReview
  <2>2. request'[r] = Done
    BY <1>0, <1>1 DEF InsertReview, Finish
  <2>3. u \in Users /\ Target(r) \in Workshops
    BY <1>0, <2>1 DEF Shape, At, Target
  <2>4. review[v] = NoReview
    BY <1>0, <2>1, DistinctIds DEF ReviewDoc
  <2>5. Pending(r) \in ReviewDoc
    BY <2>3 DEF Pending, ReviewDoc
  <2>6. CASE review' = review
    BY <1>0, <2>1, <2>2, <2>6
  <2>7. CASE review' = [review EXCEPT ![v] = Pending(r)]
    BY <1>0, <2>1, <2>2, <2>4, <2>5, <2>7 DEF ReviewWritten
  <2> QED  BY <1>1, <2>6, <2>7 DEF InsertReview
<1>2. CASE WriteReview(r)
  <2> PICK v : v = Target(r)
    OBVIOUS
  <2>1. At(r, "writeReview") /\ enrolled' = enrolled
    BY <1>2 DEF WriteReview
  <2>2. request'[r] = Done
    BY <1>0, <1>2 DEF WriteReview, Finish
  <2>3. v \in Reviews
    BY <1>0, <2>1 DEF Shape, At, Target
  <2>4. CASE review' = review
    BY <1>0, <2>1, <2>2, <2>4, At(r, "writeReview") DEF At
  <2>5. CASE FoundReview(v)
             /\ review' = [review EXCEPT ![v] = Changed(@, request[r])]
    <3> PICK doc : doc = Changed(review[v], request[r])
      OBVIOUS
    <3>1. doc \in ReviewDoc
      <4>1. review[v] \in [user : Users, workshop : Workshops,
                           status : {"PENDING", "APPROVED", "REJECTED"},
                           deleted : BOOLEAN, overtaken : BOOLEAN]
        BY <1>0, <2>3, <2>5 DEF ReviewDoc, FoundReview, NoReview
      <4>2. request[r].status \in {"PENDING", "APPROVED", "REJECTED"}
        BY <1>0 DEF RequestRecord
      <4>3. doc = IF request[r].op = "deleteReview"
                  THEN [review[v] EXCEPT !.deleted = TRUE]
                  ELSE [review[v] EXCEPT !.status = request[r].status]
        BY DEF Changed
      <4>4. CASE request[r].op = "deleteReview"
        BY <4>1, <4>3, <4>4 DEF ReviewDoc
      <4>5. CASE request[r].op # "deleteReview"
        BY <4>1, <4>2, <4>3, <4>5 DEF ReviewDoc
      <4> QED  BY <4>4, <4>5
    <3>2. review' = [review EXCEPT ![v] = doc]
      BY <1>0, <2>3, <2>5
    <3>3. review' \in [Reviews -> ReviewDoc]
          /\ \A x \in Reviews : review'[x] = review[x] \/ ReviewWritten(r, x)
      BY <1>0, <2>1, <2>3, <2>5, <3>1, <3>2 DEF ReviewWritten
    <3> QED  BY <1>0, <2>1, <2>2, <3>3 DEF At
  <2> QED  BY <1>2, <2>4, <2>5 DEF WriteReview
<1>3. ASSUME NEW c \in {"enrollments", "reviews"}, Cascade(r, c)
      PROVE  /\ review' \in [Reviews -> ReviewDoc]
             /\ enrolled' \in [Users -> SUBSET Workshops]
             /\ \A x \in Reviews : review'[x] = review[x] \/ ReviewWritten(r, x)
             /\ CascadeStep(r, c)
  BY <1>3, Cascaded
<1>4. CASE review' = review /\ enrolled' = enrolled
  BY <1>0, <1>4
<1>5. (review' = review /\ enrolled' = enrolled) \/ WriteReview(r)
      \/ (\E v \in Reviews : InsertReview(r, v))
      \/ \E c \in {"enrollments", "reviews"} : Cascade(r, c)
  BY Untouched DEF WriteReview, InsertReview
<1>6. CASE \E v \in Reviews : InsertReview(r, v)
  BY <1>0, <1>1, <1>6 DEF At
<1>7. CASE \E c \in {"enrollments", "reviews"} : Cascade(r, c)
  BY <1>3, <1>7
<1>8. CASE WriteReview(r)
  BY <1>0, <1>2, <1>8
<1> QED  BY <1>4, <1>5, <1>6, <1>7, <1>8

LEMMA Renamed ==
  ASSUME TypeInv, NEW r \in Requests, Acts(r)
  PROVE  NamesStay
<1>0. /\ group \in [Groups -> GroupDoc] /\ workshop \in [Workshops -> WorkshopDoc]
      /\ request[r] \in RequestRecord /\ Shape(request[r])
  BY DEF TypeInv, TypeOK, Shapes
<1>1. ASSUME NEW g \in Groups, group[g].name # None PROVE group'[g].name # None
  <2>1. CASE group'[g] = group[g]
    BY <1>1, <2>1
  <2>2. CASE GroupWritten(r, g)
    <3>1. CASE At(r, "softDelete")
                 /\ group'[g] = [group[g] EXCEPT !.deleted = TRUE]
      BY <1>0, <1>1, <3>1 DEF GroupDoc
    <3>2. CASE (At(r, "insertGroup") \/ At(r, "renameGroup"))
                 /\ group'[g] = [group[g] EXCEPT !.name = request[r].payload.title]
      <4>1. request[r].payload.title \in Names
        BY <1>0, <3>2 DEF Shape, At
      <4>2. request[r].payload.title # None
        BY <4>1, DistinctIds
      <4> QED  BY <1>0, <3>2, <4>2 DEF GroupDoc
    <3> QED  BY <2>2, <3>1, <3>2 DEF GroupWritten
  <2> QED  BY <2>1, <2>2, GroupStep
<1>2. ASSUME NEW w \in Workshops, workshop[w].title # None
      PROVE  workshop'[w].title # None
  <2>1. CASE workshop'[w] = workshop[w]
    BY <1>2, <2>1
  <2>2. CASE WorkshopWritten(r, w)
    <3>1. CASE At(r, "insert") /\ workshop'[w].title = request[r].payload.title
      <4>1. request[r].payload.title \in Names
        BY <1>0, <3>1 DEF Shape, At
      <4> QED  BY <3>1, <4>1, DistinctIds
    <3>2. CASE workshop'[w] = [workshop[w] EXCEPT !.deleted = TRUE]
      BY <1>0, <1>2, <3>2 DEF WorkshopDoc
    <3>3. CASE workshop'[w] = Updated(workshop[w], request[r])
      BY <1>0, <1>2, <3>3 DEF Updated, WorkshopDoc
    <3> QED  BY <2>2, <3>1, <3>2, <3>3 DEF WorkshopWritten
  <2> QED  BY <2>1, <2>2, WorkshopStep DEF WorkshopsAside
<1> QED  BY <1>1, <1>2 DEF NamesStay

LEMMA RequestTypes ==
  ASSUME TypeInv, NEW r \in Requests, Acts(r)
  PROVE  request' \in [Requests -> RequestRecord] /\ Shapes'
<1>0. Shape(request[r]) /\ Created(request[r]) /\ request[r] \in RequestRecord
  BY DEF TypeInv, TypeOK, Shapes
<1>1. NamesStay
  BY Renamed
<1>2. ASSUME NEW new \in RequestRecord, Moves(r, new), Starts(r, new)
      PROVE  request' \in [Requests -> RequestRecord] /\ Shapes'
  <2>1. Created(new)
    BY <1>2, DistinctIds DEF Created, Starts, FoundGroup, FoundWorkshop
  <2>2. Created(new)'
    BY <1>1, <2>1 DEF Created, NamesStay
  <2> QED  BY <1>1, <1>2, <2>2, MovesTypes DEF Starts
<1>3. ASSUME NEW new \in RequestRecord, Moves(r, new), Continues(r, new)
      PROVE  request' \in [Requests -> RequestRecord] /\ Shapes'
  <2>1. CASE new = Done
    <3>1. Shape(new) /\ Created(new)'
      BY <2>1, Records DEF Created
    <3> QED  BY <1>1, <1>3, <3>1, MovesTypes
  <2>2. CASE GoesOn(r, new)
    <3>1. Shape(new)
      <4>1. CASE request[r].pc \in {"count", "auditDelete", "softDelete"}
        BY <1>0, <2>2, <4>1 DEF GoesOn, NextStep, Shape, Groups
      <4>2. CASE request[r].pc \in {"slug", "insert", "write"}
        BY <1>0, <2>2, <4>2 DEF GoesOn, NextStep, Shape
      <4>3. CASE request[r].pc \in {"destroy", "scan", "query", "queryRest"}
        BY <1>0, <2>2, <4>3 DEF GoesOn, NextStep, Shape
      <4>4. CASE request[r].pc \in {"enrollment", "duplicate", "cascade"}
        BY <1>0, <2>2, <4>4 DEF GoesOn, NextStep, Shape
      <4> QED  BY <2>2, <4>1, <4>2, <4>3, <4>4 DEF GoesOn, NextStep
    <3>2. Created(new)
      BY <1>0, <2>2, DistinctIds DEF GoesOn, NextStep, Shape, Created
    <3>3. Created(new)'
      BY <1>1, <3>2 DEF Created, NamesStay
    <3> QED  BY <1>1, <1>3, <3>1, <3>3, MovesTypes
  <2> QED  BY <1>3, <2>1, <2>2 DEF Continues
<1> QED  BY <1>2, <1>3, Arrivals, Resumptions DEF Acts

LEMMA CacheTypes ==
  ASSUME TypeInv, NEW r \in Requests, Acts(r)
  PROVE  /\ cached' \subseteq Keys
         /\ missing' \in [Keys -> SUBSET Workshops]
         /\ excused' \in [Keys -> SUBSET Workshops]
<1>0. /\ Shape(request[r]) /\ request[r] \in RequestRecord
      /\ cached \subseteq Keys /\ missing \in [Keys -> SUBSET Workshops]
      /\ excused \in [Keys -> SUBSET Workshops]
  BY DEF TypeInv, TypeOK, Shapes
<1>1. ASSUME Excuse(r), Target(r) \in Workshops
      PROVE  /\ cached' \subseteq Keys
             /\ missing' \in [Keys -> SUBSET Workshops]
             /\ excused' \in [Keys -> SUBSET Workshops]
  BY <1>0, <1>1 DEF Excuse
<1>2. CASE UNCHANGED cacheVars
  BY <1>0, <1>2
<1>3. ASSUME NEW w \in Workshops, Outdate(w)
      PROVE  /\ cached' \subseteq Keys
             /\ missing' \in [Keys -> SUBSET Workshops]
             /\ excused' \in [Keys -> SUBSET Workshops]
  BY <1>0, <1>3 DEF Outdate
<1>4. ASSUME InsertWorkshop(r) \/ WriteWorkshop(r) \/ SoftDeleteWorkshop(r)
      PROVE  /\ cached' \subseteq Keys
             /\ missing' \in [Keys -> SUBSET Workshops]
             /\ excused' \in [Keys -> SUBSET Workshops]
  <2>1. Target(r) \in Workshops
    BY <1>0, <1>4 DEF InsertWorkshop, WriteWorkshop, SoftDeleteWorkshop, At,
                      Target, Shape
  <2>2. Outdate(Target(r)) \/ UNCHANGED cacheVars
    BY <1>4 DEF InsertWorkshop, WriteWorkshop, SoftDeleteWorkshop
  <2> QED  BY <1>2, <1>3, <2>1, <2>2
<1>5. CASE ScanCache(r) \/ PurgeCache(r) \/ (MustPurge(r) /\ Crash(r))
  <2>1. Target(r) \in Workshops
    BY <1>0, <1>5 DEF ScanCache, PurgeCache, MustPurge, At, Target, Shape
  <2>2. Excuse(r) \/ Drop(request[r].keys) \/ UNCHANGED cacheVars
    BY <1>5 DEF ScanCache, PurgeCache, Crash
  <2>3. CASE Drop(request[r].keys)
    BY <1>0, <2>3 DEF Drop
  <2> QED  BY <1>1, <1>2, <2>1, <2>2, <2>3
<1>6. CASE FillCache(r)
  <2> PICK since : since = request[r].since \cap Workshops
    OBVIOUS
  <2> PICK k : k = CHOOSE key \in Keys : request[r].keys = {key}
    OBVIOUS
  <2>1. k \in Keys
    BY <1>0, <1>6 DEF FillCache, At, Shape
  <2>2. \/ UNCHANGED cacheVars
        \/ /\ cached' = cached \cup {k}
           /\ missing' = [missing EXCEPT ![k] = since]
           /\ excused' = [excused EXCEPT ![k] = since]
    BY <1>6 DEF FillCache
  <2>3. since \in SUBSET Workshops
    OBVIOUS
  <2>4. ASSUME /\ cached' = cached \cup {k}
               /\ missing' = [missing EXCEPT ![k] = since]
               /\ excused' = [excused EXCEPT ![k] = since]
        PROVE  /\ cached' \subseteq Keys
               /\ missing' \in [Keys -> SUBSET Workshops]
               /\ excused' \in [Keys -> SUBSET Workshops]
    BY <1>0, <2>1, <2>3, <2>4
  <2> QED  BY <1>2, <2>2, <2>4
<1> QED  BY <1>2, <1>4, <1>5, <1>6, Untouched

LEMMA OtherTypes ==
  ASSUME TypeInv, NEW r \in Requests, Acts(r)
  PROVE  /\ registered' \subseteq Users
         /\ audited' \subseteq Workshops \cup Levels
         /\ lostAudits' \subseteq Workshops \cup Levels
         /\ destroyed' \subseteq Images /\ raced' \subseteq Workshops
         /\ reused' \subseteq Images
         /\ redisUp' \in BOOLEAN /\ failures' \in Nat
<1>0. /\ Shape(request[r]) /\ request[r] \in RequestRecord
      /\ registered \subseteq Users
      /\ audited \subseteq Workshops \cup Levels
      /\ lostAudits \subseteq Workshops \cup Levels
      /\ destroyed \subseteq Images /\ raced \subseteq Workshops
      /\ reused \subseteq Images
      /\ redisUp \in BOOLEAN /\ failures \in Nat
  BY DEF TypeInv, TypeOK, Shapes
<1>1. registered' \subseteq Users
  BY <1>0, Untouched DEF SaveUser
<1>2. audited' \subseteq Workshops \cup Levels
      /\ lostAudits' \subseteq Workshops \cup Levels
  <2>1. CASE AuditDelete(r)
    <3>1. Target(r) \in Workshops \cup Levels
      BY <1>0, <2>1 DEF AuditDelete, At, Target, Shape
    <3> QED  BY <1>0, <2>1, <3>1 DEF AuditDelete
  <2> QED  BY <1>0, <2>1, Untouched
<1>3. destroyed' \subseteq Images
  BY <1>0, Untouched, CatalogAssumption DEF DestroyImages
<1>4. raced' \subseteq Workshops
  <2>1. CASE WorkshopsAside
    BY <1>0, <2>1 DEF WorkshopsAside
  <2>2. ASSUME NEW w \in Workshops, WorkshopWritten(r, w)
        PROVE  raced' \subseteq Workshops
    BY <1>0, <2>2 DEF WorkshopWritten
  <2> QED  BY <2>1, <2>2, WorkshopStep
<1>5. redisUp' \in BOOLEAN /\ failures' \in Nat
  BY <1>0, Untouched DEF Crash
<1>6. reused' \subseteq Images
  <2>1. ASSUME NEW w \in Workshops, NEW p \in Payloads, UpdateWorkshop(r, w, p)
        PROVE  reused' \subseteq Images
    <3>1. p.add \subseteq Images
      BY CatalogAssumption DEF Payload
    <3> QED  BY <1>0, <2>1, <3>1 DEF UpdateWorkshop, Reuse
  <2>2. CASE reused' = reused
    BY <1>0, <2>2
  <2>3. CASE Arrive(r) /\ ~\E w \in Workshops, p \in Payloads : UpdateWorkshop(r, w, p)
    BY <2>2, <2>3
       DEF Arrive, CreateGroup, UpdateGroup, DeleteGroup, CreateWorkshop,
           DeleteWorkshop, GetAllWorkshops, CreateReview, DeleteReview,
           UpdateReviewStatus, DeleteUser
  <2> QED  BY <2>1, <2>2, <2>3, Untouched
<1> QED  BY <1>1, <1>2, <1>3, <1>4, <1>5, <1>6

LEMMA ActTypes ==
  ASSUME TypeInv, NEW r \in Requests, Acts(r)
  PROVE  TypeInv'
BY GroupStep, WorkshopStep, ReviewStep, RequestTypes, CacheTypes, OtherTypes
   DEF TypeInv, TypeOK

\* A list expires, Redis goes or comes back, or nothing happens: the
\* documents, the log, the images and the requests stay.
Elsewhere ==
  /\ UNCHANGED <<docVars, logVars, imageVars, request>>
  /\ (\E k \in Keys : ListExpires(k)) \/ UNCHANGED cacheVars

LEMMA StepCases ==
  ASSUME TypeInv, [Next]_vars
  PROVE  (\E r \in Requests : Acts(r)) \/ Elsewhere
<1>1. CASE \E k \in Keys : ListExpires(k)
  BY <1>1 DEF ListExpires, Elsewhere
<1>2. CASE RedisTurns
  BY <1>2 DEF RedisTurns, Elsewhere
<1>3. CASE UNCHANGED vars
  BY <1>3 DEF Elsewhere
<1>4. CASE \E r \in Requests : Arrive(r) \/ Resume(r) \/ Crash(r)
  BY <1>4 DEF Acts
<1> QED  BY <1>1, <1>2, <1>3, <1>4 DEF Next

LEMMA TypeStep == TypeInv /\ [Next]_vars => TypeInv'
<1> SUFFICES ASSUME TypeInv, [Next]_vars PROVE TypeInv'
  OBVIOUS
<1>1. ASSUME NEW r \in Requests, Acts(r) PROVE TypeInv'
  BY <1>1, ActTypes
<1>2. CASE Elsewhere
  <2>1. NamesStay
    BY <1>2 DEF Elsewhere, NamesStay
  <2>2. request' \in [Requests -> RequestRecord] /\ Shapes'
    BY <1>2, <2>1, StandTypes DEF Elsewhere
  <2>3. cached' \subseteq Keys /\ missing' \in [Keys -> SUBSET Workshops]
        /\ excused' \in [Keys -> SUBSET Workshops]
    BY <1>2 DEF Elsewhere, ListExpires, Drop, TypeInv, TypeOK
  <2>4. redisUp' \in BOOLEAN /\ failures' \in Nat
    <3>1. redisUp \in BOOLEAN /\ failures \in Nat
      BY DEF TypeInv, TypeOK
    <3>2. CASE UNCHANGED faultVars
      BY <3>1, <3>2
    <3>3. CASE RedisTurns
      BY <3>1, <3>3 DEF RedisTurns
    <3>4. CASE \E r \in Requests : Acts(r)
      BY <3>4, OtherTypes
    <3> QED  BY <3>2, <3>3, <3>4 DEF Next, ListExpires, Acts
  <2> QED  BY <1>2, <2>2, <2>3, <2>4 DEF Elsewhere, TypeInv, TypeOK
<1> QED  BY <1>1, <1>2, StepCases

LEMMA AlwaysTyped == Spec => []TypeInv
BY InitTypes, TypeStep, PTL DEF Spec

\* The catalogue's state is well-formed.
THEOREM CatalogTypes == Spec => []TypeOK
<1>1. TypeInv => TypeOK
  BY DEF TypeInv
<1> QED  BY <1>1, AlwaysTyped, PTL

-----------------------------------------------------------------------------
(***************************************************************************)
(* What a request creates is its own until it is written: no other request *)
(* can know its id.  With the query filter of the soft-delete plugin, that *)
(* is why the deleted stays as it is.                                      *)
(***************************************************************************)
NewIsAlone ==
  \A r \in Requests :
    /\ At(r, "insertGroup") =>
         /\ group[Target(r)].name = None
         /\ \A q \in Requests \ {r} : Target(q) # Target(r)
    /\ request[r].pc \in {"slug", "insert"} /\ request[r].op = "createWorkshop" =>
         /\ workshop[Target(r)].title = None
         /\ \A q \in Requests \ {r} : Target(q) # Target(r)

LEMMA InitAlone == Init => NewIsAlone
BY Records DEF Init, NewIsAlone, At

LEMMA AloneAct ==
  ASSUME TypeInv, NewIsAlone, NEW r \in Requests, Acts(r)
  PROVE  NewIsAlone'
<1>0. /\ Shape(request[r]) /\ request[r] \in RequestRecord
      /\ \A q \in Requests : Shape(request[q])
  BY DEF TypeInv, TypeOK, Shapes
<1>1. ASSUME NEW g \in Groups, g # Target(r) PROVE group'[g] = group[g]
  BY <1>1, GroupStep DEF GroupWritten
<1>2. ASSUME NEW w \in Workshops,
             w # Target(r) \/ request[r].pc \notin {"insert", "write", "softDelete"}
      PROVE  workshop'[w] = workshop[w]
  BY <1>2, WorkshopStep DEF WorkshopWritten, WorkshopsAside, At
\* A target that r gets is not one that another request is creating.
<1>3. ASSUME NEW new \in RequestRecord, Moves(r, new),
             (Arrive(r) /\ Starts(r, new)) \/ Continues(r, new),
             NEW q \in Requests \ {r},
             \/ At(q, "insertGroup")
             \/ request[q].pc \in {"slug", "insert"}
                /\ request[q].op = "createWorkshop"
      PROVE  new.target # Target(q)
  <2>1. CASE Continues(r, new)
    <3>1. new.target \in {Target(r), None}
      BY <2>1, Records DEF Continues, GoesOn, Target
    <3>2. Target(q) \in Groups \cup Workshops
      BY <1>0, <1>3 DEF Shape, At, Target
    <3> QED  BY <1>3, <3>1, <3>2, DistinctIds DEF NewIsAlone, Groups
  <2>2. CASE Starts(r, new) /\ new.pc \in {"insertGroup", "renameGroup", "count"}
    <3>1. new.target \in Groups
      BY <2>2 DEF Starts, Shape
    <3>2. CASE At(q, "insertGroup")
      BY <2>2, <3>2 DEF Starts, NewIsAlone, FoundGroup
    <3>3. CASE ~At(q, "insertGroup")
      <4>1. Target(q) \in Workshops
        BY <1>0, <1>3, <3>3 DEF Shape, Target
      <4> QED  BY <3>1, <4>1, DistinctIds
    <3> QED  BY <3>2, <3>3
  <2>3. CASE Starts(r, new)
             /\ new.pc \in {"slug", "write", "auditDelete", "enrollment"}
    <3>1. new.target \in Workshops
      BY <2>3 DEF Starts, Shape
    <3>2. CASE At(q, "insertGroup")
      <4>1. Target(q) \in Groups
        BY <1>0, <3>2 DEF Shape, At, Target
      <4> QED  BY <3>1, <4>1, DistinctIds
    <3>3. CASE ~At(q, "insertGroup")
      BY <1>3, <2>3, <3>3 DEF Starts, NewIsAlone, FoundWorkshop
    <3> QED  BY <3>2, <3>3
  <2>4. CASE Starts(r, new) /\ new.pc \in {"query", "writeReview", "cascade"}
    <3>1. new.target \in Reviews \cup {None}
      BY <2>4 DEF Starts, Shape
    <3>2. Target(q) \in Groups \cup Workshops
      BY <1>0, <1>3 DEF Shape, At, Target
    <3> QED  BY <3>1, <3>2, DistinctIds DEF Groups
  <2> QED  BY <1>3, <2>1, <2>2, <2>3, <2>4 DEF Starts
<1>4. ASSUME NEW new \in RequestRecord, Moves(r, new),
             (Arrive(r) /\ Starts(r, new)) \/ Continues(r, new)
      PROVE  NewIsAlone'
  <2>1. ASSUME NEW q \in Requests, request'[q].pc = "insertGroup"
        PROVE  /\ group'[request'[q].target].name = None
               /\ \A x \in Requests \ {q} :
                    request'[x].target # request'[q].target
    <3>1. CASE q = r
      <4>1. new.pc = "insertGroup" /\ request'[r] = new
        BY <1>4, <2>1, <3>1 DEF Moves
      <4>2. Arrive(r) /\ Starts(r, new)
        BY <1>4, <4>1, Records DEF Continues, GoesOn, NextStep
      <4>3. group' = group
        BY <4>2, Arrivals
      <4> QED  BY <1>4, <3>1, <4>1, <4>2, <4>3 DEF Starts, Moves, Target
    <3>2. CASE q # r
      <4>1. At(q, "insertGroup") /\ request'[q].target = Target(q)
        BY <1>4, <2>1, <3>2 DEF Moves, At, Target
      <4>2. Target(q) \in Groups /\ Target(q) # Target(r)
            /\ group[Target(q)].name = None
        BY <1>0, <3>2, <4>1 DEF NewIsAlone, Shape, At, Target
      <4>3. new.target # Target(q)
        BY <1>3, <1>4, <3>2, <4>1
      <4> QED  BY <1>1, <1>4, <3>2, <4>1, <4>2, <4>3 DEF NewIsAlone, Moves, Target
    <3> QED  BY <3>1, <3>2
  <2>2. ASSUME NEW q \in Requests, request'[q].pc \in {"slug", "insert"},
               request'[q].op = "createWorkshop"
        PROVE  /\ workshop'[request'[q].target].title = None
               /\ \A x \in Requests \ {q} :
                    request'[x].target # request'[q].target
    <3>1. CASE q = r /\ Continues(r, new)
      <4>1. request[r].pc = "slug" /\ request[r].op = "createWorkshop"
            /\ request'[r] = new /\ new.target = Target(r)
        BY <1>4, <2>2, <3>1, Records
           DEF Continues, GoesOn, NextStep, Moves, Target
      <4>2. Target(r) \in Workshops
        BY <1>0, <4>1 DEF Shape, Target
      <4> QED  BY <1>2, <1>4, <3>1, <4>1, <4>2 DEF NewIsAlone, Moves, Target
    <3>2. CASE q = r /\ ~Continues(r, new)
      <4>1. request'[r] = new /\ Arrive(r) /\ Starts(r, new)
        BY <1>4, <3>2 DEF Moves
      <4>2. workshop' = workshop
        BY <4>1, Arrivals
      <4> QED  BY <1>4, <2>2, <3>2, <4>1, <4>2 DEF Starts, Moves, Target
    <3>3. CASE q # r
      <4>1. /\ request[q].pc \in {"slug", "insert"}
            /\ request[q].op = "createWorkshop" /\ request'[q].target = Target(q)
        BY <1>4, <2>2, <3>3 DEF Moves, Target
      <4>2. Target(q) \in Workshops /\ Target(q) # Target(r)
            /\ workshop[Target(q)].title = None
        BY <1>0, <3>3, <4>1 DEF NewIsAlone, Shape, Target
      <4>3. new.target # Target(q)
        BY <1>3, <1>4, <3>3, <4>1
      <4> QED  BY <1>2, <1>4, <3>3, <4>1, <4>2, <4>3 DEF NewIsAlone, Moves, Target
    <3> QED  BY <3>1, <3>2, <3>3
  <2> QED  BY <2>1, <2>2 DEF NewIsAlone, At, Target
<1>5. CASE Arrive(r)
  BY <1>4, <1>5, Arrivals
<1>6. CASE Resume(r) \/ Crash(r)
  BY <1>4, <1>6, Resumptions
<1> QED  BY <1>5, <1>6 DEF Acts

LEMMA AloneStep == TypeInv /\ NewIsAlone /\ [Next]_vars => NewIsAlone'
<1> SUFFICES ASSUME TypeInv, NewIsAlone, [Next]_vars PROVE NewIsAlone'
  OBVIOUS
<1>1. CASE Elsewhere
  BY <1>1 DEF Elsewhere, NewIsAlone, At, Target
<1> QED  BY <1>1, AloneAct, StepCases

LEMMA AlwaysAlone == Spec => []NewIsAlone
BY InitAlone, AloneStep, AlwaysTyped, PTL DEF Spec

\* A written document was not deleted.
LEMMA DeletedStays ==
  ASSUME TypeInv, NewIsAlone, NEW r \in Requests, Acts(r)
  PROVE  /\ \A g \in Groups : group[g].deleted => group'[g] = group[g]
         /\ \A w \in Workshops : workshop[w].deleted => workshop'[w] = workshop[w]
         /\ \A v \in Reviews : review[v].deleted => review'[v] = review[v]
<1>0. /\ group \in [Groups -> GroupDoc] /\ workshop \in [Workshops -> WorkshopDoc]
      /\ review \in [Reviews -> ReviewDoc] /\ Shape(request[r])
  BY DEF TypeInv, TypeOK, Shapes
<1>1. ASSUME NEW g \in Groups, group[g].deleted, GroupWritten(r, g)
      PROVE  group'[g] = group[g]
  <2>1. CASE At(r, "insertGroup")
    <3>1. group[g].name = None
      BY <1>1, <2>1 DEF NewIsAlone, GroupWritten
    <3> QED  BY <1>0, <1>1, <3>1, DistinctIds DEF GroupDoc
  <2>2. CASE group'[g] = [group[g] EXCEPT !.deleted = TRUE]
    BY <1>0, <1>1, <2>2 DEF GroupDoc
  <2> QED  BY <1>1, <2>1, <2>2 DEF GroupWritten, FoundGroup
<1>2. ASSUME NEW w \in Workshops, workshop[w].deleted, WorkshopWritten(r, w)
      PROVE  workshop'[w] = workshop[w]
  <2>1. CASE At(r, "insert")
    <3>1. workshop[w].title = None
      BY <1>0, <1>2, <2>1 DEF NewIsAlone, WorkshopWritten, Shape, At
    <3> QED  BY <1>0, <1>2, <3>1, DistinctIds DEF WorkshopDoc
  <2>2. CASE workshop'[w] = [workshop[w] EXCEPT !.deleted = TRUE]
    BY <1>0, <1>2, <2>2 DEF WorkshopDoc
  <2> QED  BY <1>2, <2>1, <2>2 DEF WorkshopWritten, FoundWorkshop
<1>3. ASSUME NEW v \in Reviews, review[v].deleted, ReviewWritten(r, v)
      PROVE  review'[v] = review[v]
  BY <1>0, <1>3 DEF ReviewWritten, NoReview, FoundReview, ReviewsOf
<1> QED  BY <1>1, <1>2, <1>3, GroupStep, WorkshopStep, ReviewStep
         DEF WorkshopsAside

\* A deleted document never changes again.
THEOREM FinalTheorem == Spec => DeletedIsFinal
<1>1. TypeInv /\ NewIsAlone /\ [Next]_vars =>
        [/\ \A g \in Groups : group[g].deleted => group'[g] = group[g]
         /\ \A w \in Workshops : workshop[w].deleted => workshop'[w] = workshop[w]
         /\ \A v \in Reviews : review[v].deleted => review'[v] = review[v]]_vars
  BY StepCases, DeletedStays DEF Elsewhere
<1> QED  BY <1>1, AlwaysTyped, AlwaysAlone, PTL DEF Spec, DeletedIsFinal

-----------------------------------------------------------------------------
(***************************************************************************)
(* The audit entry comes before the deletion.                              *)
(***************************************************************************)
Logged == audited \cup lostAudits

AuditedFirst ==
  \A r \in Requests :
    At(r, "softDelete") /\ Target(r) \in Workshops \cup Levels =>
      Target(r) \in Logged

\* Only a request at softDelete deletes a group or a workshop.
LEMMA WhoDeletes ==
  ASSUME TypeInv, NEW r \in Requests, Acts(r)
  PROVE  /\ \A g \in Groups : group'[g].deleted =>
              group[g].deleted \/ (At(r, "softDelete") /\ g = Target(r))
         /\ \A w \in Workshops : workshop'[w].deleted =>
              workshop[w].deleted \/ (At(r, "softDelete") /\ w = Target(r))
<1>0. /\ group \in [Groups -> GroupDoc] /\ workshop \in [Workshops -> WorkshopDoc]
  BY DEF TypeInv, TypeOK
<1>1. ASSUME NEW g \in Groups, GroupWritten(r, g), ~At(r, "softDelete")
      PROVE  group'[g].deleted = group[g].deleted
  BY <1>0, <1>1 DEF GroupWritten, GroupDoc
<1>2. ASSUME NEW w \in Workshops, WorkshopWritten(r, w), ~At(r, "softDelete")
      PROVE  workshop'[w].deleted => workshop[w].deleted
  <2>1. CASE At(r, "insert")
    BY <1>2, <2>1 DEF WorkshopWritten, At
  <2>2. CASE workshop'[w] = Updated(workshop[w], request[r])
    BY <1>0, <2>2 DEF Updated, WorkshopDoc
  <2> QED  BY <1>2, <2>1, <2>2 DEF WorkshopWritten
<1>3. ASSUME NEW g \in Groups, group'[g].deleted
      PROVE  group[g].deleted \/ (At(r, "softDelete") /\ g = Target(r))
  <2>1. group'[g] = group[g] \/ GroupWritten(r, g)
    BY GroupStep
  <2> QED  BY <1>1, <1>3, <2>1 DEF GroupWritten
<1>4. ASSUME NEW w \in Workshops, workshop'[w].deleted
      PROVE  workshop[w].deleted \/ (At(r, "softDelete") /\ w = Target(r))
  <2>1. workshop'[w] = workshop[w] \/ WorkshopWritten(r, w)
    BY WorkshopStep DEF WorkshopsAside
  <2> QED  BY <1>2, <1>4, <2>1 DEF WorkshopWritten
<1> QED  BY <1>3, <1>4

\* Which step a request takes where it stands.
LEMMA ByLabel ==
  ASSUME TypeInv, NEW r \in Requests, Acts(r), ~Crash(r)
  PROVE  /\ At(r, "idle") => Arrive(r)
         /\ At(r, "count") => CountWorkshops(r)
         /\ At(r, "auditDelete") => AuditDelete(r)
         /\ At(r, "softDelete") => SoftDeleteGroup(r) \/ SoftDeleteWorkshop(r)
         /\ At(r, "write") => WriteWorkshop(r)
         /\ At(r, "destroy") => DestroyImages(r)
         /\ At(r, "scan") => ScanCache(r)
         /\ At(r, "purge") => PurgeCache(r)
         /\ At(r, "fill") => FillCache(r)
         /\ At(r, "enrollment") => CheckEnrollment(r)
         /\ At(r, "cascade") => \E c \in {"enrollments", "reviews"} : Cascade(r, c)
         /\ At(r, "saveUser") => SaveUser(r)
<1>1. CASE Arrive(r)
  BY <1>1, Arrivals DEF Starts, At
<1>2. CASE Resume(r)
  BY <1>2 DEF Resume, At, InsertGroup, RenameGroup, CountWorkshops,
              AuditDelete, SoftDeleteGroup, SoftDeleteWorkshop, FindSlug,
              InsertWorkshop, WriteWorkshop, DestroyImages, ScanCache,
              PurgeCache, QueryList, QueryRest, FillCache, CheckEnrollment,
              CheckDuplicate, WriteReview, InsertReview, Cascade, SaveUser
<1> QED  BY <1>1, <1>2 DEF Acts

\* A request that dies is over.
LEMMA Dead ==
  ASSUME TypeInv, NEW r \in Requests, Crash(r)
  PROVE  request'[r] = Done
BY DEF Crash, Finish, TypeInv, TypeOK

LEMMA AuditStep ==
  TypeInv /\ AuditedFirst /\ DeletionIsAudited /\ [Next]_vars =>
    (AuditedFirst /\ DeletionIsAudited)'
<1> SUFFICES ASSUME TypeInv, AuditedFirst, DeletionIsAudited, [Next]_vars
             PROVE  AuditedFirst' /\ DeletionIsAudited'
  OBVIOUS
<1>1. CASE Elsewhere
  BY <1>1 DEF Elsewhere, AuditedFirst, DeletionIsAudited, Logged, At, Target
<1>2. ASSUME NEW r \in Requests, Acts(r)
      PROVE  AuditedFirst' /\ DeletionIsAudited'
  <2>1. Logged \subseteq Logged'
    BY <1>2, Untouched DEF AuditDelete, Logged
  <2>2. PICK new \in RequestRecord :
          Moves(r, new) /\ (Starts(r, new) \/ Continues(r, new))
    BY <1>2, Arrivals, Resumptions DEF Acts
  <2>3. ASSUME NEW q \in Requests, request'[q].pc = "softDelete",
               request'[q].target \in Workshops \cup Levels
        PROVE  request'[q].target \in Logged'
    <3>1. CASE q # r
      BY <2>1, <2>2, <2>3, <3>1 DEF Moves, AuditedFirst, At, Target
    <3>2. CASE q = r
      <4>1. GoesOn(r, new) /\ request'[r] = new
        BY <2>2, <2>3, <3>2, Records DEF Moves, Starts, Continues
      <4>2. request[r].pc \in {"count", "auditDelete"}
            /\ request[r].target = new.target
            /\ (request[r].pc = "count" => request[r].target \notin Levels)
        BY <2>3, <3>2, <4>1 DEF GoesOn, NextStep
      <4>3. Shape(request[r])
        BY DEF TypeInv, Shapes
      <4>4. At(r, "auditDelete")
        BY <2>3, <3>2, <4>1, <4>2, <4>3, DistinctIds DEF Shape, At
      <4>5. AuditDelete(r)
        BY <1>2, <2>3, <3>2, <4>4, ByLabel, Dead, Records
      <4> QED  BY <3>2, <4>1, <4>2, <4>5 DEF AuditDelete, Logged, Target
    <3> QED  BY <3>1, <3>2
  <2>4. AuditedFirst'
    BY <2>3 DEF AuditedFirst, At, Target
  <2>5. ASSUME NEW w \in Workshops, workshop'[w].deleted PROVE w \in Logged'
    BY <1>2, <2>1, <2>5, WhoDeletes DEF DeletionIsAudited, AuditedFirst, Logged
  <2>6. ASSUME NEW l \in Levels, group'[l].deleted PROVE l \in Logged'
    <3>1. l \in Groups
      BY DEF Groups
    <3> QED  BY <1>2, <2>1, <2>6, <3>1, WhoDeletes
             DEF DeletionIsAudited, AuditedFirst, Logged
  <2> QED  BY <2>4, <2>5, <2>6 DEF DeletionIsAudited, Logged
<1> QED  BY <1>1, <1>2, StepCases

\* What was deleted has its entry in the audit log, unless the log failed.
THEOREM AuditTheorem == Spec => []DeletionIsAudited
<1>1. Init => AuditedFirst /\ DeletionIsAudited
  BY Records DEF Init, AuditedFirst, DeletionIsAudited, At
<1> QED  BY <1>1, AuditStep, AlwaysTyped, PTL DEF Spec

-----------------------------------------------------------------------------
(***************************************************************************)
(* Workshops as others see them: one that is found after a step and was    *)
(* not the same before has overtaken the other requests.                   *)
(***************************************************************************)
LEMMA Noticed ==
  ASSUME TypeInv, NEW r \in Requests, Acts(r), NEW w \in Workshops,
         NEW q \in Requests \ {r}, request[q].op # "none"
  PROVE  \/ workshop'[w] = workshop[w] /\ (w \in raced' <=> w \in raced)
         \/ w \in request'[q].since
<1>1. CASE WorkshopsAside
  BY <1>1 DEF WorkshopsAside
<1>2. ASSUME NEW x \in Workshops, WorkshopWritten(r, x),
             \A v \in Workshops \ {x} : workshop'[v] = workshop[v]
      PROVE  \/ workshop'[w] = workshop[w] /\ (w \in raced' <=> w \in raced)
             \/ w \in request'[q].since
  <2>1. CASE w = x
    BY <1>2, <2>1 DEF WorkshopWritten, Overtaken
  <2>2. CASE w # x
    BY <1>2, <2>2 DEF WorkshopWritten
  <2> QED  BY <2>1, <2>2
<1> QED  BY <1>1, <1>2, WorkshopStep

LinkedIsNew ==
  \A r \in Requests, w \in Workshops :
    request[r].pc \in {"auditDelete", "softDelete"} /\ Target(r) \in Groups
      /\ FoundWorkshop(w) /\ RefersTo(w, Target(r)) => w \in request[r].since

SameTitleIsNew ==
  \A r \in Requests, v \in Workshops :
    request[r].pc \in {"slug", "insert", "write"} /\ v # Target(r)
      /\ FoundWorkshop(v) /\ workshop[v].title = request[r].payload.title =>
        v \in request[r].since \/ request[r].payload.title = request[r].title

\* The title that a request has read is still there unless somebody wrote.
TitleIsRead ==
  \A r \in Requests :
    request[r].pc \in {"slug", "insert", "write"} =>
      request[r].title \in {None, workshop[Target(r)].title}
        \/ Target(r) \in request[r].since

LEMMA LinkedStep == TypeInv /\ LinkedIsNew /\ [Next]_vars => LinkedIsNew'
<1> SUFFICES ASSUME TypeInv, LinkedIsNew, [Next]_vars PROVE LinkedIsNew'
  OBVIOUS
<1>1. CASE Elsewhere
  BY <1>1 DEF Elsewhere, LinkedIsNew, At, Target, FoundWorkshop, RefersTo
<1>2. ASSUME NEW r \in Requests, Acts(r) PROVE LinkedIsNew'
  <2>1. PICK new \in RequestRecord :
          Moves(r, new) /\ (Starts(r, new) \/ Continues(r, new))
    BY <1>2, Arrivals, Resumptions DEF Acts
  <2>2. ASSUME NEW q \in Requests, NEW w \in Workshops,
               request'[q].pc \in {"auditDelete", "softDelete"},
               request'[q].target \in Groups,
               workshop'[w].title # None /\ ~workshop'[w].deleted,
               request'[q].target \in {workshop'[w].category, workshop'[w].level}
        PROVE  w \in request'[q].since
    <3>0. Shape(request[q])
      BY DEF TypeInv, Shapes
    <3>1. CASE q # r
      <4>1. /\ request[q].pc \in {"auditDelete", "softDelete"}
            /\ request'[q].target = Target(q)
            /\ request[q].since \subseteq request'[q].since
        BY <2>1, <2>2, <3>1 DEF Moves, Target
      <4>2. request[q].op # "none"
        BY <3>0, <4>1 DEF Shape
      <4>3. CASE workshop'[w] = workshop[w]
        BY <2>2, <4>1, <4>3 DEF LinkedIsNew, FoundWorkshop, RefersTo
      <4> QED  BY <1>2, <3>1, <4>2, <4>3, Noticed
    <3>2. CASE q = r
      <4>1. request'[r] = new
        BY <2>1 DEF Moves
      <4>2. ~Starts(r, new) /\ new # Done
        BY <2>2, <3>2, <4>1, Records, DistinctIds DEF Starts
      <4>3. GoesOn(r, new)
        BY <2>1, <4>2 DEF Continues
      <4>4. request[r].pc \in {"count", "auditDelete"} /\ new.target = Target(r)
        BY <2>2, <3>2, <4>1, <4>3 DEF GoesOn, NextStep, Target
      <4>5. workshop' = workshop
        BY <1>2, <4>4, WorkshopStep DEF WorkshopsAside, WorkshopWritten, At
      <4>6. CASE At(r, "count")
        <5>1. CountWorkshops(r)
          BY <1>2, <4>1, <4>2, <4>6, ByLabel, Dead
        <5>2. ~InUse(Target(r))
          <6>1. CASE Finish(r)
            <7>1. request'[r] = Done
              BY <6>1 DEF Finish, TypeInv, TypeOK
            <7> QED  BY <4>1, <4>2, <7>1
          <6> QED  BY <5>1, <6>1 DEF CountWorkshops
        <5> QED  BY <2>2, <3>2, <4>1, <4>4, <4>5, <5>2
                 DEF InUse, FoundWorkshop, RefersTo
      <4>7. CASE At(r, "auditDelete")
        <5>1. new.since = request[r].since
          BY <4>3, <4>7 DEF GoesOn, At
        <5> QED  BY <2>2, <3>2, <4>1, <4>4, <4>5, <4>7, <5>1
                 DEF LinkedIsNew, FoundWorkshop, RefersTo, At
      <4> QED  BY <4>4, <4>6, <4>7 DEF At
    <3> QED  BY <3>1, <3>2
  <2> QED  BY <2>2 DEF LinkedIsNew, At, Target, FoundWorkshop, RefersTo
<1> QED  BY <1>1, <1>2, StepCases

\* The only workshops that still refer to a deleted category or level were
\* written since the request counted them.
THEOREM SparesTheorem == Spec => DeletionSparesLinked
<1>1. Init => LinkedIsNew
  BY Records DEF Init, LinkedIsNew
<1>2. ASSUME TypeInv, LinkedIsNew, [Next]_vars,
             NEW r \in Requests, NEW g \in Groups,
             At(r, "softDelete"), Target(r) = g, request'[r] # request[r],
             ~group[g].deleted, group'[g].deleted
      PROVE  \A w \in Workshops :
               FoundWorkshop(w) /\ RefersTo(w, g) => w \in request[r].since
  BY <1>2 DEF LinkedIsNew, At
<1>3. TypeInv /\ LinkedIsNew /\ [Next]_vars =>
        [\A r \in Requests, g \in Groups :
           (At(r, "softDelete") /\ Target(r) = g /\ request'[r] # request[r]
              /\ ~group[g].deleted /\ group'[g].deleted) =>
             \A w \in Workshops :
               FoundWorkshop(w) /\ RefersTo(w, g) => w \in request[r].since]_vars
  BY <1>2
<1> QED  BY <1>1, <1>3, LinkedStep, AlwaysTyped, PTL DEF Spec, DeletionSparesLinked

LEMMA TitleStep == TypeInv /\ SameTitleIsNew /\ [Next]_vars => SameTitleIsNew'
<1> SUFFICES ASSUME TypeInv, SameTitleIsNew, [Next]_vars PROVE SameTitleIsNew'
  OBVIOUS
<1>1. CASE Elsewhere
  BY <1>1 DEF Elsewhere, SameTitleIsNew, Target, FoundWorkshop
<1>2. ASSUME NEW r \in Requests, Acts(r) PROVE SameTitleIsNew'
  <2>1. PICK new \in RequestRecord :
          Moves(r, new) /\ ((Arrive(r) /\ Starts(r, new)) \/ Continues(r, new))
    BY <1>2, Arrivals, Resumptions DEF Acts
  <2>2. ASSUME NEW q \in Requests, NEW v \in Workshops,
               request'[q].pc \in {"slug", "insert", "write"},
               v # request'[q].target,
               workshop'[v].title # None /\ ~workshop'[v].deleted,
               workshop'[v].title = request'[q].payload.title
        PROVE  v \in request'[q].since
               \/ request'[q].payload.title = request'[q].title
    <3>0. Shape(request[q])
      BY DEF TypeInv, Shapes
    <3>1. CASE q # r
      <4>1. /\ request[q].pc \in {"slug", "insert", "write"}
            /\ request'[q].target = Target(q)
            /\ request'[q].payload = request[q].payload
            /\ request'[q].title = request[q].title
            /\ request[q].since \subseteq request'[q].since
        BY <2>1, <2>2, <3>1 DEF Moves, Target
      <4>2. request[q].op # "none"
        BY <3>0, <4>1 DEF Shape
      <4>3. CASE workshop'[v] = workshop[v]
        BY <2>2, <4>1, <4>3 DEF SameTitleIsNew, FoundWorkshop
      <4> QED  BY <1>2, <3>1, <4>2, <4>3, Noticed
    <3>2. CASE q = r
      <4>1. request'[r] = new
        BY <2>1 DEF Moves
      <4>2. CASE Arrive(r) /\ Starts(r, new)
        <5>1. workshop' = workshop
          BY <4>2, Arrivals
        <5> QED  BY <2>2, <3>2, <4>1, <4>2, <5>1
                 DEF Starts, TitleTaken, FoundWorkshop
      <4>3. CASE Continues(r, new)
        <5>1. GoesOn(r, new)
          BY <2>2, <3>2, <4>1, <4>3, Records DEF Continues
        <5>2. /\ request[r].pc = "slug" /\ new.target = Target(r)
              /\ new.payload = request[r].payload /\ new.since = request[r].since
              /\ new.title = request[r].title
          BY <2>2, <3>2, <4>1, <5>1 DEF GoesOn, NextStep, Target
        <5>3. workshop' = workshop
          BY <1>2, <5>2, WorkshopStep DEF WorkshopsAside, WorkshopWritten, At
        <5> QED  BY <2>2, <3>2, <4>1, <5>2, <5>3
                 DEF SameTitleIsNew, FoundWorkshop
      <4> QED  BY <2>1, <4>2, <4>3
    <3> QED  BY <3>1, <3>2
  <2> QED  BY <2>2 DEF SameTitleIsNew, Target, FoundWorkshop
<1> QED  BY <1>1, <1>2, StepCases

LEMMA ReadStep == TypeInv /\ TitleIsRead /\ [Next]_vars => TitleIsRead'
<1> SUFFICES ASSUME TypeInv, TitleIsRead, [Next]_vars PROVE TitleIsRead'
  OBVIOUS
<1>1. CASE Elsewhere
  BY <1>1 DEF Elsewhere, TitleIsRead, Target
<1>2. ASSUME NEW r \in Requests, Acts(r) PROVE TitleIsRead'
  <2>1. PICK new \in RequestRecord :
          Moves(r, new) /\ ((Arrive(r) /\ Starts(r, new)) \/ Continues(r, new))
    BY <1>2, Arrivals, Resumptions DEF Acts
  <2>2. ASSUME NEW q \in Requests, request'[q].pc \in {"slug", "insert", "write"}
        PROVE  request'[q].title \in {None, workshop'[request'[q].target].title}
                 \/ request'[q].target \in request'[q].since
    <3>1. CASE q # r
      <4>1. /\ request[q].pc \in {"slug", "insert", "write"}
            /\ request'[q].target = Target(q)
            /\ request'[q].title = request[q].title
            /\ request[q].since \subseteq request'[q].since
        BY <2>1, <2>2, <3>1 DEF Moves, Target
      <4>2. request[q].op # "none" /\ Target(q) \in Workshops
        BY <4>1 DEF TypeInv, Shapes, Shape, Target
      <4>3. \/ workshop'[Target(q)] = workshop[Target(q)]
            \/ Target(q) \in request'[q].since
        BY <1>2, <3>1, <4>2, Noticed
      <4> QED  BY <4>1, <4>3 DEF TitleIsRead
    <3>2. CASE q = r
      <4>1. request'[r] = new
        BY <2>1 DEF Moves
      <4>2. CASE Arrive(r) /\ Starts(r, new)
        <5>1. workshop' = workshop /\ new.pc \in {"slug", "write"}
          BY <2>2, <3>2, <4>1, <4>2, Arrivals DEF Starts
        <5> QED  BY <3>2, <4>1, <4>2, <5>1 DEF Starts
      <4>3. CASE Continues(r, new)
        <5>1. GoesOn(r, new)
          BY <2>2, <3>2, <4>1, <4>3, Records DEF Continues
        <5>2. /\ request[r].pc = "slug" /\ new.target = Target(r)
              /\ new.title = request[r].title /\ new.since = request[r].since
          BY <2>2, <3>2, <4>1, <5>1 DEF GoesOn, NextStep, Target
        <5>3. workshop' = workshop
          BY <1>2, <5>2, WorkshopStep DEF WorkshopsAside, WorkshopWritten, At
        <5> QED  BY <3>2, <4>1, <5>2, <5>3 DEF TitleIsRead
      <4> QED  BY <2>1, <4>2, <4>3
    <3> QED  BY <3>1, <3>2
  <2> QED  BY <2>2 DEF TitleIsRead, Target
<1> QED  BY <1>1, <1>2, StepCases

\* A workshop gets another's title only if that one was written since, or if it
\* was itself renamed since and gets back the title it had.
THEOREM TitlesTheorem == Spec => TitlesClashOnlyByOverlap
<1>1. Init => SameTitleIsNew /\ TitleIsRead
  BY Records DEF Init, SameTitleIsNew, TitleIsRead
<1>2. ASSUME TypeInv, SameTitleIsNew, TitleIsRead, [Next]_vars,
             NEW r \in Requests, NEW v \in Workshops,
             request[r].pc \in {"insert", "write"},
             request'[r].pc # request[r].pc,
             workshop'[Target(r)].title # workshop[Target(r)].title,
             v # Target(r), FoundWorkshop(v),
             workshop[v].title = workshop'[Target(r)].title
      PROVE  \/ v \in request[r].since
             \/ /\ Target(r) \in request[r].since
                /\ workshop'[Target(r)].title = request[r].title
  <2> PICK w : w = Target(r)
    OBVIOUS
  <2>1. w \in Workshops /\ workshop[w] \in WorkshopDoc
    BY <1>2 DEF TypeInv, TypeOK, Shapes, Shape, Target
  <2>2. Acts(r)
    <3>1. ~Elsewhere
      BY <1>2 DEF Elsewhere
    <3>2. PICK x \in Requests : Acts(x)
      BY <1>2, <3>1, StepCases
    <3>3. PICK new \in RequestRecord : Moves(x, new)
      BY <1>2, <3>2, Arrivals, Resumptions DEF Acts
    <3>4. x = r
      BY <1>2, <3>3 DEF Moves
    <3> QED  BY <3>2, <3>4
  <2>3. WorkshopWritten(r, w)
    BY <1>2, <2>1, <2>2, WorkshopStep DEF WorkshopsAside
  <2>4. workshop'[w].title = request[r].payload.title
    <3>1. CASE At(r, "insert")
      BY <2>3, <3>1 DEF WorkshopWritten, At
    <3>2. CASE At(r, "write")
      <4>1. workshop'[w] = Updated(workshop[w], request[r])
        BY <2>3, <3>2 DEF WorkshopWritten, At
      <4> QED  BY <1>2, <2>1, <4>1 DEF Updated, WorkshopDoc
    <3> QED  BY <1>2, <3>1, <3>2 DEF At
  <2>5. CASE v \in request[r].since
    BY <2>5
  <2>6. CASE request[r].payload.title = request[r].title
    <3>1. request[r].title = workshop'[w].title
      BY <2>4, <2>6
    <3>2. request[r].title # None
      BY <1>2, <3>1 DEF FoundWorkshop
    <3>3. w \in request[r].since
      BY <1>2, <3>1, <3>2 DEF TitleIsRead
    <3> QED  BY <3>1, <3>3
  <2> QED  BY <1>2, <2>4, <2>5, <2>6 DEF SameTitleIsNew
<1>3. TypeInv /\ SameTitleIsNew /\ TitleIsRead /\ [Next]_vars =>
        [\A r \in Requests, v \in Workshops :
           LET w == Target(r)
           IN (/\ request[r].pc \in {"insert", "write"}
               /\ request'[r].pc # request[r].pc
               /\ workshop'[w].title # workshop[w].title
               /\ v # w /\ FoundWorkshop(v)
               /\ workshop[v].title = workshop'[w].title) =>
                 \/ v \in request[r].since
                 \/ w \in request[r].since /\ workshop'[w].title = request[r].title]_vars
  BY <1>2
<1> QED  BY <1>1, <1>3, TitleStep, ReadStep, AlwaysTyped, PTL
         DEF Spec, TitlesClashOnlyByOverlap

-----------------------------------------------------------------------------
(***************************************************************************)
(* The cached lists.                                                       *)
(***************************************************************************)
\* A request that owes workshop w's purge to the list under k.
WillPurge(r, w, k) ==
  Target(r) = w /\ MustPurge(r) /\ (At(r, "purge") => k \in request[r].keys)

LEMMA StillOwes ==
  ASSUME TypeInv, NEW r \in Requests, Acts(r), NEW q \in Requests \ {r},
         NEW w, NEW k, WillPurge(q, w, k)
  PROVE  WillPurge(q, w, k)'
<1>1. PICK new \in RequestRecord : Moves(r, new)
  BY Arrivals, Resumptions DEF Acts
<1> QED  BY <1>1 DEF WillPurge, Moves, MustPurge, At, Target

LEMMA StaleStep ==
  TypeInv /\ StaleOnlyByOverlap /\ [Next]_vars => StaleOnlyByOverlap'
<1> SUFFICES ASSUME TypeInv, StaleOnlyByOverlap, [Next]_vars
             PROVE  StaleOnlyByOverlap'
  OBVIOUS
<1>0. /\ missing \in [Keys -> SUBSET Workshops] /\ cached \subseteq Keys
      /\ excused \in [Keys -> SUBSET Workshops]
      /\ request \in [Requests -> RequestRecord]
      /\ \A q \in Requests : Shape(request[q])
  BY DEF TypeInv, TypeOK, Shapes
<1>1. \A k \in cached : \A w \in missing[k] \ excused[k] :
        \E q \in Requests : WillPurge(q, w, k)
  BY DEF StaleOnlyByOverlap, WillPurge
<1>2. CASE Elsewhere
  <2>1. ASSUME NEW k \in cached', NEW w \in missing'[k] \ excused'[k]
        PROVE  k \in cached /\ w \in missing[k] \ excused[k]
    BY <1>0, <1>2, <2>1 DEF Elsewhere, ListExpires, Drop
  <2>2. ASSUME NEW k \in cached', NEW w \in missing'[k] \ excused'[k]
        PROVE  \E q \in Requests : WillPurge(q, w, k)'
    <3>1. PICK q \in Requests : WillPurge(q, w, k)
      BY <1>1, <2>1
    <3>2. WillPurge(q, w, k)'
      BY <1>2, <3>1 DEF Elsewhere, WillPurge, MustPurge, At, Target
    <3> QED  BY <3>2
  <2> QED  BY <2>2 DEF StaleOnlyByOverlap, WillPurge
<1>3. ASSUME NEW r \in Requests, Acts(r) PROVE StaleOnlyByOverlap'
  <2>1. PICK new \in RequestRecord :
          Moves(r, new) /\ (Starts(r, new) \/ Continues(r, new))
    BY <1>3, Arrivals, Resumptions DEF Acts
  <2>2. ASSUME NEW k \in cached', NEW w \in missing'[k] \ excused'[k],
               k \in cached /\ w \in missing[k] \ excused[k],
               ~WillPurge(r, w, k) \/ WillPurge(r, w, k)'
        PROVE  \E q \in Requests : WillPurge(q, w, k)'
    BY <1>1, <1>3, <2>2, StillOwes
  \* r itself goes on owing, unless it is done with it.
  <2>3. ASSUME NEW w, NEW k, WillPurge(r, w, k), ~At(r, "purge"), ~Crash(r),
               k \in cached, redisUp \/ ~At(r, "scan")
        PROVE  WillPurge(r, w, k)'
    <3>1. MustPurge(r) /\ Target(r) = w
      BY <2>3 DEF WillPurge
    <3>2. CASE At(r, "destroy")
      <4>1. Goto(r, "scan")
        BY <1>3, <2>3, <3>2, ByLabel DEF DestroyImages
      <4>2. request'[r].pc = "scan" /\ request'[r].target = w
        BY <1>0, <3>1, <4>1 DEF Goto, RequestRecord, Target
      <4> QED  BY <4>2 DEF WillPurge, MustPurge, At, Target
    <3>3. CASE At(r, "scan")
      <4>1. request' = [request EXCEPT ![r].pc = "purge", ![r].keys = cached]
        BY <1>3, <2>3, <3>3, ByLabel DEF ScanCache
      <4>2. request'[r].pc = "purge" /\ request'[r].target = w
            /\ request'[r].keys = cached
        BY <1>0, <3>1, <4>1 DEF RequestRecord, Target
      <4> QED  BY <2>3, <4>2 DEF WillPurge, MustPurge, At, Target
    <3> QED  BY <2>3, <3>1, <3>2, <3>3 DEF MustPurge, At
  <2>4. CASE UNCHANGED cacheVars /\ ~(MustPurge(r) /\ Crash(r))
             /\ ~At(r, "purge") /\ ~(At(r, "scan") /\ ~redisUp)
    BY <1>0, <2>2, <2>3, <2>4 DEF StaleOnlyByOverlap, WillPurge
  <2>5. ASSUME Excuse(r) PROVE StaleOnlyByOverlap'
    <3>1. ASSUME NEW k \in cached', NEW w \in missing'[k] \ excused'[k]
          PROVE  k \in cached /\ w \in missing[k] \ excused[k] /\ Target(r) # w
      BY <1>0, <2>5, <3>1 DEF Excuse
    <3> QED  BY <2>2, <3>1 DEF StaleOnlyByOverlap, WillPurge
  <2>6. ASSUME Drop(request[r].keys), At(r, "purge") PROVE StaleOnlyByOverlap'
    <3>1. ASSUME NEW k \in cached', NEW w \in missing'[k] \ excused'[k]
          PROVE  k \in cached /\ w \in missing[k] \ excused[k]
                 /\ k \notin request[r].keys
      BY <1>0, <2>6, <3>1 DEF Drop
    <3> QED  BY <2>2, <2>6, <3>1 DEF StaleOnlyByOverlap, WillPurge
  <2>7. CASE FillCache(r)
    <3> PICK since : since = request[r].since \cap Workshops
      OBVIOUS
    <3> PICK key : key = CHOOSE k \in Keys : request[r].keys = {k}
      OBVIOUS
    <3>1. key \in Keys /\ At(r, "fill")
      BY <1>0, <2>7 DEF FillCache, At, Shape
    <3>2. \/ UNCHANGED cacheVars
          \/ /\ cached' = cached \cup {key}
             /\ missing' = [missing EXCEPT ![key] = since]
             /\ excused' = [excused EXCEPT ![key] = since]
      BY <2>7 DEF FillCache
    <3>3. ASSUME NEW k \in cached', NEW w \in missing'[k] \ excused'[k]
          PROVE  k \in cached /\ w \in missing[k] \ excused[k]
      <4>1. CASE UNCHANGED cacheVars
        BY <3>3, <4>1
      <4>2. CASE /\ cached' = cached \cup {key}
                 /\ missing' = [missing EXCEPT ![key] = since]
                 /\ excused' = [excused EXCEPT ![key] = since]
        <5>1. missing'[key] = since /\ excused'[key] = since
          BY <1>0, <3>1, <4>2
        <5>2. k # key
          BY <3>3, <5>1
        <5> QED  BY <1>0, <3>1, <3>3, <4>2, <5>2
      <4> QED  BY <3>2, <4>1, <4>2
    <3> QED  BY <2>2, <3>1, <3>3 DEF StaleOnlyByOverlap, WillPurge, MustPurge, At
  <2>8. CASE InsertWorkshop(r) \/ WriteWorkshop(r) \/ SoftDeleteWorkshop(r)
    <3>1. request[r].pc \in {"insert", "write", "softDelete"}
      BY <2>8 DEF InsertWorkshop, WriteWorkshop, SoftDeleteWorkshop, At
    <3>2. ~MustPurge(r)
      BY <3>1 DEF MustPurge
    <3>3. CASE UNCHANGED cacheVars
      BY <1>0, <2>2, <3>2, <3>3 DEF StaleOnlyByOverlap, WillPurge
    <3>4. ASSUME NEW x, Target(r) = x, Outdate(x), MustPurge(r)', Target(r)' = x,
                 ~At(r, "purge")'
          PROVE  StaleOnlyByOverlap'
      <4>1. ASSUME NEW k \in cached', NEW w \in missing'[k] \ excused'[k]
            PROVE  \/ k \in cached /\ w \in missing[k] \ excused[k]
                   \/ w = x
        BY <1>0, <3>4, <4>1 DEF Outdate
      <4>2. \A k : WillPurge(r, x, k)'
        BY <3>4 DEF WillPurge
      <4> QED  BY <2>2, <3>2, <4>1, <4>2 DEF StaleOnlyByOverlap, WillPurge
    <3>5. ASSUME Outdate(Target(r)), request'[r].pc \in {"scan", "destroy"}
          PROVE  StaleOnlyByOverlap'
      <4>1. request'[r] = new /\ new.pc \in {"scan", "destroy"}
        BY <2>1, <3>5 DEF Moves
      <4>2. GoesOn(r, new)
        BY <2>1, <4>1, Records DEF Starts, Continues
      <4>3. new.target = Target(r)
        BY <4>2 DEF GoesOn, Target
      <4> QED  BY <3>4, <3>5, <4>1, <4>3 DEF MustPurge, At, Target
    <3>6. UNCHANGED cacheVars
          \/ (Outdate(Target(r)) /\ request'[r].pc \in {"scan", "destroy"})
      <4>1. request[r] \in RequestRecord
        BY <1>0
      <4>2. CASE UNCHANGED cacheVars
        BY <4>2
      <4>3. ASSUME NEW label \in {"scan", "destroy"},
                   Overtake(r, [request[r] EXCEPT !.pc = label], Target(r))
            PROVE  request'[r].pc \in {"scan", "destroy"}
        BY <4>1, <4>3, OvertakenBy DEF RequestRecord
      <4>4. \/ UNCHANGED cacheVars
            \/ /\ Outdate(Target(r))
               /\ \E label \in {"scan", "destroy"} :
                    Overtake(r, [request[r] EXCEPT !.pc = label], Target(r))
        BY <2>8 DEF InsertWorkshop, WriteWorkshop, SoftDeleteWorkshop
      <4> QED  BY <4>3, <4>4
    <3> QED  BY <3>3, <3>5, <3>6
  <2>9. CASE Crash(r) /\ MustPurge(r)
    BY <2>5, <2>9 DEF Crash
  <2>10. CASE ~Crash(r) /\ At(r, "purge")
    <3>1. PurgeCache(r)
      BY <1>3, <2>10, ByLabel
    <3> QED  BY <2>5, <2>6, <2>10, <3>1 DEF PurgeCache
  <2>11. CASE ScanCache(r) /\ ~redisUp
    BY <2>5, <2>11 DEF ScanCache
  <2>12. At(r, "scan") /\ ~Crash(r) => ScanCache(r)
    BY <1>3, ByLabel
  <2>13. ScanCache(r) /\ redisUp => UNCHANGED cacheVars
    BY DEF ScanCache
  <2>14. PurgeCache(r) => At(r, "purge")
    BY DEF PurgeCache
  <2>15. At(r, "scan") \/ At(r, "purge") => MustPurge(r)
    BY DEF At, MustPurge
  <2> QED  BY <1>3, <2>4, <2>7, <2>8, <2>9, <2>10, <2>11, <2>12, <2>13, <2>14,
              <2>15, Untouched
<1> QED  BY <1>2, <1>3, StepCases

\* A cached list misses a change only where its purge is under way or failed.
THEOREM StaleTheorem == Spec => []StaleOnlyByOverlap
<1>1. Init => StaleOnlyByOverlap
  BY DEF Init, StaleOnlyByOverlap
<1> QED  BY <1>1, StaleStep, AlwaysTyped, PTL DEF Spec

-----------------------------------------------------------------------------
(***************************************************************************)
(* The cascade of a user's deletion.  A deletion that is done with the     *)
(* user's enrollments has overtaken every review that is being written:    *)
(* the check of the enrollment lets no further one through.                *)
(***************************************************************************)
\* Request r deletes user u and is done with collection c.
Hides(r, u, c) ==
  request[r].op = "deleteUser" /\ request[r].user = u /\ c \notin request[r].todo

NoEnrollments ==
  /\ \A u \in Users : u \notin registered => enrolled[u] = {}
  /\ \A r \in Requests, u \in Users : Hides(r, u, "enrollments") => enrolled[u] = {}

AuthorsOvertaken ==
  \A q \in Requests, u \in Users :
    request[q].pc \in {"duplicate", "insertReview"} /\ request[q].user = u
      /\ (u \notin registered \/ \E r \in Requests : Hides(r, u, "enrollments"))
        => u \in request[q].since

HiddenReviews ==
  \A r \in Requests, u \in Users : Hides(r, u, "reviews") =>
    \A v \in ReviewsOf(u) : review[v].overtaken

CascadeReaches ==
  NoEnrollments /\ AuthorsOvertaken /\ HiddenReviews /\ ReviewsGoWithUser

\* A user who leaves has been hidden everywhere.
LEMMA Leaves ==
  ASSUME TypeInv, NEW r \in Requests, Acts(r), NEW u \in Users,
         u \in registered, u \notin registered'
  PROVE  Hides(r, u, "enrollments") /\ Hides(r, u, "reviews") /\ At(r, "saveUser")
<1>1. SaveUser(r) /\ Shape(request[r])
  BY Untouched DEF TypeInv, Shapes
<1>2. request[r].user = u /\ At(r, "saveUser")
  BY <1>1 DEF SaveUser
<1> QED  BY <1>1, <1>2 DEF Hides, Shape, At

\* A deletion that gets done with c did so by its step of the cascade.
LEMMA GetsDone ==
  ASSUME TypeInv, NEW r \in Requests, Acts(r), NEW q \in Requests,
         NEW u \in Users, NEW c \in {"enrollments", "reviews"}, Hides(q, u, c)'
  PROVE  Hides(q, u, c) \/ (q = r /\ request[r].user = u /\ CascadeStep(r, c))
<1>0. Shape(request[r]) /\ request[r] \in RequestRecord
  BY DEF TypeInv, TypeOK, Shapes
<1>1. PICK new \in RequestRecord :
        Moves(r, new) /\ (Starts(r, new) \/ Continues(r, new))
  BY Arrivals, Resumptions DEF Acts
<1>2. CASE q # r
  BY <1>1, <1>2 DEF Moves, Hides
<1>3. CASE q = r
  <2>1. request'[r] = new
    BY <1>1 DEF Moves
  <2>2. ~Starts(r, new) /\ new # Done
    BY <1>3, <2>1, Records DEF Hides, Starts, Shape
  <2>3. GoesOn(r, new)
    BY <1>1, <2>2 DEF Continues
  <2>4. At(r, "cascade") /\ request[r].op = "deleteUser" /\ request[r].user = u
    BY <1>0, <1>3, <2>1, <2>3 DEF GoesOn, NextStep, Shape, At, Hides
  <2>5. PICK d \in {"enrollments", "reviews"} : Cascade(r, d)
    BY <2>1, <2>2, <2>4, ByLabel, Dead
  <2>6. CascadeStep(r, d)
    BY <2>5, Cascaded
  <2>7. CASE c = d
    BY <1>3, <2>4, <2>6, <2>7
  <2>8. CASE c # d
    BY <1>3, <2>4, <2>6, <2>8 DEF CascadeStep, Hides
  <2> QED  BY <2>7, <2>8
<1> QED  BY <1>2, <1>3

LEMMA EnrollmentsAct ==
  ASSUME TypeInv, NoEnrollments, NEW r \in Requests, Acts(r)
  PROVE  NoEnrollments'
<1>0. enrolled \in [Users -> SUBSET Workshops]
  BY DEF TypeInv, TypeOK
<1>1. ASSUME NEW u \in Users, enrolled[u] = {} PROVE enrolled'[u] = {}
  <2>1. CASE enrolled' = enrolled
    BY <1>1, <2>1
  <2>2. ASSUME NEW c \in {"enrollments", "reviews"}, CascadeStep(r, c)
        PROVE  enrolled'[u] = {}
    BY <1>0, <1>1, <2>2 DEF CascadeStep
  <2> QED  BY <2>1, <2>2, ReviewStep
<1>2. ASSUME NEW u \in Users, u \notin registered' PROVE enrolled'[u] = {}
  BY <1>1, <1>2, Leaves DEF NoEnrollments
<1>3. ASSUME NEW q \in Requests, NEW u \in Users, Hides(q, u, "enrollments")'
      PROVE  enrolled'[u] = {}
  <2>1. CASE Hides(q, u, "enrollments")
    BY <1>1, <2>1 DEF NoEnrollments
  <2>2. CASE request[r].user = u /\ CascadeStep(r, "enrollments")
    BY <1>0, <2>2 DEF CascadeStep
  <2> QED  BY <1>3, <2>1, <2>2, GetsDone
<1> QED  BY <1>2, <1>3 DEF NoEnrollments

LEMMA AuthorsAct ==
  ASSUME TypeInv, NoEnrollments, AuthorsOvertaken, NEW r \in Requests, Acts(r)
  PROVE  AuthorsOvertaken'
<1>0. /\ \A q \in Requests : Shape(request[q]) /\ request[q] \in RequestRecord
      /\ request \in [Requests -> RequestRecord]
  BY DEF TypeInv, TypeOK, Shapes
<1>1. PICK new \in RequestRecord :
        Moves(r, new) /\ (Starts(r, new) \/ Continues(r, new))
  BY Arrivals, Resumptions DEF Acts
<1>2. registered' \subseteq registered
  BY Untouched DEF SaveUser
<1>3. ASSUME NEW q \in Requests, NEW u \in Users,
             request'[q].pc \in {"duplicate", "insertReview"},
             request'[q].user = u,
             u \notin registered'
               \/ \E x \in Requests : Hides(x, u, "enrollments")'
      PROVE  u \in request'[q].since
  <2>1. CASE q # r
    <3>1. /\ request[q].pc \in {"duplicate", "insertReview"}
          /\ request[q].user = u /\ request[q].op # "none"
          /\ request[q].since \subseteq request'[q].since
      BY <1>0, <1>1, <1>3, <2>1 DEF Moves, Shape
    <3>2. CASE u \notin registered \/ \E x \in Requests : Hides(x, u, "enrollments")
      BY <3>1, <3>2 DEF AuthorsOvertaken
    <3>3. CASE request[r].user = u /\ CascadeStep(r, "enrollments")
      BY <2>1, <3>1, <3>3 DEF CascadeStep, Overtaken
    <3> QED  BY <1>3, <3>2, <3>3, Leaves, GetsDone
  <2>2. CASE q = r
    <3>1. request'[r] = new /\ ~Starts(r, new) /\ new # Done
      BY <1>1, <1>3, <2>2, Records DEF Moves, Starts
    <3>2. GoesOn(r, new)
      BY <1>1, <3>1 DEF Continues
    <3>3. request[r].pc \in {"enrollment", "duplicate"} /\ request[r].user = u
      BY <1>3, <2>2, <3>1, <3>2 DEF GoesOn, NextStep
    <3>4. u \notin registered \/ \E x \in Requests : Hides(x, u, "enrollments")
      <4>1. ~At(r, "saveUser") /\ ~At(r, "cascade")
        BY <3>3 DEF At
      <4> QED  BY <1>3, <4>1, Leaves, GetsDone DEF CascadeStep
    <3>5. CASE At(r, "enrollment")
      <4>1. CheckEnrollment(r)
        BY <3>1, <3>5, ByLabel, Dead
      <4>2. Target(r) \in enrolled[u]
        <5>1. CASE Finish(r)
          <6>1. request'[r] = Done
            BY <1>0, <5>1 DEF Finish
          <6> QED  BY <3>1, <6>1
        <5> QED  BY <3>3, <4>1, <5>1 DEF CheckEnrollment
      <4> QED  BY <3>4, <4>2 DEF NoEnrollments
    <3>6. CASE At(r, "duplicate")
      <4>1. u \in request[r].since
        BY <3>3, <3>4, <3>6 DEF AuthorsOvertaken, At
      <4> QED  BY <2>2, <3>1, <3>2, <3>6, <4>1 DEF GoesOn, At
    <3> QED  BY <3>3, <3>5, <3>6 DEF At
  <2> QED  BY <2>1, <2>2
<1> QED  BY <1>3 DEF AuthorsOvertaken

LEMMA HiddenAct ==
  ASSUME TypeInv, HiddenReviews, NEW r \in Requests, Acts(r)
  PROVE  HiddenReviews'
<1>0. /\ review \in [Reviews -> ReviewDoc]
      /\ \A q \in Requests : Shape(request[q]) /\ request[q] \in RequestRecord
  BY DEF TypeInv, TypeOK, Shapes
<1>1. ASSUME NEW q \in Requests, NEW u \in Users, NEW v \in Reviews,
             Hides(q, u, "reviews")', review'[v].user # None,
             ~review'[v].deleted, review'[v].user = u
      PROVE  review'[v].overtaken
  <2>1. CASE Hides(q, u, "reviews")
    <3>1. CASE review'[v] = review[v]
      BY <1>1, <2>1, <3>1 DEF HiddenReviews, ReviewsOf, FoundReview
    <3>2. CASE At(r, "insertReview") /\ review'[v] = Pending(r)
      <4>1. request[r].user = u
        BY <1>1, <3>2 DEF Pending
      <4>2. BeingDeleted(request[r].user)
        BY <2>1, <4>1 DEF BeingDeleted, Hides
      <4>3. Pending(r).overtaken
        BY <4>2 DEF Pending
      <4> QED  BY <3>2, <4>3
    <3>3. CASE FoundReview(v) /\ review'[v] = Changed(review[v], request[r])
      <4>1. review[v].user = review'[v].user
            /\ review'[v].overtaken = review[v].overtaken
        BY <1>0, <3>3 DEF Changed, ReviewDoc, NoReview
      <4> QED  BY <1>1, <2>1, <3>3, <4>1 DEF HiddenReviews, ReviewsOf
    <3>4. CASE review'[v] = [review[v] EXCEPT !.deleted = TRUE]
      BY <1>0, <1>1, <3>4 DEF ReviewDoc, NoReview
    <3> QED  BY <3>1, <3>2, <3>3, <3>4, ReviewStep DEF ReviewWritten
  <2>2. CASE request[r].user = u /\ CascadeStep(r, "reviews")
    <3>1. At(r, "cascade")
      BY <2>2 DEF CascadeStep
    <3>2. CASE review'[v] = review[v]
      BY <1>1, <2>2, <3>2 DEF CascadeStep, ReviewsOf, FoundReview
    <3>3. CASE ReviewWritten(r, v)
      BY <1>0, <1>1, <3>1, <3>3 DEF ReviewWritten, At, ReviewDoc, NoReview
    <3> QED  BY <3>2, <3>3, ReviewStep
  <2> QED  BY <1>1, <2>1, <2>2, GetsDone
<1> QED  BY <1>1 DEF HiddenReviews, ReviewsOf, FoundReview

LEMMA GoesAct ==
  ASSUME TypeInv, CascadeReaches, NEW r \in Requests, Acts(r)
  PROVE  ReviewsGoWithUser'
<1>0. /\ review \in [Reviews -> ReviewDoc]
      /\ \A q \in Requests : Shape(request[q]) /\ request[q] \in RequestRecord
  BY DEF TypeInv, TypeOK, Shapes
<1>1. ASSUME NEW v \in Reviews, review'[v].user # None, ~review'[v].deleted,
             review'[v].user \notin registered'
      PROVE  review'[v].overtaken
  <2> PICK u : u = review'[v].user
    OBVIOUS
  <2>0. u \in Users
    <3>1. review'[v] \in ReviewDoc
      BY ReviewStep
    <3> QED  BY <1>1, <3>1 DEF ReviewDoc, NoReview
  <2>1. ASSUME FoundReview(v), review[v].user = u PROVE review[v].overtaken
    <3>1. CASE u \notin registered
      BY <2>1, <3>1 DEF CascadeReaches, ReviewsGoWithUser
    <3>2. CASE u \in registered
      <4>1. Hides(r, u, "reviews")
        BY <1>1, <2>0, <3>2, Leaves
      <4> QED  BY <2>0, <2>1, <4>1 DEF CascadeReaches, HiddenReviews, ReviewsOf
    <3> QED  BY <3>1, <3>2
  <2>2. CASE review'[v] = review[v]
    BY <1>1, <2>1, <2>2 DEF FoundReview
  <2>3. CASE At(r, "insertReview") /\ review'[v] = Pending(r)
    <3>1. request[r].user = u
      BY <2>3 DEF Pending
    <3>2. u \notin registered
      BY <1>1, <2>0, <2>3, Leaves DEF At
    <3>3. u \in request[r].since
      BY <2>0, <2>3, <3>1, <3>2 DEF CascadeReaches, AuthorsOvertaken, At
    <3>4. request[r].user \in request[r].since
      BY <3>1, <3>3
    <3>5. Pending(r).overtaken
      BY <3>4 DEF Pending
    <3> QED  BY <2>3, <3>5
  <2>4. CASE FoundReview(v) /\ review'[v] = Changed(review[v], request[r])
    <3>1. review[v].user = review'[v].user
          /\ review'[v].overtaken = review[v].overtaken
      BY <1>0, <2>4 DEF Changed, ReviewDoc, NoReview
    <3> QED  BY <2>1, <2>4, <3>1
  <2>5. CASE review'[v] = [review[v] EXCEPT !.deleted = TRUE]
    BY <1>0, <1>1, <2>5 DEF ReviewDoc, NoReview
  <2> QED  BY <2>2, <2>3, <2>4, <2>5, ReviewStep DEF ReviewWritten
<1> QED  BY <1>1 DEF ReviewsGoWithUser, FoundReview

LEMMA CascadeReachesStep ==
  TypeInv /\ CascadeReaches /\ [Next]_vars => CascadeReaches'
<1> SUFFICES ASSUME TypeInv, CascadeReaches, [Next]_vars PROVE CascadeReaches'
  OBVIOUS
<1>1. CASE Elsewhere
  BY <1>1 DEF Elsewhere, CascadeReaches, NoEnrollments, AuthorsOvertaken,
              HiddenReviews, ReviewsGoWithUser, Hides, ReviewsOf, FoundReview
<1>2. ASSUME NEW r \in Requests, Acts(r) PROVE CascadeReaches'
  BY <1>2, EnrollmentsAct, AuthorsAct, HiddenAct, GoesAct DEF CascadeReaches
<1> QED  BY <1>1, <1>2, StepCases

\* The reviews of a deleted user are hidden, unless they were being written.
THEOREM ReviewsTheorem == Spec => []ReviewsGoWithUser
<1>1. Init => CascadeReaches
  <2> SUFFICES ASSUME Init PROVE CascadeReaches
    OBVIOUS
  <2>1. \A r \in Requests : request[r] = Idle
    BY DEF Init
  <2>2. \A v \in Reviews : review[v].user = None
    BY DEF Init, NoReview
  <2>3. \A u, c : \A r \in Requests : ~Hides(r, u, c)
    BY <2>1, Records DEF Hides
  <2> QED  BY <2>1, <2>2, <2>3, Records
           DEF Init, CascadeReaches, NoEnrollments, AuthorsOvertaken,
               HiddenReviews, ReviewsGoWithUser, FoundReview
<1>2. CascadeReaches => ReviewsGoWithUser
  BY DEF CascadeReaches
<1> QED  BY <1>1, <1>2, CascadeReachesStep, AlwaysTyped, PTL DEF Spec

-----------------------------------------------------------------------------
(***************************************************************************)
(* Images.  An image that no update names when it is known already belongs *)
(* to one workshop: what a request adds is its own until it is written.    *)
(* Such an image is destroyed only after the workshop was written without  *)
(* it; who shows it all the same has read the workshop before and was      *)
(* overtaken.                                                              *)
(***************************************************************************)
\* A request that is yet to write the images it has seen, or to destroy some.
Unwritten(r) == request[r].pc \in {"slug", "insert", "write"}
Holds(r)     == request[r].pc \in {"slug", "insert", "write", "destroy"}

\* The images that a workshop shows, that a request has read, or that it adds
\* to those that it keeps, but for the reused ones.
Pics(w)  == workshop[w].images \ reused
Seen(r)  == request[r].images \ reused
Added(r) ==
  (request[r].payload.add \ (request[r].images \ request[r].payload.drop)) \ reused

WorkshopsApart ==
  \A v, w \in Workshops : v # w => Pics(v) \cap Pics(w) = {}

SeenApart ==
  /\ \A r \in Requests, w \in Workshops :
       Holds(r) /\ w # Target(r) => Seen(r) \cap Pics(w) = {}
  /\ \A q, r \in Requests :
       Holds(q) /\ Holds(r) /\ Target(q) # Target(r) => Seen(q) \cap Seen(r) = {}

AddedApart ==
  /\ \A r \in Requests, w \in Workshops :
       Unwritten(r) => Added(r) \cap Pics(w) = {}
  /\ \A q, r \in Requests :
       Unwritten(q) /\ Holds(r) => Added(q) \cap Seen(r) = {}
  /\ \A q, r \in Requests :
       Unwritten(q) /\ Unwritten(r) /\ q # r => Added(q) \cap Added(r) = {}

OwnedOnce == WorkshopsApart /\ SeenApart /\ AddedApart

\* What r knows of itself when it goes on.
Kept(q) ==
  /\ request'[q].target = request[q].target
  /\ request'[q].images = request[q].images
  /\ request'[q].payload = request[q].payload
  /\ request[q].since \subseteq request'[q].since

Begun(r) ==
  Arrive(r) /\ Starts(r, request'[r]) /\ request'[r] \in RequestRecord

LEMMA Holders ==
  ASSUME TypeInv, NEW r \in Requests, Acts(r), NEW q \in Requests
  PROVE  /\ Unwritten(q)' => \/ Unwritten(q) /\ Kept(q) /\ (q = r => At(r, "slug"))
                             \/ q = r /\ Begun(r)
         /\ Holds(q)' => (Holds(q) /\ Kept(q)) \/ (q = r /\ Begun(r))
         /\ At(q, "destroy")' => \/ At(q, "destroy") /\ Kept(q) /\ q # r
                                 \/ q = r /\ At(r, "write") /\ Kept(q)
<1>1. PICK new \in RequestRecord :
        Moves(r, new) /\ ((Arrive(r) /\ Starts(r, new)) \/ Continues(r, new))
  BY Arrivals, Resumptions DEF Acts
<1>2. CASE q # r
  BY <1>1, <1>2 DEF Moves, Kept, Unwritten, Holds, At
<1>3. CASE q = r
  <2>1. request'[r] = new
    BY <1>1 DEF Moves
  <2>2. CASE Arrive(r) /\ Starts(r, new)
    <3>1. Begun(r)
      BY <2>1, <2>2 DEF Begun
    <3>2. ~At(r, "destroy")'
      BY <2>1, <2>2 DEF Starts, At
    <3> QED  BY <1>3, <3>1, <3>2
  <2>3. CASE new = Done
    BY <1>3, <2>1, <2>3, Records DEF Unwritten, Holds, At
  <2>4. CASE GoesOn(r, new)
    BY <1>3, <2>1, <2>4 DEF GoesOn, NextStep, Kept, Unwritten, Holds, At
  <2> QED  BY <1>1, <2>2, <2>3, <2>4 DEF Continues
<1> QED  BY <1>2, <1>3

LEMMA Grows ==
  ASSUME TypeInv, NEW r \in Requests, Acts(r)
  PROVE  reused \subseteq reused'
BY Untouched, Arrivals

\* What a request holds, and what it does not write anew, grows no further.
LEMMA Shrinks ==
  ASSUME TypeInv, NEW r \in Requests, Acts(r)
  PROVE  /\ \A q \in Requests : Kept(q) =>
              /\ Target(q)' = Target(q)
              /\ Seen(q)' \subseteq Seen(q) /\ Added(q)' \subseteq Added(q)
              /\ request[q].since \subseteq request'[q].since
              /\ ToDelete(q)' = ToDelete(q)
         /\ \A w \in Workshops : workshop'[w].images = workshop[w].images =>
              Pics(w)' \subseteq Pics(w)
BY Grows DEF Kept, Target, Seen, Added, ToDelete, Pics

\* What a step makes of a workshop's images.
LEMMA Pictures ==
  ASSUME TypeInv, NEW r \in Requests, Acts(r), NEW w \in Workshops,
         WorkshopWritten(r, w)
  PROVE  \/ workshop'[w].images = workshop[w].images
            /\ (FoundWorkshop(w)' => FoundWorkshop(w) \/ At(r, "insert"))
         \/ w = Target(r) /\ At(r, "insert") /\ Pics(w)' \subseteq Added(r)
         \/ /\ w = Target(r) /\ At(r, "write") /\ FoundWorkshop(w)
            /\ Pics(w)' \subseteq (Seen(r) \ request[r].payload.drop) \cup Added(r)
            /\ w \in request[r].since => w \in raced'
<1>0. /\ workshop \in [Workshops -> WorkshopDoc] /\ reused \subseteq reused'
      /\ request[r] \in RequestRecord /\ Shape(request[r])
  BY Grows DEF TypeInv, TypeOK, Shapes
<1>1. CASE workshop'[w] = [workshop[w] EXCEPT !.deleted = TRUE]
  BY <1>0, <1>1 DEF WorkshopDoc, FoundWorkshop
<1>2. CASE At(r, "insert") /\ workshop'[w].images = request[r].payload.add
  <2>1. request[r].images = {}
    BY <1>0, <1>2 DEF Shape, At
  <2>2. w = Target(r)
    BY DEF WorkshopWritten
  <2> QED  BY <1>0, <1>2, <2>1, <2>2 DEF Pics, Added
<1>3. CASE At(r, "write") /\ FoundWorkshop(w)
           /\ workshop'[w] = Updated(workshop[w], request[r])
  <2> PICK p : p = request[r].payload
    OBVIOUS
  <2>1. workshop'[w].images = IF p.lists THEN FinalImages(request[r].images, p)
                              ELSE workshop[w].images
    BY <1>0, <1>3 DEF Updated, WorkshopDoc
  <2>2. p.lists /\ w \in request[r].since => w \in raced'
    BY <1>3 DEF WorkshopWritten, At
  <2>3. CASE ~p.lists
    BY <1>3, <2>1, <2>3
  <2>4. CASE p.lists
    <3>1. Pics(w)' \subseteq (Seen(r) \ p.drop) \cup Added(r)
      BY <1>0, <2>1, <2>4 DEF FinalImages, Seen, Added, Pics
    <3>2. w = Target(r)
      BY DEF WorkshopWritten
    <3> QED  BY <1>3, <2>2, <2>4, <3>1, <3>2
  <2> QED  BY <2>3, <2>4
<1> QED  BY <1>1, <1>2, <1>3 DEF WorkshopWritten

\* A request starts with the images of its workshop and additions of its own.
LEMMA Uploads ==
  ASSUME TypeInv, NEW r \in Requests, Begun(r)
  PROVE  /\ workshop' = workshop /\ raced' = raced /\ destroyed' = destroyed
         /\ Holds(r)' => Unwritten(r)' /\ Target(r)' \in Workshops
         /\ Unwritten(r)' =>
              /\ \/ Seen(r)' = {}
                 \/ \E t \in Workshops :
                      Target(r)' = t /\ Seen(r)' = Pics(t)' /\ FoundWorkshop(t)
              /\ Added(r)' \cap destroyed = {}
              /\ \A w \in Workshops : Added(r)' \cap Pics(w)' = {}
              /\ \A q \in Requests \ {r} :
                   Added(r)' \cap Added(q) = {} /\ Added(r)' \cap Seen(q) = {}
<1> PICK new : new = request'[r]
  OBVIOUS
<1>1. Starts(r, new) /\ Arrive(r)
  BY DEF Begun
<1>2. workshop' = workshop /\ raced' = raced /\ destroyed' = destroyed
  BY <1>1, Arrivals
<1>3. Holds(r)' \/ Unwritten(r)' => new.pc \in {"slug", "write"}
  BY <1>1 DEF Holds, Unwritten, Starts
<1> DEFINE more == new.payload.add \ (new.images \ new.payload.drop)
<1>4. new.pc \in {"slug", "write"} =>
        /\ Unwritten(r)' /\ Target(r)' = new.target /\ new.target \in Workshops
        /\ more \cap KnownImages(r) \subseteq reused'
        /\ \/ new.images = {}
           \/ new.images = workshop[new.target].images /\ FoundWorkshop(new.target)
  BY <1>1 DEF Starts, Shape, Unwritten, Target
<1>5. /\ destroyed \subseteq KnownImages(r)
      /\ \A w \in Workshops : workshop[w].images \subseteq KnownImages(r)
      /\ \A q \in Requests \ {r} : request[q].payload.add \subseteq KnownImages(r)
                                  /\ request[q].images \subseteq KnownImages(r)
  <2>1. ASSUME NEW q \in Requests \ {r}
        PROVE  request[q].payload.add \subseteq KnownImages(r)
               /\ request[q].images \subseteq KnownImages(r)
    <3> DEFINE others == {request[x].payload.add \cup request[x].images : x \in Requests \ {r}}
               shown  == {workshop[w].images : w \in Workshops}
    <3>1. request[q].payload.add \cup request[q].images \in others
      OBVIOUS
    <3>2. KnownImages(r) = destroyed \cup (UNION shown) \cup (UNION others)
      BY Zenon DEF KnownImages
    <3> HIDE DEF others, shown
    <3> QED  BY <3>1, <3>2
  <2>2. \A w \in Workshops : workshop[w].images \subseteq KnownImages(r)
    BY DEF KnownImages
  <2>3. destroyed \subseteq KnownImages(r)
    BY DEF KnownImages
  <2> QED  BY <2>1, <2>2, <2>3
<1>6. Added(r)' = more \ reused' /\ Seen(r)' = new.images \ reused'
  BY DEF Added, Seen
<1>7. ASSUME Unwritten(r)'
      PROVE  /\ \/ Seen(r)' = {}
                \/ \E t \in Workshops :
                     Target(r)' = t /\ Seen(r)' = Pics(t)' /\ FoundWorkshop(t)
             /\ Added(r)' \cap KnownImages(r) = {}
  <2>1. Added(r)' \cap KnownImages(r) = {}
    BY <1>3, <1>4, <1>6, <1>7
  <2>2. CASE new.images = {}
    BY <1>6, <2>1, <2>2
  <2>3. CASE new.images = workshop[new.target].images /\ FoundWorkshop(new.target)
    <3>1. Seen(r)' = Pics(new.target)'
      BY <1>2, <1>6, <2>3 DEF Pics
    <3> QED  BY <1>3, <1>4, <1>7, <2>1, <2>3, <3>1
  <2> QED  BY <1>3, <1>4, <1>7, <2>2, <2>3
<1>8. ASSUME Unwritten(r)'
      PROVE  /\ Added(r)' \cap destroyed = {}
             /\ \A w \in Workshops : Added(r)' \cap Pics(w)' = {}
  BY <1>2, <1>5, <1>7, <1>8 DEF Pics
<1>9. ASSUME Unwritten(r)', NEW q \in Requests \ {r}
      PROVE  Added(r)' \cap Added(q) = {} /\ Added(r)' \cap Seen(q) = {}
  BY <1>5, <1>7, <1>9 DEF Added, Seen
<1> QED  BY <1>2, <1>3, <1>4, <1>7, <1>8, <1>9

LEMMA OwnedBegun ==
  ASSUME TypeInv, OwnedOnce, NEW r \in Requests, Begun(r), Acts(r)
  PROVE  OwnedOnce'
<1>0. \A q \in Requests : q # r =>
        /\ Unwritten(q)' => Unwritten(q) /\ Kept(q)
        /\ Holds(q)' => Holds(q) /\ Kept(q)
  BY Holders
<1>1. /\ Holds(r)' => Unwritten(r)' /\ Target(r)' \in Workshops
      /\ Unwritten(r)' =>
           /\ \/ Seen(r)' = {}
              \/ \E t \in Workshops : Target(r)' = t /\ Seen(r)' = Pics(t)'
           /\ \A w \in Workshops : Added(r)' \cap Pics(w)' = {}
           /\ \A q \in Requests \ {r} :
                Added(r)' \cap Added(q) = {} /\ Added(r)' \cap Seen(q) = {}
  BY Uploads
<1>2. \A q \in Requests : Kept(q) =>
        /\ Target(q)' = Target(q)
        /\ Seen(q)' \subseteq Seen(q) /\ Added(q)' \subseteq Added(q)
  BY Shrinks
<1>3. \A w \in Workshops : Pics(w)' \subseteq Pics(w)
  BY Uploads, Shrinks
<1>4. WorkshopsApart'
  <2>1. ASSUME NEW v \in Workshops, NEW w \in Workshops, v # w
        PROVE  Pics(v)' \cap Pics(w)' = {}
    <3>1. Pics(v) \cap Pics(w) = {}
      BY <2>1 DEF OwnedOnce, WorkshopsApart
    <3> QED  BY <1>3, <3>1
  <2> QED  BY <2>1 DEF WorkshopsApart
<1>5. ASSUME NEW q \in Requests, NEW w \in Workshops, Holds(q)', w # Target(q)'
      PROVE  Seen(q)' \cap Pics(w)' = {}
  <2>1. CASE q = r
    <3>1. ASSUME NEW t \in Workshops, Target(r)' = t, Seen(r)' = Pics(t)'
          PROVE  Seen(r)' \cap Pics(w)' = {}
      BY <1>4, <1>5, <2>1, <3>1 DEF WorkshopsApart
    <3> QED  BY <1>1, <1>5, <2>1, <3>1
  <2>2. CASE q # r
    <3>1. Seen(q) \cap Pics(w) = {}
      BY <1>0, <1>2, <1>5, <2>2 DEF OwnedOnce, SeenApart
    <3> QED  BY <1>0, <1>2, <1>3, <1>5, <2>2, <3>1
  <2> QED  BY <2>1, <2>2
<1>6. ASSUME NEW q \in Requests, NEW x \in Requests, Holds(q)', Holds(x)',
             Target(q)' # Target(x)'
      PROVE  Seen(q)' \cap Seen(x)' = {}
  <2>1. ASSUME NEW y \in Requests, y # r, Holds(y)', Target(y)' # Target(r)',
               Holds(r)'
        PROVE  Seen(y)' \cap Seen(r)' = {}
    <3>1. ASSUME NEW t \in Workshops, Target(r)' = t, Seen(r)' = Pics(t)'
          PROVE  Seen(y)' \cap Seen(r)' = {}
      BY <1>5, <2>1, <3>1
    <3> QED  BY <1>1, <2>1, <3>1
  <2>2. CASE q # r /\ x # r
    <3>1. Seen(q) \cap Seen(x) = {}
      BY <1>0, <1>2, <1>6, <2>2 DEF OwnedOnce, SeenApart
    <3> QED  BY <1>0, <1>2, <1>6, <2>2, <3>1
  <2> QED  BY <1>6, <2>1, <2>2
<1>7. ASSUME NEW q \in Requests, NEW w \in Workshops, Unwritten(q)'
      PROVE  Added(q)' \cap Pics(w)' = {}
  <2>1. CASE q = r
    BY <1>1, <1>7, <2>1
  <2>2. CASE q # r
    <3>1. Added(q) \cap Pics(w) = {}
      BY <1>0, <1>7, <2>2 DEF OwnedOnce, AddedApart
    <3> QED  BY <1>0, <1>2, <1>3, <1>7, <2>2, <3>1
  <2> QED  BY <2>1, <2>2
<1>8. ASSUME NEW q \in Requests, NEW x \in Requests, Unwritten(q)', Holds(x)'
      PROVE  Added(q)' \cap Seen(x)' = {}
  <2>1. CASE x = r
    <3>1. ASSUME NEW t \in Workshops, Target(r)' = t, Seen(r)' = Pics(t)'
          PROVE  Added(q)' \cap Seen(r)' = {}
      BY <1>7, <1>8, <3>1
    <3> QED  BY <1>1, <1>8, <2>1, <3>1
  <2>2. CASE q = r /\ x # r
    <3>1. Added(r)' \cap Seen(x) = {}
      BY <1>1, <1>8, <2>2
    <3> QED  BY <1>0, <1>2, <1>8, <2>2, <3>1
  <2>3. CASE q # r /\ x # r
    <3>1. Added(q) \cap Seen(x) = {}
      BY <1>0, <1>8, <2>3 DEF OwnedOnce, AddedApart
    <3> QED  BY <1>0, <1>2, <1>8, <2>3, <3>1
  <2> QED  BY <2>1, <2>2, <2>3
<1>9. ASSUME NEW q \in Requests, NEW x \in Requests, q # x,
             Unwritten(q)', Unwritten(x)'
      PROVE  Added(q)' \cap Added(x)' = {}
  <2>1. ASSUME NEW y \in Requests \ {r}, Unwritten(y)', Unwritten(r)'
        PROVE  Added(r)' \cap Added(y)' = {}
    <3>1. Added(r)' \cap Added(y) = {} /\ Added(y)' \subseteq Added(y)
      BY <1>0, <1>1, <1>2, <2>1
    <3> QED  BY <3>1
  <2>2. CASE q # r /\ x # r
    <3>1. Added(q) \cap Added(x) = {}
      BY <1>0, <1>9, <2>2 DEF OwnedOnce, AddedApart
    <3> QED  BY <1>0, <1>2, <1>9, <2>2, <3>1
  <2>3. CASE q = r
    BY <1>9, <2>1, <2>3
  <2>4. CASE x = r
    <3>1. Added(r)' \cap Added(q)' = {}
      BY <1>9, <2>1, <2>4
    <3> QED  BY <2>4, <3>1
  <2> QED  BY <2>2, <2>3, <2>4
<1>10. SeenApart'
  BY <1>5, <1>6 DEF SeenApart
<1>11. AddedApart'
  BY <1>7, <1>8, <1>9 DEF AddedApart
<1> QED  BY <1>4, <1>10, <1>11 DEF OwnedOnce

LEMMA OwnedGoesOn ==
  ASSUME TypeInv, OwnedOnce, NEW r \in Requests, ~Begun(r), Acts(r)
  PROVE  OwnedOnce'
<1>0. \A q \in Requests :
        /\ Unwritten(q)' => Unwritten(q) /\ Kept(q) /\ (q = r => At(r, "slug"))
        /\ Holds(q)' => Holds(q) /\ Kept(q)
  BY Holders
<1>1. \A q \in Requests : Kept(q) =>
        /\ Target(q)' = Target(q)
        /\ Seen(q)' \subseteq Seen(q) /\ Added(q)' \subseteq Added(q)
  BY Shrinks
<1>2. \A q \in Requests : At(q, "write") \/ At(q, "insert") =>
        Unwritten(q) /\ Holds(q)
  BY DEF At, Unwritten, Holds
<1>3. ASSUME NEW w \in Workshops
      PROVE  \/ Pics(w)' \subseteq Pics(w)
             \/ /\ w = Target(r) /\ Unwritten(r) /\ Holds(r) /\ ~At(r, "slug")
                /\ Pics(w)' \subseteq Seen(r) \cup Added(r)
  <2>1. CASE workshop'[w] = workshop[w]
    BY <2>1, Shrinks
  <2>2. CASE WorkshopWritten(r, w)
    <3>1. CASE workshop'[w].images = workshop[w].images
      BY <3>1, Shrinks
    <3>2. CASE w = Target(r) /\ At(r, "insert") /\ Pics(w)' \subseteq Added(r)
      BY <1>2, <3>2 DEF At
    <3>3. CASE /\ w = Target(r) /\ At(r, "write")
               /\ Pics(w)' \subseteq (Seen(r) \ request[r].payload.drop) \cup Added(r)
      BY <1>2, <3>3 DEF At
    <3> QED  BY <2>2, <3>1, <3>2, <3>3, Pictures
  <2> QED  BY <2>1, <2>2, WorkshopStep DEF WorkshopsAside
<1>4. ASSUME NEW v \in Workshops, NEW w \in Workshops, v # w
      PROVE  Pics(v)' \cap Pics(w)' = {}
  <2>1. ASSUME NEW x \in Workshops, NEW y \in Workshops, x # y,
               x = Target(r), Unwritten(r), Holds(r),
               Pics(x)' \subseteq Seen(r) \cup Added(r), Pics(y)' \subseteq Pics(y)
        PROVE  Pics(x)' \cap Pics(y)' = {}
    <3>1. Seen(r) \cap Pics(y) = {} /\ Added(r) \cap Pics(y) = {}
      BY <2>1 DEF OwnedOnce, SeenApart, AddedApart
    <3> QED  BY <2>1, <3>1
  <2>2. CASE Pics(v)' \subseteq Pics(v) /\ Pics(w)' \subseteq Pics(w)
    <3>1. Pics(v) \cap Pics(w) = {}
      BY <1>4 DEF OwnedOnce, WorkshopsApart
    <3> QED  BY <2>2, <3>1
  <2>3. CASE ~(Pics(v)' \subseteq Pics(v))
    <3>1. v = Target(r) /\ Unwritten(r) /\ Holds(r)
          /\ Pics(v)' \subseteq Seen(r) \cup Added(r) /\ Pics(w)' \subseteq Pics(w)
      BY <1>3, <1>4, <2>3
    <3> QED  BY <1>4, <2>1, <3>1
  <2>4. CASE ~(Pics(w)' \subseteq Pics(w))
    <3>1. w = Target(r) /\ Unwritten(r) /\ Holds(r)
          /\ Pics(w)' \subseteq Seen(r) \cup Added(r) /\ Pics(v)' \subseteq Pics(v)
      BY <1>3, <1>4, <2>4
    <3>2. Pics(w)' \cap Pics(v)' = {}
      BY <1>4, <2>1, <3>1
    <3> QED  BY <3>2
  <2> QED  BY <2>2, <2>3, <2>4
<1>5. ASSUME NEW q \in Requests, NEW w \in Workshops, Holds(q)', w # Target(q)'
      PROVE  Seen(q)' \cap Pics(w)' = {}
  <2>1. Holds(q) /\ w # Target(q) /\ Seen(q)' \subseteq Seen(q)
    BY <1>0, <1>1, <1>5
  <2>2. CASE Pics(w)' \subseteq Pics(w)
    <3>1. Seen(q) \cap Pics(w) = {}
      BY <2>1 DEF OwnedOnce, SeenApart
    <3> QED  BY <2>1, <2>2, <3>1
  <2>3. CASE /\ w = Target(r) /\ Unwritten(r) /\ Holds(r)
             /\ Pics(w)' \subseteq Seen(r) \cup Added(r)
    <3>1. Seen(q) \cap Seen(r) = {} /\ Added(r) \cap Seen(q) = {}
      BY <2>1, <2>3 DEF OwnedOnce, SeenApart, AddedApart
    <3> QED  BY <2>1, <2>3, <3>1
  <2> QED  BY <1>3, <2>2, <2>3
<1>6. ASSUME NEW q \in Requests, NEW w \in Workshops, Unwritten(q)'
      PROVE  Added(q)' \cap Pics(w)' = {}
  <2>1. Unwritten(q) /\ Added(q)' \subseteq Added(q) /\ (q = r => At(r, "slug"))
    BY <1>0, <1>1, <1>6
  <2>2. CASE Pics(w)' \subseteq Pics(w)
    <3>1. Added(q) \cap Pics(w) = {}
      BY <2>1 DEF OwnedOnce, AddedApart
    <3> QED  BY <2>1, <2>2, <3>1
  <2>3. CASE /\ w = Target(r) /\ Unwritten(r) /\ Holds(r) /\ ~At(r, "slug")
             /\ Pics(w)' \subseteq Seen(r) \cup Added(r)
    <3>1. Added(q) \cap Seen(r) = {} /\ Added(q) \cap Added(r) = {}
      BY <2>1, <2>3 DEF OwnedOnce, AddedApart
    <3> QED  BY <2>1, <2>3, <3>1
  <2> QED  BY <1>3, <2>2, <2>3
<1>7. WorkshopsApart'
  BY <1>4 DEF WorkshopsApart
<1>8. SeenApart'
  <2>1. ASSUME NEW q \in Requests, NEW x \in Requests, Holds(q)', Holds(x)',
               Target(q)' # Target(x)'
        PROVE  Seen(q)' \cap Seen(x)' = {}
    <3>1. Seen(q) \cap Seen(x) = {}
      BY <1>0, <1>1, <2>1 DEF OwnedOnce, SeenApart
    <3> QED  BY <1>0, <1>1, <2>1, <3>1
  <2> QED  BY <1>5, <2>1 DEF SeenApart
<1>9. AddedApart'
  <2>1. ASSUME NEW q \in Requests, NEW x \in Requests, Unwritten(q)', Holds(x)'
        PROVE  Added(q)' \cap Seen(x)' = {}
    <3>1. Added(q) \cap Seen(x) = {}
      BY <1>0, <2>1 DEF OwnedOnce, AddedApart
    <3> QED  BY <1>0, <1>1, <2>1, <3>1
  <2>2. ASSUME NEW q \in Requests, NEW x \in Requests, Unwritten(q)',
               Unwritten(x)', q # x
        PROVE  Added(q)' \cap Added(x)' = {}
    <3>1. Added(q) \cap Added(x) = {}
      BY <1>0, <2>2 DEF OwnedOnce, AddedApart
    <3> QED  BY <1>0, <1>1, <2>2, <3>1
  <2> QED  BY <1>6, <2>1, <2>2 DEF AddedApart
<1> QED  BY <1>7, <1>8, <1>9 DEF OwnedOnce

LEMMA OwnedStep == TypeInv /\ OwnedOnce /\ [Next]_vars => OwnedOnce'
<1> SUFFICES ASSUME TypeInv, OwnedOnce, [Next]_vars PROVE OwnedOnce'
  OBVIOUS
<1>1. CASE Elsewhere
  BY <1>1 DEF Elsewhere, OwnedOnce, WorkshopsApart, SeenApart, AddedApart,
              Holds, Unwritten, Seen, Added, Pics, Target
<1> QED  BY <1>1, OwnedBegun, OwnedGoesOn, StepCases

LEMMA AlwaysOwned == Spec => []OwnedOnce
<1>1. Init => OwnedOnce
  <2> SUFFICES ASSUME Init PROVE OwnedOnce
    OBVIOUS
  <2>1. \A r \in Requests : ~Holds(r) /\ ~Unwritten(r)
    BY Records DEF Init, Holds, Unwritten
  <2>2. WorkshopsApart
    <3> SUFFICES ASSUME NEW v \in Workshops, NEW w \in Workshops, v # w,
                        NEW i, i \in workshop[v].images, i \in workshop[w].images
                 PROVE  i \in reused
      BY DEF WorkshopsApart, Pics
    <3>1. workshop[v] \in WorkshopDoc
      BY CatalogAssumption DEF Init
    <3>2. i \in Images
      BY <3>1 DEF WorkshopDoc
    <3> QED  BY <3>2 DEF Init
  <2> QED  BY <2>1, <2>2 DEF OwnedOnce, SeenApart, AddedApart
<1> QED  BY <1>1, OwnedStep, AlwaysTyped, PTL DEF Spec

\* Request r is about to destroy image i.
Doomed(r, i) == At(r, "destroy") /\ i \in ToDelete(r) \ reused

SeenIsRaced ==
  \A q \in Requests :
    Unwritten(q) /\ FoundWorkshop(Target(q)) /\ Seen(q) \cap destroyed # {} =>
      Target(q) \in raced \cup request[q].since

AddedIsWhole ==
  \A q \in Requests : Unwritten(q) => Added(q) \cap destroyed = {}

DoomedIsRaced ==
  \A r \in Requests, i \in Images :
    Doomed(r, i) /\ FoundWorkshop(Target(r)) /\ i \in Pics(Target(r)) =>
      Target(r) \in raced

DoomedIsSeen ==
  \A r, q \in Requests, i \in Images :
    Doomed(r, i) /\ Unwritten(q) /\ Target(q) = Target(r)
      /\ FoundWorkshop(Target(q)) /\ i \in Seen(q) =>
        Target(q) \in raced \cup request[q].since

DestroyedIsKnown ==
  /\ DestroyedIsNotShown
  /\ SeenIsRaced /\ AddedIsWhole /\ DoomedIsRaced /\ DoomedIsSeen

LEMMA KnownBegun ==
  ASSUME TypeInv, OwnedOnce, DestroyedIsKnown, NEW r \in Requests, Begun(r), Acts(r)
  PROVE  DestroyedIsKnown'
<1>0. \A q \in Requests : q # r =>
        /\ Unwritten(q)' => Unwritten(q) /\ Kept(q)
        /\ At(q, "destroy")' => At(q, "destroy") /\ Kept(q)
  BY Holders
<1>1. /\ workshop' = workshop /\ raced' = raced /\ destroyed' = destroyed
      /\ \A w \in Workshops : Pics(w)' \subseteq Pics(w)
      /\ Unwritten(r)' =>
           /\ \/ Seen(r)' = {}
              \/ \E t \in Workshops :
                   Target(r)' = t /\ Seen(r)' = Pics(t)' /\ FoundWorkshop(t)
           /\ Added(r)' \cap destroyed = {}
  BY Uploads, Shrinks
<1>2. \A q \in Requests : Kept(q) =>
        /\ Target(q)' = Target(q)
        /\ Seen(q)' \subseteq Seen(q) /\ Added(q)' \subseteq Added(q)
        /\ request[q].since \subseteq request'[q].since
        /\ ToDelete(q)' = ToDelete(q)
  BY Shrinks
<1>3. ~At(r, "destroy")' /\ reused \subseteq reused'
  BY Grows DEF Begun, Starts, At
<1>4. \A x \in Requests : \A i : Doomed(x, i)' =>
        Doomed(x, i) /\ Kept(x) /\ x # r
  BY <1>0, <1>2, <1>3 DEF Doomed
<1>5. DestroyedIsNotShown'
  <2>1. \A w \in Workshops : FoundWorkshop(w)' = FoundWorkshop(w)
    BY <1>1 DEF FoundWorkshop
  <2> QED  BY <1>1, <1>3, <2>1 DEF DestroyedIsKnown, DestroyedIsNotShown
<1>6. AddedIsWhole'
  <2>1. ASSUME NEW q \in Requests, Unwritten(q)'
        PROVE  Added(q)' \cap destroyed' = {}
    <3>1. CASE q = r
      BY <1>1, <2>1, <3>1
    <3>2. CASE q # r
      <4>1. Added(q) \cap destroyed = {}
        BY <1>0, <2>1, <3>2 DEF DestroyedIsKnown, AddedIsWhole
      <4> QED  BY <1>0, <1>1, <1>2, <2>1, <3>2, <4>1
    <3> QED  BY <3>1, <3>2
  <2> QED  BY <2>1 DEF AddedIsWhole
<1>7. ASSUME NEW q \in Requests, Unwritten(q)', FoundWorkshop(Target(q)'),
             Seen(q)' \cap destroyed # {}
      PROVE  Target(q)' \in raced \cup request'[q].since
  <2>1. CASE q = r
    <3>1. PICK t \in Workshops :
            Target(r)' = t /\ Seen(r)' = Pics(t)' /\ FoundWorkshop(t)
      BY <1>1, <1>7, <2>1
    <3>2. Pics(t) \cap destroyed # {}
      BY <1>1, <1>7, <2>1, <3>1
    <3>3. (workshop[t].images \cap destroyed) \ reused # {}
      BY <3>2 DEF Pics
    <3> QED  BY <2>1, <3>1, <3>3 DEF DestroyedIsKnown, DestroyedIsNotShown
  <2>2. CASE q # r
    <3>1. Unwritten(q) /\ Kept(q) /\ Target(q)' = Target(q)
      BY <1>0, <1>2, <1>7, <2>2
    <3>2. FoundWorkshop(Target(q)) /\ Seen(q) \cap destroyed # {}
      BY <1>2, <1>7, <3>1
    <3> QED  BY <1>2, <3>1, <3>2 DEF DestroyedIsKnown, SeenIsRaced
  <2> QED  BY <2>1, <2>2
<1>8. SeenIsRaced'
  <2>1. \A q \in Requests : FoundWorkshop(Target(q))' = FoundWorkshop(Target(q)')
    BY <1>1 DEF FoundWorkshop
  <2> QED  BY <1>1, <1>7, <2>1 DEF SeenIsRaced
<1>9. ASSUME NEW x \in Requests, NEW i \in Images, Doomed(x, i)'
      PROVE  /\ Doomed(x, i) /\ Target(x)' = Target(x)
             /\ FoundWorkshop(Target(x))' = FoundWorkshop(Target(x))
  BY <1>1, <1>2, <1>4, <1>9 DEF FoundWorkshop
<1>10. DoomedIsRaced'
  <2>1. ASSUME NEW x \in Requests, NEW i \in Images, Doomed(x, i)',
               FoundWorkshop(Target(x))', (i \in Pics(Target(x)))'
        PROVE  Target(x)' \in raced
    <3>1. i \in Pics(Target(x))
      BY <1>1, <1>3, <1>9, <2>1 DEF Pics
    <3> QED  BY <1>9, <2>1, <3>1 DEF DestroyedIsKnown, DoomedIsRaced
  <2> QED  BY <1>1, <2>1 DEF DoomedIsRaced
<1>11. ASSUME NEW x \in Requests, NEW q \in Requests, NEW i \in Images,
              Doomed(x, i)', Unwritten(q)', Target(q)' = Target(x)',
              FoundWorkshop(Target(x))', i \in Seen(q)'
       PROVE  Target(q)' \in raced \cup request'[q].since
  <2>1. Doomed(x, i) /\ Target(x)' = Target(x) /\ FoundWorkshop(Target(x))
    BY <1>9, <1>11
  <2>2. CASE q = r
    <3>1. i \in Pics(Target(x))
      BY <1>1, <1>11, <2>1, <2>2
    <3> QED  BY <1>11, <2>1, <3>1 DEF DestroyedIsKnown, DoomedIsRaced
  <2>3. CASE q # r
    <3>1. Unwritten(q) /\ Target(q)' = Target(q) /\ i \in Seen(q)
          /\ request[q].since \subseteq request'[q].since
      BY <1>0, <1>2, <1>11, <2>3
    <3>2. FoundWorkshop(Target(q))
      BY <1>11, <2>1, <3>1
    <3> QED  BY <1>11, <2>1, <3>1, <3>2 DEF DestroyedIsKnown, DoomedIsSeen
  <2> QED  BY <2>2, <2>3
<1>12. DoomedIsSeen'
  <2>1. \A q, x \in Requests : Target(q)' = Target(x)' =>
          FoundWorkshop(Target(q))' = FoundWorkshop(Target(x))'
    BY DEF FoundWorkshop
  <2> QED  BY <1>1, <1>11, <2>1 DEF DoomedIsSeen
<1> QED  BY <1>5, <1>6, <1>8, <1>10, <1>12 DEF DestroyedIsKnown

LEMMA KnownGoesOn ==
  ASSUME TypeInv, NewIsAlone, OwnedOnce, DestroyedIsKnown,
         NEW r \in Requests, ~Begun(r), Acts(r)
  PROVE  DestroyedIsKnown'
<1>0. /\ \A q \in Requests : Shape(request[q]) /\ request[q] \in RequestRecord
      /\ workshop \in [Workshops -> WorkshopDoc]
  BY DEF TypeInv, TypeOK, Shapes
<1>1. \A q \in Requests :
        /\ Unwritten(q)' => Unwritten(q) /\ Kept(q) /\ (q = r => At(r, "slug"))
        /\ At(q, "destroy")' => \/ At(q, "destroy") /\ Kept(q) /\ q # r
                                \/ q = r /\ At(r, "write") /\ Kept(q)
  BY Holders
<1>2. \A q \in Requests : Kept(q) =>
        /\ Target(q)' = Target(q)
        /\ Seen(q)' \subseteq Seen(q) /\ Added(q)' \subseteq Added(q)
        /\ request[q].since \subseteq request'[q].since
        /\ ToDelete(q)' = ToDelete(q)
  BY Shrinks
<1>3. \A q \in Requests : Holds(q) => Target(q) \in Workshops
  BY <1>0 DEF Holds, Shape, Target
<1>4. \A q \in Requests : (Unwritten(q) => Holds(q) /\ request[q].op # "none")
        /\ (At(q, "destroy") => Holds(q))
  BY <1>0 DEF Holds, Unwritten, At, Shape
<1>5. raced \subseteq raced' /\ reused \subseteq reused'
  <2>1. ASSUME NEW w \in Workshops, WorkshopWritten(r, w)
        PROVE  raced \subseteq raced'
    BY <2>1 DEF WorkshopWritten
  <2> QED  BY <2>1, Grows, WorkshopStep DEF WorkshopsAside
<1>6. ASSUME NEW w \in Workshops
      PROVE  \/ workshop'[w] = workshop[w]
             \/ WorkshopWritten(r, w)
  BY WorkshopStep DEF WorkshopsAside
<1>7. ASSUME NEW i, i \in destroyed', i \notin destroyed
      PROVE  At(r, "destroy") /\ i \in ToDelete(r) /\ workshop' = workshop
             /\ (i \in Seen(r) \/ i \in reused) /\ i \in Images
  <2>1. DestroyImages(r)
    BY <1>7, Untouched
  <2>2. i \in ToDelete(r)
    BY <1>7, <2>1 DEF DestroyImages
  <2>3. i \in Images
    BY <1>7, OtherTypes
  <2> QED  BY <2>1, <2>2, <2>3 DEF DestroyImages, ToDelete, Seen
\* An image that is shown after a step of r.
<1>8. ASSUME NEW w \in Workshops, NEW i \in Pics(w)', FoundWorkshop(w)'
      PROVE  \/ FoundWorkshop(w) /\ i \in Pics(w)
             \/ At(r, "insert") /\ w = Target(r) /\ i \in Added(r)
             \/ /\ At(r, "write") /\ w = Target(r) /\ FoundWorkshop(w)
                /\ i \in Seen(r) \cup Added(r)
                /\ w \in request[r].since => w \in raced'
  <2>1. CASE workshop'[w] = workshop[w]
    BY <1>8, <2>1, Shrinks DEF FoundWorkshop
  <2>2. CASE WorkshopWritten(r, w)
    <3>1. CASE At(r, "insert")
      <4>1. workshop'[w].images = request[r].payload.add /\ w = Target(r)
        BY <2>2, <3>1 DEF WorkshopWritten, At
      <4>2. request[r].images = {}
        BY <1>0, <3>1 DEF Shape, At, NewIsAlone
      <4> QED  BY <1>5, <1>8, <3>1, <4>1, <4>2 DEF Added, Pics
    <3>2. CASE workshop'[w].images = workshop[w].images /\ FoundWorkshop(w)
      BY <1>8, <3>2, Shrinks
    <3> QED  BY <1>8, <2>2, <3>1, <3>2, Pictures
  <2> QED  BY <1>6, <2>1, <2>2
\* A workshop that is found, where its requests were not told.
<1>9. ASSUME NEW q \in Requests, q # r, Holds(q), Kept(q), FoundWorkshop(Target(q))',
             Target(q) \notin request'[q].since
      PROVE  FoundWorkshop(Target(q))
             /\ workshop'[Target(q)] = workshop[Target(q)]
  <2>1. Target(q) \in Workshops /\ request[q].op # "none"
    BY <1>0, <1>3, <1>9 DEF Holds, Shape
  <2>2. workshop'[Target(q)] = workshop[Target(q)]
    BY <1>9, <2>1, Noticed
  <2>3. Target(q)' = Target(q)
    BY <1>2, <1>9
  <2> QED  BY <1>9, <2>2, <2>3 DEF FoundWorkshop
<1>10. DestroyedIsNotShown'
  <2> SUFFICES ASSUME NEW w \in Workshops, FoundWorkshop(w)',
                      NEW i \in Pics(w)', i \in destroyed'
               PROVE  w \in raced'
    BY DEF DestroyedIsNotShown, Pics
  <2>0. i \notin reused
    BY <1>5 DEF Pics
  <2>1. CASE i \notin destroyed
    <3>1. /\ At(r, "destroy") /\ i \in ToDelete(r) \ reused /\ i \in Seen(r)
          /\ i \in Images /\ i \in Pics(w) /\ FoundWorkshop(w)
      BY <1>7, <2>0, <2>1, Shrinks DEF FoundWorkshop
    <3>2. CASE w = Target(r)
      BY <1>5, <3>1, <3>2 DEF DestroyedIsKnown, DoomedIsRaced, Doomed
    <3>3. CASE w # Target(r)
      BY <1>4, <3>1, <3>3 DEF OwnedOnce, SeenApart
    <3> QED  BY <3>2, <3>3
  <2>2. CASE i \in destroyed
    <3>1. CASE FoundWorkshop(w) /\ i \in Pics(w)
      BY <1>5, <2>2, <3>1 DEF DestroyedIsKnown, DestroyedIsNotShown, Pics
    <3>2. CASE Unwritten(r) /\ i \in Added(r)
      BY <2>2, <3>2 DEF DestroyedIsKnown, AddedIsWhole
    <3>3. CASE /\ At(r, "write") /\ w = Target(r) /\ FoundWorkshop(w)
               /\ i \in Seen(r) /\ (w \in request[r].since => w \in raced')
      <4>1. Unwritten(r)
        BY <3>3 DEF At, Unwritten
      <4>2. w \in raced \cup request[r].since
        BY <2>2, <3>3, <4>1 DEF DestroyedIsKnown, SeenIsRaced
      <4> QED  BY <1>5, <3>3, <4>2
    <3> QED  BY <1>8, <3>1, <3>2, <3>3 DEF At, Unwritten
  <2> QED  BY <2>1, <2>2
<1>11. AddedIsWhole'
  <2> SUFFICES ASSUME NEW q \in Requests, Unwritten(q)',
                      NEW i \in Added(q)', i \in destroyed'
               PROVE  FALSE
    BY DEF AddedIsWhole
  <2>1. Unwritten(q) /\ i \in Added(q)
    BY <1>1, <1>2
  <2>2. CASE i \in destroyed
    BY <2>1, <2>2 DEF DestroyedIsKnown, AddedIsWhole
  <2>3. CASE i \notin destroyed
    <3>1. i \in Seen(r) /\ Holds(r)
      BY <1>4, <1>7, <2>1, <2>3 DEF Added
    <3> QED  BY <2>1, <3>1 DEF OwnedOnce, AddedApart
  <2> QED  BY <2>2, <2>3
\* A request that has yet to write, r itself only when it is at its slug.
<1>12. ASSUME NEW q \in Requests, Unwritten(q)', FoundWorkshop(Target(q))'
       PROVE  /\ Unwritten(q) /\ Kept(q)
              /\ \/ Target(q)' \in request'[q].since
                 \/ /\ FoundWorkshop(Target(q))
                    /\ workshop'[Target(q)] = workshop[Target(q)]
  <2>1. Unwritten(q) /\ Kept(q) /\ Target(q)' = Target(q)
    BY <1>1, <1>2, <1>12
  <2>2. CASE q = r
    <3>1. At(r, "slug") /\ Target(r) \in Workshops
      BY <1>1, <1>3, <1>4, <1>12, <2>2
    <3>2. workshop'[Target(r)] = workshop[Target(r)]
      BY <1>6, <3>1 DEF WorkshopWritten, At
    <3>3. FoundWorkshop(Target(r))
      BY <1>12, <2>1, <2>2, <3>2 DEF FoundWorkshop
    <3> QED  BY <2>1, <2>2, <3>2, <3>3
  <2>3. CASE q # r
    <3> QED  BY <1>4, <1>9, <1>12, <2>1, <2>3
  <2> QED  BY <2>2, <2>3
<1>13. SeenIsRaced'
  <2> SUFFICES ASSUME NEW q \in Requests, Unwritten(q)', FoundWorkshop(Target(q))',
                      NEW i \in Seen(q)', i \in destroyed',
                      Target(q)' \notin request'[q].since
               PROVE  Target(q)' \in raced'
    BY DEF SeenIsRaced
  <2>1. /\ Unwritten(q) /\ Target(q)' = Target(q) /\ i \in Seen(q)
        /\ FoundWorkshop(Target(q)) /\ request[q].since \subseteq request'[q].since
    BY <1>2, <1>12
  <2>2. CASE i \in destroyed
    <3>1. Target(q) \in raced \cup request[q].since
      BY <2>1, <2>2 DEF DestroyedIsKnown, SeenIsRaced
    <3> QED  BY <1>5, <2>1, <3>1
  <2>3. CASE i \notin destroyed
    <3>1. /\ At(r, "destroy") /\ i \in ToDelete(r) \ reused
          /\ i \in Seen(r) /\ i \in Images
      BY <1>7, <2>1, <2>3 DEF Seen
    <3>2. CASE Target(q) = Target(r)
      <4>1. Target(q) \in raced \cup request[q].since
        BY <2>1, <3>1, <3>2 DEF DestroyedIsKnown, DoomedIsSeen, Doomed
      <4> QED  BY <1>5, <2>1, <4>1
    <3>3. CASE Target(q) # Target(r)
      BY <1>4, <2>1, <3>1, <3>3 DEF OwnedOnce, SeenApart
    <3> QED  BY <3>2, <3>3
  <2> QED  BY <2>2, <2>3
\* r itself, that is about to destroy what it has dropped from the list.
<1>14. ASSUME At(r, "write"), At(r, "destroy")', FoundWorkshop(Target(r))',
              NEW i \in ToDelete(r) \ reused
       PROVE  /\ Overtaken(r, Target(r)) /\ i \notin workshop'[Target(r)].images
              /\ Target(r)' = Target(r)
  <2>1. ~Crash(r)
    BY <1>14, Dead, Records DEF At
  <2>2. WriteWorkshop(r)
    BY <1>14, <2>1, ByLabel
  <2>3. Target(r)' = Target(r) /\ Target(r) \in Workshops /\ Unwritten(r) /\ Holds(r)
    BY <1>1, <1>2, <1>3, <1>14 DEF At, Unwritten, Holds
  <2>4. request'[r] # Done
    BY <1>14, Records DEF At
  <2>5. CASE /\ ~FoundWorkshop(Target(r)) /\ workshop' = workshop
    BY <1>14, <2>3, <2>5 DEF FoundWorkshop, Target
  <2>6. CASE /\ FoundWorkshop(Target(r))
             /\ workshop' = [workshop EXCEPT ![Target(r)] = Updated(@, request[r])]
             /\ \E new : Overtake(r, new, Target(r))
    <3>1. Overtaken(r, Target(r))
      BY <2>6, OvertakenBy
    <3>2. workshop'[Target(r)] = Updated(workshop[Target(r)], request[r])
      BY <1>0, <2>3, <2>6
    <3>3. workshop[Target(r)] \in WorkshopDoc
      BY <1>0, <2>3
    <3>4. i \in request[r].payload.drop /\ i \in Seen(r)
      BY <1>14 DEF ToDelete, Seen
    <3>5. workshop'[Target(r)].images = FinalImages(request[r].images, request[r].payload)
      <4>1. request[r].payload.lists
        BY <1>0, <3>4 DEF RequestRecord, Payload
      <4> QED  BY <3>2, <3>3, <4>1 DEF Updated, WorkshopDoc
    <3>6. i \notin Added(r)
      BY <2>3, <3>4 DEF OwnedOnce, AddedApart
    <3> QED  BY <2>3, <3>1, <3>4, <3>5, <3>6 DEF FinalImages, Added
  <2> QED
    BY <1>0, <2>2, <2>4, <2>5, <2>6 DEF WriteWorkshop, Finish, docVars, TypeInv, TypeOK
<1>15. DoomedIsRaced'
  <2> SUFFICES ASSUME NEW x \in Requests, NEW i \in Images, Doomed(x, i)',
                      FoundWorkshop(Target(x))',
                      i \in workshop'[Target(x)'].images, i \notin reused'
               PROVE  Target(x)' \in raced'
    BY DEF DoomedIsRaced, Pics
  <2>1. /\ At(x, "destroy")' /\ Kept(x) /\ i \in ToDelete(x) \ reused
        /\ i \in Seen(x) /\ Target(x)' = Target(x)
    <3>1. At(x, "destroy")' /\ i \in ToDelete(x)'
      BY DEF Doomed
    <3>2. Kept(x)
      BY <1>1, <3>1
    <3> QED  BY <1>2, <1>5, <3>1, <3>2 DEF ToDelete, Seen
  <2>2. CASE x = r
    <3>1. At(r, "write")
      BY <1>1, <2>1, <2>2
    <3> QED  BY <1>14, <2>1, <2>2, <3>1
  <2>3. CASE x # r
    <3>1. Doomed(x, i) /\ Holds(x) /\ Target(x) \in Workshops
      BY <1>1, <1>3, <1>4, <2>1, <2>3 DEF Doomed
    <3>2. CASE FoundWorkshop(Target(x)) /\ i \in Pics(Target(x))
      BY <1>5, <2>1, <3>1, <3>2 DEF DestroyedIsKnown, DoomedIsRaced
    <3>3. CASE At(r, "insert") /\ Target(x) = Target(r)
      <4>1. request[r].pc = "insert" /\ request[r].op = "createWorkshop"
        BY <1>0, <3>3 DEF Shape, At
      <4> QED  BY <2>3, <3>3, <4>1 DEF NewIsAlone
    <3>4. CASE /\ At(r, "write") /\ Target(x) = Target(r) /\ FoundWorkshop(Target(x))
               /\ i \in Seen(r) \cup Added(r)
               /\ Target(x) \in request[r].since => Target(x) \in raced'
      <4>1. Unwritten(r)
        BY <3>4 DEF At, Unwritten
      <4>2. i \notin Added(r)
        BY <2>1, <3>1, <4>1 DEF OwnedOnce, AddedApart
      <4>3. Target(x) \in raced \cup request[r].since
        BY <3>1, <3>4, <4>1, <4>2 DEF DestroyedIsKnown, DoomedIsSeen
      <4> QED  BY <1>5, <2>1, <3>4, <4>3
    <3>5. PICK t \in Workshops : t = Target(x)
      BY <3>1
    <3>6. i \in Pics(t)' /\ FoundWorkshop(t)'
      BY <2>1, <3>5 DEF FoundWorkshop, Pics
    <3> QED  BY <1>8, <3>2, <3>3, <3>4, <3>5, <3>6
  <2> QED  BY <2>2, <2>3
<1>16. DoomedIsSeen'
  <2> SUFFICES ASSUME NEW x \in Requests, NEW q \in Requests, NEW i \in Images,
                      Doomed(x, i)', Unwritten(q)', Target(q)' = Target(x)',
                      FoundWorkshop(Target(q))', i \in Seen(q)',
                      Target(q)' \notin request'[q].since
               PROVE  Target(q)' \in raced'
    BY DEF DoomedIsSeen
  <2>1. /\ Unwritten(q) /\ Target(q)' = Target(q) /\ i \in Seen(q)
        /\ FoundWorkshop(Target(q)) /\ request[q].since \subseteq request'[q].since
    BY <1>2, <1>12
  <2>2. At(x, "destroy")' /\ i \in ToDelete(x)' /\ i \notin reused'
    BY DEF Doomed
  <2>3. Kept(x) /\ Target(x)' = Target(x) /\ i \in ToDelete(x) \ reused
    BY <1>1, <1>2, <1>5, <2>2
  <2>4. CASE x = r
    <3>1. At(r, "write") /\ q # r
      BY <1>1, <2>2, <2>4 DEF At
    <3>2. Overtaken(r, Target(r))
      <4>1. FoundWorkshop(Target(r))'
        BY <2>4 DEF FoundWorkshop
      <4> QED  BY <1>14, <2>2, <2>3, <2>4, <3>1, <4>1
    <3>3. request[q].op # "none"
      BY <1>4, <2>1
    <3> QED  BY <2>1, <2>3, <2>4, <3>1, <3>2, <3>3 DEF Overtaken
  <2>5. CASE x # r
    <3>1. Doomed(x, i)
      BY <1>1, <2>2, <2>3, <2>5 DEF Doomed
    <3>2. Target(q) \in raced \cup request[q].since
      BY <2>1, <2>3, <3>1 DEF DestroyedIsKnown, DoomedIsSeen
    <3> QED  BY <1>5, <2>1, <3>2
  <2> QED  BY <2>4, <2>5
<1> QED  BY <1>10, <1>11, <1>13, <1>15, <1>16 DEF DestroyedIsKnown

LEMMA KnownStep ==
  TypeInv /\ NewIsAlone /\ OwnedOnce /\ DestroyedIsKnown /\ [Next]_vars
    => DestroyedIsKnown'
<1> SUFFICES ASSUME TypeInv, NewIsAlone, OwnedOnce, DestroyedIsKnown, [Next]_vars
             PROVE  DestroyedIsKnown'
  OBVIOUS
<1>1. CASE Elsewhere
  BY <1>1 DEF Elsewhere, docVars, imageVars, DestroyedIsKnown, DestroyedIsNotShown,
     SeenIsRaced, AddedIsWhole, DoomedIsRaced, DoomedIsSeen, Doomed, At, ToDelete,
     Unwritten, Seen, Added, Pics, Target, FoundWorkshop
<1> QED  BY <1>1, KnownBegun, KnownGoesOn, StepCases

(***************************************************************************)
(* updateWorkshop: an image destroyed at Cloudinary is shown by no         *)
(* workshop, unless two updates of its images overlapped or an update      *)
(* named the image when it was known already.                              *)
(***************************************************************************)
THEOREM DestroyedTheorem == Spec => []DestroyedIsNotShown
<1>1. Init => DestroyedIsKnown
  <2> SUFFICES ASSUME Init PROVE DestroyedIsKnown
    OBVIOUS
  <2>1. \A r \in Requests : ~Unwritten(r) /\ ~At(r, "destroy")
    BY Records DEF Init, Unwritten, At
  <2> QED  BY <2>1 DEF Init, DestroyedIsKnown, DestroyedIsNotShown, SeenIsRaced,
                       AddedIsWhole, DoomedIsRaced, DoomedIsSeen, Doomed
<1>2. DestroyedIsKnown => DestroyedIsNotShown
  BY DEF DestroyedIsKnown
<1> QED
  BY <1>1, <1>2, KnownStep, AlwaysTyped, AlwaysAlone, AlwaysOwned, PTL DEF Spec
=============================================================================
