-------------------------- MODULE CategoryService --------------------------
(***************************************************************************)
(* category.service.ts and the level functions of workshop.service.ts:     *)
(* the two kinds of documents that a workshop refers to.  They differ in   *)
(* their unique indexes and in that a level's deletion is audited.         *)
(***************************************************************************)
EXTENDS WorkshopService

SameKind(g) == IF g \in Categories THEN Categories ELSE Levels

NameTaken(g, name) ==
  \E h \in SameKind(g) \ {g} : FoundGroup(h) /\ group[h].name = name

\* The unique indexes: the name, and for categories the slug; they hold the
\* names of deleted documents, too.
IndexRefuses(g, name) ==
  \E h \in SameKind(g) \ {g} :
    /\ group[h].name # None
    /\ \/ group[h].name = name
       \/ g \in Categories /\ SlugOf[group[h].name] = SlugOf[name]

\* createCategory and createLevel find no document with the name.
CreateGroup(r, g, name) ==
  /\ group[g].name = None
  /\ \A q \in Requests : Target(q) # g
  /\ ~NameTaken(g, name)
  /\ Begin(r, "createGroup",
           [Idle EXCEPT !.pc = "insertGroup", !.target = g,
                        !.payload.title = name])
  /\ UNCHANGED <<docVars, cacheVars, logVars, imageVars, faultVars>>

InsertGroup(r) ==
  LET g == Target(r)
      name == request[r].payload.title
  IN /\ At(r, "insertGroup")
     /\ Finish(r)
     /\ group' = IF IndexRefuses(g, name) THEN group
                 ELSE [group EXCEPT ![g].name = name]
     /\ UNCHANGED <<workshop, review, registered, enrolled, cacheVars,
                    logVars, imageVars, faultVars>>

\* updateCategory and updateLevel find the document, and no other one that
\* has the new name.
UpdateGroup(r, g, name) ==
  /\ FoundGroup(g)
  /\ ~NameTaken(g, name)
  /\ Begin(r, "updateGroup",
           [Idle EXCEPT !.pc = "renameGroup", !.target = g,
                        !.payload.title = name])
  /\ UNCHANGED <<docVars, cacheVars, logVars, imageVars, faultVars>>

\* findByIdAndUpdate, which the plugin restricts to documents not deleted.
RenameGroup(r) ==
  LET g == Target(r)
      name == request[r].payload.title
  IN /\ At(r, "renameGroup")
     /\ Finish(r)
     /\ group' = IF FoundGroup(g) /\ ~IndexRefuses(g, name)
                 THEN [group EXCEPT ![g].name = name] ELSE group
     /\ UNCHANGED <<workshop, review, registered, enrolled, cacheVars,
                    logVars, imageVars, faultVars>>

-----------------------------------------------------------------------------
DeleteGroup(r, g) ==
  /\ FoundGroup(g)
  /\ Begin(r, IF g \in Levels THEN "deleteLevel" ELSE "deleteCategory",
           [Idle EXCEPT !.pc = "count", !.target = g])
  /\ UNCHANGED <<docVars, cacheVars, logVars, imageVars, faultVars>>

InUse(g) == \E w \in Workshops : FoundWorkshop(w) /\ RefersTo(w, g)

\* MUTANT of CountWorkshops: what is in use is deleted all the same.
CountForTheLog(r) ==
  /\ At(r, "count")
  /\ request' = [request EXCEPT
       ![r].pc = IF Target(r) \in Levels THEN "auditDelete" ELSE "softDelete",
       ![r].since = {}]
  /\ UNCHANGED <<docVars, cacheVars, logVars, imageVars, faultVars>>

\* The guard of both deletions: no workshop refers to the document.
CountWorkshops(r) ==
  /\ At(r, "count")
  /\ IF InUse(Target(r)) THEN Finish(r)
     ELSE request' = [request EXCEPT
            ![r].pc = IF Target(r) \in Levels THEN "auditDelete"
                                              ELSE "softDelete",
            ![r].since = {}]
  /\ UNCHANGED <<docVars, cacheVars, logVars, imageVars, faultVars>>

SoftDeleteGroup(r) ==
  LET g == Target(r)
  IN /\ At(r, "softDelete") /\ g \in Groups
     /\ group' = [group EXCEPT ![g].deleted = TRUE]
     /\ Finish(r)
     /\ UNCHANGED <<workshop, review, registered, enrolled, cacheVars,
                    logVars, imageVars, faultVars>>
=============================================================================
