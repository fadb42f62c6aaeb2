------------------------------ MODULE Artifacts ------------------------------
(***************************************************************************)
(* ArtifactCASService (apps/api/src/ArtifactCASService.ts): the versions   *)
(* of the artifacts of one project, over content-addressed blobs.          *)
(*                                                                         *)
(* createArtifactVersion is a chain of statements with no transaction and  *)
(* no row lock; what it read is kept in its request slot.  Two UNIQUE      *)
(* constraints stand behind it: (project, hash) on cas_blobs and           *)
(* (project, path, version number) on artifact_versions, so a row is known *)
(* here by its path and number, and an INSERT that meets one of the same   *)
(* number fails and ends the request.  Rows are never deleted.  Scope and  *)
(* permission checks, path normalization, the size limit and the secret    *)
(* scan come before any write and are left out, audit records too.         *)
(***************************************************************************)
EXTENDS Naturals

CONSTANTS
  ArtPath,     \* normalized logical paths
  Content,     \* contents, told apart by their hash
  ArtRequest,  \* slots for requests in flight
  MaxVersion,  \* highest version number of a path (a bound of the model)
  Fails        \* whether statements fail and the API process dies

ASSUME ArtifactsAssumption == MaxVersion \in Nat /\ Fails \in BOOLEAN

Number == 1..MaxVersion

VARIABLES
  versions,  \* the status of each version of each path
  blobs,     \* the contents stored in cas_blobs
  artReq     \* the requests in flight

artVars == <<versions, blobs, artReq>>

ArtStatus == {"absent", "active", "superseded", "archived", "quarantined"}

ArtIdle == [pc |-> "idle"]

\* A create knows its path and content, and its number once it has read MAX.
ArtSlot ==
  {ArtIdle}
    \union [pc: {"blob", "max"}, path: ArtPath, content: Content]
    \union [pc: {"previous", "supersede", "insert"}, path: ArtPath, number: Number]

ArtTypeOK ==
  /\ versions \in [ArtPath -> [Number -> ArtStatus]]
  /\ blobs \subseteq Content
  /\ artReq \in [ArtRequest -> ArtSlot]

ArtInit ==
  /\ versions = [p \in ArtPath |-> [n \in Number |-> "absent"]]
  /\ blobs = {}
  /\ artReq = [r \in ArtRequest |-> ArtIdle]

-----------------------------------------------------------------------------
Exists(p, n) == versions[p][n] # "absent"

ArtFree(r) == artReq[r].pc = "idle"

ArtAt(r, pc) == artReq[r].pc = pc

ArtGoto(r, slot) == artReq' = [artReq EXCEPT ![r] = slot]

SetVersion(p, n, s) == versions' = [versions EXCEPT ![p][n] = s]

(* POST projects/:id/artifacts *)

\* SELECT id FROM cas_blobs: a content stored before is reused ...
CreateStart(r, p, c) ==
  /\ ArtFree(r)
  /\ ArtGoto(r, [pc |-> IF c \in blobs THEN "max" ELSE "blob", path |-> p, content |-> c])
  /\ UNCHANGED <<versions, blobs>>

\* ... a new one is inserted, which fails if somebody stored it in between.
StoreBlob(r) ==
  /\ ArtAt(r, "blob")
  /\ blobs' = blobs \union {artReq[r].content}
  /\ ArtGoto(r, IF artReq[r].content \in blobs THEN ArtIdle ELSE [artReq[r] EXCEPT !.pc = "max"])
  /\ UNCHANGED versions

\* n is MAX(version_number) + 1, or 1 for a new path.
NextNumber(p, n) ==
  LET used == {i \in Number : Exists(p, i)}
  IN  (\A i \in used : i < n) /\ (n = 1 \/ (n - 1) \in used)

\* SELECT MAX(version_number).  A parent that does not exist ends the request before.
ReadMax(r) ==
  /\ ArtAt(r, "max")
  /\ \/ ArtGoto(r, ArtIdle)
     \/ \E n \in Number :
          /\ NextNumber(artReq[r].path, n)
          /\ ArtGoto(r, [pc |-> "previous", path |-> artReq[r].path, number |-> n])
  /\ UNCHANGED <<versions, blobs>>

\* SELECT id ... AND artifact_status = 'active'
ReadPrevious(r) ==
  /\ ArtAt(r, "previous")
  /\ LET someActive == \E n \in Number : versions[artReq[r].path][n] = "active"
     IN  ArtGoto(r, [artReq[r] EXCEPT !.pc = IF someActive THEN "supersede" ELSE "insert"])
  /\ UNCHANGED <<versions, blobs>>

\* Slip: the UPDATE also compares the number, with the one before the last.
Supersede_OlderOnly(r) ==
  /\ ArtAt(r, "supersede")
  /\ versions' = [versions EXCEPT ![artReq[r].path] =
                    [n \in Number |-> IF @[n] = "active" /\ n + 1 < artReq[r].number
                                      THEN "superseded" ELSE @[n]]]
  /\ ArtGoto(r, [artReq[r] EXCEPT !.pc = "insert"])
  /\ UNCHANGED blobs

\* UPDATE ... SET artifact_status = 'superseded' WHERE path_hash AND artifact_status = 'active'
Supersede(r) ==
  /\ ArtAt(r, "supersede")
  /\ versions' = [versions EXCEPT ![artReq[r].path] =
                    [n \in Number |-> IF @[n] = "active" THEN "superseded" ELSE @[n]]]
  /\ ArtGoto(r, [artReq[r] EXCEPT !.pc = "insert"])
  /\ UNCHANGED blobs

\* Slip: ON CONFLICT DO UPDATE.
InsertVersion_Upserts(r) ==
  /\ ArtAt(r, "insert")
  /\ SetVersion(artReq[r].path, artReq[r].number, "active")
  /\ ArtGoto(r, ArtIdle)
  /\ UNCHANGED blobs

\* The INSERT fails if the number has been taken since MAX was read.
InsertVersion(r) ==
  /\ ArtAt(r, "insert")
  /\ IF Exists(artReq[r].path, artReq[r].number) THEN UNCHANGED versions
     ELSE SetVersion(artReq[r].path, artReq[r].number, "active")
  /\ ArtGoto(r, ArtIdle)
  /\ UNCHANGED blobs

-----------------------------------------------------------------------------
(* POST artifacts/:artifactId/archive and .../quarantine: the check reads only that the *)
(* row exists, which it keeps doing, so check and UPDATE are one step.                  *)

Shelve(p, n, s) ==
  /\ Exists(p, n)
  /\ SetVersion(p, n, s)
  /\ UNCHANGED <<blobs, artReq>>

ArchiveVersion(p, n) == Shelve(p, n, "archived")

QuarantineVersion(p, n) == Shelve(p, n, "quarantined")

\* A statement fails or the API process dies between two statements.
ArtAbort(r) ==
  /\ Fails
  /\ ~ ArtFree(r)
  /\ ArtGoto(r, ArtIdle)
  /\ UNCHANGED <<versions, blobs>>

CreateStep(r) == StoreBlob(r) \/ ReadMax(r) \/ ReadPrevious(r) \/ Supersede(r) \/ InsertVersion(r)

ArtNext ==
  \/ \E r \in ArtRequest :
       CreateStep(r) \/ ArtAbort(r) \/ \E p \in ArtPath, c \in Content : CreateStart(r, p, c)
  \/ \E p \in ArtPath, n \in Number : ArchiveVersion(p, n) \/ QuarantineVersion(p, n)

ArtSpec == ArtInit /\ [][ArtNext]_artVars

-----------------------------------------------------------------------------
(* Properties *)

\* The active version of a path is its newest one, so there is at most one and
\* getLatestArtifactVersion, which takes the highest number among the active and the
\* superseded, returns it: overlapping creates are kept apart by the version number alone.
ActiveIsNewest ==
  \A p \in ArtPath : \A n, i \in Number : versions[p][n] = "active" /\ Exists(p, i) => i <= n

\* No version of a path's history is missing, and none comes back into use once it has been
\* superseded, archived or quarantined, whatever numbers overlapping creates have read.
HistoryOnlyGrows ==
  [][\A p \in ArtPath : \A n \in Number :
       /\ Exists(p, n) /\ versions'[p][n] = "active" => versions[p][n] = "active"
       /\ ~ Exists(p, n) /\ versions'[p][n] # "absent" => \A i \in 1..(n - 1) : Exists(p, i)]_artVars

\* "Lock rows for the same path_hash in this project to prevent race conditions": with no
\* create in flight and no failure, a path's newest version has not been superseded.
NewestNotSuperseded ==
  (\A r \in ArtRequest : ArtFree(r)) =>
    \A p \in ArtPath : \A n \in Number :
      versions[p][n] = "superseded" => \E i \in Number : i > n /\ Exists(p, i)
=============================================================================
