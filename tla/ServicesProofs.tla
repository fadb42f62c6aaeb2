--------------------------- MODULE ServicesProofs ---------------------------
(***************************************************************************)
(* What holds of three services that number, judge and follow what is      *)
(* produced, for any number of versions, results, events and requests:     *)
(* Artifacts, QualityGates and IncrementalIndex.  They share no variable,  *)
(* and each part cites its own module only.                                *)
(***************************************************************************)
EXTENDS Artifacts, QualityGates, IncrementalIndex, SequenceTheorems, TLAPS

(***************************************************************************)
(* Artifacts: however creates, archivings and quarantines overlap and      *)
(* fail, the active version of a path is its newest one, and the history   *)
(* of a path only grows.                                                   *)
(***************************************************************************)
\* A create that has read its number.
Numbered(r) == artReq[r].pc \in {"previous", "supersede", "insert"}

NoneActive(p) == \A n \in Number : versions[p][n] # "active"

\* The numbers of a path are used without a gap.
Gapless == \A p \in ArtPath : \A n, i \in Number : Exists(p, n) /\ i < n => Exists(p, i)

\* All numbers below that of a create are used; and one that is about to insert will fail,
\* unless no version of its path is active.
NumbersFit ==
  \A r \in ArtRequest : Numbered(r) =>
    LET p == artReq[r].path
        n == artReq[r].number
    IN  /\ \A i \in Number : i < n => Exists(p, i)
        /\ artReq[r].pc = "insert" => Exists(p, n) \/ NoneActive(p)

ArtInv == ArtTypeOK /\ Gapless /\ NumbersFit /\ ActiveIsNewest

USE ArtifactsAssumption

-----------------------------------------------------------------------------
LEMMA ArtInitInv == ArtInit => ArtInv
  BY DEF ArtInit, ArtInv, ArtTypeOK, Gapless, NumbersFit, ActiveIsNewest, Numbered, NoneActive,
         Exists, ArtStatus, ArtSlot, ArtIdle

\* A slot in which a create stands at pc has the fields of that place.
LEMMA SlotFields ==
  ASSUME ArtTypeOK, NEW r \in ArtRequest
  PROVE  /\ artReq[r].pc \in {"blob", "max"} =>
              artReq[r].path \in ArtPath /\ artReq[r].content \in Content
         /\ Numbered(r) => artReq[r].path \in ArtPath /\ artReq[r].number \in Number
  BY DEF ArtTypeOK, ArtSlot, ArtIdle, Numbered

LEMMA TypeStep ==
  ASSUME ArtTypeOK, [ArtNext]_artVars
  PROVE  ArtTypeOK'
<1> USE DEF ArtTypeOK
<1>1. CASE UNCHANGED artVars
  BY <1>1 DEF artVars
<1>2. ASSUME NEW r \in ArtRequest, NEW p \in ArtPath, NEW c \in Content, CreateStart(r, p, c)
      PROVE  ArtTypeOK'
  <2>1. [pc |-> IF c \in blobs THEN "max" ELSE "blob", path |-> p, content |-> c] \in ArtSlot
    BY DEF ArtSlot
  <2> QED BY <1>2, <2>1 DEF CreateStart, ArtGoto
<1>3. ASSUME NEW r \in ArtRequest, StoreBlob(r) PROVE ArtTypeOK'
  <2>1. artReq[r] \in [pc: {"blob", "max"}, path: ArtPath, content: Content]
    BY <1>3 DEF StoreBlob, ArtAt, ArtSlot, ArtIdle
  <2>2. [artReq[r] EXCEPT !.pc = "max"] \in ArtSlot
    BY <2>1 DEF ArtSlot
  <2>3. ArtIdle \in ArtSlot
    BY DEF ArtSlot
  <2> QED BY <1>3, <2>1, <2>2, <2>3 DEF StoreBlob, ArtGoto
<1>4. ASSUME NEW r \in ArtRequest, ReadMax(r) PROVE ArtTypeOK'
  <2>1. artReq[r].path \in ArtPath
    BY <1>4, SlotFields DEF ReadMax, ArtAt
  <2>2. \A n \in Number : [pc |-> "previous", path |-> artReq[r].path, number |-> n] \in ArtSlot
    BY <2>1 DEF ArtSlot
  <2>3. ArtIdle \in ArtSlot
    BY DEF ArtSlot
  <2> QED BY <1>4, <2>2, <2>3 DEF ReadMax, ArtGoto
<1>5. ASSUME NEW r \in ArtRequest, ReadPrevious(r) PROVE ArtTypeOK'
  <2>1. artReq[r] \in [pc: {"previous", "supersede", "insert"}, path: ArtPath, number: Number]
    BY <1>5 DEF ReadPrevious, ArtAt, ArtSlot, ArtIdle
  <2>2. \A pc \in {"supersede", "insert"} : [artReq[r] EXCEPT !.pc = pc] \in ArtSlot
    BY <2>1 DEF ArtSlot
  <2> QED BY <1>5, <2>2 DEF ReadPrevious, ArtGoto
<1>6. ASSUME NEW r \in ArtRequest, Supersede(r) PROVE ArtTypeOK'
  <2>1. artReq[r] \in [pc: {"previous", "supersede", "insert"}, path: ArtPath, number: Number]
    BY <1>6 DEF Supersede, ArtAt, ArtSlot, ArtIdle
  <2>2. [artReq[r] EXCEPT !.pc = "insert"] \in ArtSlot
    BY <2>1 DEF ArtSlot
  <2>3. versions' \in [ArtPath -> [Number -> ArtStatus]]
    BY <1>6, <2>1 DEF Supersede, ArtStatus
  <2> QED BY <1>6, <2>2, <2>3 DEF Supersede, ArtGoto
<1>7. ASSUME NEW r \in ArtRequest, InsertVersion(r) PROVE ArtTypeOK'
  <2>1. ArtIdle \in ArtSlot
    BY DEF ArtSlot
  <2>2. artReq[r].path \in ArtPath /\ artReq[r].number \in Number
    BY <1>7, SlotFields DEF InsertVersion, ArtAt, Numbered
  <2>3. versions' \in [ArtPath -> [Number -> ArtStatus]]
    BY <1>7, <2>2 DEF InsertVersion, SetVersion, ArtStatus
  <2> QED BY <1>7, <2>1, <2>3 DEF InsertVersion, ArtGoto
<1>8. ASSUME NEW p \in ArtPath, NEW n \in Number, ArchiveVersion(p, n) \/ QuarantineVersion(p, n)
      PROVE  ArtTypeOK'
  BY <1>8 DEF ArchiveVersion, QuarantineVersion, Shelve, SetVersion, ArtStatus
<1>9. ASSUME NEW r \in ArtRequest, ArtAbort(r) PROVE ArtTypeOK'
  BY <1>9 DEF ArtAbort, ArtGoto, ArtSlot
<1> QED BY <1>1, <1>2, <1>3, <1>4, <1>5, <1>6, <1>7, <1>8, <1>9 DEF ArtNext, CreateStep

-----------------------------------------------------------------------------
(* The four steps that do anything to versions or numbers, and one for the rest. *)

\* A step that leaves the versions alone and moves no create to a number of its own.
Harmless ==
  /\ versions' = versions
  /\ \A q \in ArtRequest : Numbered(q)' => artReq'[q] = artReq[q]

LEMMA HarmlessStep ==
  ASSUME ArtInv, ArtTypeOK', Harmless
  PROVE  ArtInv'
  BY DEF ArtInv, Harmless, Gapless, NumbersFit, ActiveIsNewest, Numbered, NoneActive, Exists

LEMMA QuietSteps ==
  ASSUME ArtTypeOK, NEW r \in ArtRequest,
         \/ \E p \in ArtPath, c \in Content : CreateStart(r, p, c)
         \/ StoreBlob(r) \/ ArtAbort(r)
  PROVE  Harmless
<1>1. CASE \E p \in ArtPath, c \in Content : CreateStart(r, p, c)
  BY <1>1 DEF ArtTypeOK, Harmless, Numbered, CreateStart, ArtGoto
<1>2. CASE StoreBlob(r)
  <2>1. artReq[r] \in [pc: {"blob", "max"}, path: ArtPath, content: Content]
    BY <1>2 DEF StoreBlob, ArtAt, ArtTypeOK, ArtSlot, ArtIdle
  <2>2. [artReq[r] EXCEPT !.pc = "max"].pc = "max"
    BY <2>1
  <2> QED BY <1>2, <2>2 DEF ArtTypeOK, Harmless, Numbered, StoreBlob, ArtGoto, ArtIdle
<1>3. CASE ArtAbort(r)
  BY <1>3 DEF ArtTypeOK, Harmless, Numbered, ArtAbort, ArtGoto, ArtIdle
<1> QED BY <1>1, <1>2, <1>3

\* MAX + 1 is above every number that is used.
LEMMA ReadMaxStep ==
  ASSUME ArtInv, ArtTypeOK', NEW r \in ArtRequest, ReadMax(r)
  PROVE  ArtInv'
<1>1. CASE ArtGoto(r, ArtIdle)
  <2>1. Harmless
    BY <1>1 DEF ArtInv, ArtTypeOK, Harmless, ReadMax, Numbered, ArtGoto, ArtIdle
  <2> QED BY <2>1, HarmlessStep
<1>2. ASSUME NEW n \in Number, NextNumber(artReq[r].path, n),
             ArtGoto(r, [pc |-> "previous", path |-> artReq[r].path, number |-> n])
      PROVE  ArtInv'
  <2>1. artReq[r].path \in ArtPath
    BY SlotFields DEF ReadMax, ArtAt, ArtInv
  <2>2. \A i \in Number : i < n => Exists(artReq[r].path, i)
    BY <1>2, <2>1 DEF NextNumber, Gapless, ArtInv, Number
  <2>3. versions' = versions
    BY DEF ReadMax
  <2>4. NumbersFit'
    BY <1>2, <2>2, <2>3 DEF ArtInv, NumbersFit, ArtTypeOK, Numbered, NoneActive, Exists, ArtGoto
  <2> QED BY <2>3, <2>4 DEF ArtInv, Gapless, ActiveIsNewest, Exists
<1> QED BY <1>1, <1>2 DEF ReadMax

LEMMA ReadPreviousStep ==
  ASSUME ArtInv, ArtTypeOK', NEW r \in ArtRequest, ReadPrevious(r)
  PROVE  ArtInv'
<1>1. versions' = versions /\ Numbered(r)
  BY DEF ReadPrevious, ArtAt, Numbered
<1>2. artReq[r] \in [pc: {"previous", "supersede", "insert"}, path: ArtPath, number: Number]
  BY DEF ReadPrevious, ArtAt, ArtInv, ArtTypeOK, ArtSlot, ArtIdle
<1>3. /\ artReq'[r].path = artReq[r].path /\ artReq'[r].number = artReq[r].number
      /\ artReq'[r].pc = "insert" => NoneActive(artReq[r].path)
  BY <1>2 DEF ReadPrevious, ArtGoto, ArtInv, ArtTypeOK, NoneActive
<1>4. \A q \in ArtRequest \ {r} : artReq'[q] = artReq[q]
  BY DEF ReadPrevious, ArtGoto, ArtInv, ArtTypeOK
<1>5. NumbersFit'
  BY <1>1, <1>3, <1>4 DEF ArtInv, NumbersFit, Numbered, NoneActive, Exists
<1> QED BY <1>1, <1>5 DEF ArtInv, Gapless, ActiveIsNewest, Exists

LEMMA SupersedeStep ==
  ASSUME ArtInv, ArtTypeOK', NEW r \in ArtRequest, Supersede(r)
  PROVE  ArtInv'
<1>0. artReq[r] \in [pc: {"previous", "supersede", "insert"}, path: ArtPath, number: Number]
  BY DEF Supersede, ArtAt, ArtInv, ArtTypeOK, ArtSlot, ArtIdle
<1>1. PICK p \in ArtPath : p = artReq[r].path
  BY <1>0
<1>2. \A q \in ArtPath, n \in Number :
        versions'[q][n] = IF q = p /\ versions[q][n] = "active" THEN "superseded"
                          ELSE versions[q][n]
  BY <1>1 DEF Supersede, ArtInv, ArtTypeOK
<1>3. \A q \in ArtPath, n \in Number : Exists(q, n)' = Exists(q, n)
  BY <1>2 DEF Exists
<1>4. \A q \in ArtPath : NoneActive(q) => NoneActive(q)'
  BY <1>2 DEF NoneActive
<1>5. NoneActive(p)'
  BY <1>1, <1>2 DEF NoneActive
<1>6. artReq'[r].path = p /\ artReq'[r].number = artReq[r].number
  BY <1>0, <1>1 DEF Supersede, ArtGoto, ArtInv, ArtTypeOK
<1>7. \A q \in ArtRequest \ {r} : artReq'[q] = artReq[q]
  BY DEF Supersede, ArtGoto, ArtInv, ArtTypeOK
<1>8. Numbered(r)
  BY DEF Supersede, ArtAt, Numbered
<1>9. NumbersFit'
  <2> SUFFICES ASSUME NEW q \in ArtRequest, Numbered(q)'
               PROVE  /\ \A i \in Number : i < artReq'[q].number => Exists(artReq[q].path, i)'
                      /\ artReq'[q].pc = "insert" =>
                           Exists(artReq[q].path, artReq[q].number)' \/ NoneActive(artReq[q].path)'
    BY DEF NumbersFit, Exists, NoneActive
  <2>1. CASE q = r
    BY <1>0, <1>1, <1>3, <1>5, <1>6, <1>8, <2>1 DEF ArtInv, NumbersFit
  <2>2. CASE q # r
    <3>1. Numbered(q) /\ artReq'[q] = artReq[q]
      BY <1>7, <2>2 DEF Numbered
    <3>2. artReq[q].path \in ArtPath /\ artReq[q].number \in Number
      BY <3>1, SlotFields DEF ArtInv
    <3> QED BY <1>3, <1>4, <3>1, <3>2 DEF ArtInv, NumbersFit
  <2> QED BY <2>1, <2>2
<1>10. Gapless'
  BY <1>3 DEF Gapless, ArtInv
<1>11. ActiveIsNewest'
  BY <1>2, <1>3 DEF ActiveIsNewest, ArtInv
<1> QED BY <1>9, <1>10, <1>11 DEF ArtInv

LEMMA ArtInsertStep ==
  ASSUME ArtInv, ArtTypeOK', NEW r \in ArtRequest, InsertVersion(r)
  PROVE  ArtInv'
<1>0. Numbered(r)
  BY DEF InsertVersion, ArtAt, Numbered
<1>1. PICK p \in ArtPath, n \in Number : p = artReq[r].path /\ n = artReq[r].number
  BY <1>0, SlotFields DEF ArtInv
<1>2. \A q \in ArtRequest : Numbered(q)' => q # r /\ artReq'[q] = artReq[q]
  BY DEF InsertVersion, ArtGoto, ArtIdle, Numbered, ArtInv, ArtTypeOK
<1>3. CASE Exists(p, n)
  BY <1>1, <1>2, <1>3, HarmlessStep DEF InsertVersion, Harmless
<1>4. CASE ~ Exists(p, n)
  <2>1. /\ \A i \in Number : i < n => Exists(p, i)
        /\ NoneActive(p)
    BY <1>0, <1>1, <1>4 DEF InsertVersion, ArtAt, ArtInv, NumbersFit
  <2>2. \A i \in Number : Exists(p, i) => i < n
    BY <1>1, <1>4 DEF ArtInv, Gapless, Number
  <2>3. \A q \in ArtPath, i \in Number :
          versions'[q][i] = IF q = p /\ i = n THEN "active" ELSE versions[q][i]
    BY <1>1, <1>4 DEF InsertVersion, SetVersion, ArtInv, ArtTypeOK
  <2>4. \A q \in ArtPath, i \in Number : Exists(q, i)' = (Exists(q, i) \/ (q = p /\ i = n))
    BY <2>3 DEF Exists
  <2>5. Gapless'
    BY <1>1, <2>1, <2>2, <2>4 DEF ArtInv, Gapless, Number
  <2>6. ActiveIsNewest'
    <3> SUFFICES ASSUME NEW q \in ArtPath, NEW i \in Number, NEW j \in Number,
                        versions'[q][i] = "active", versions'[q][j] # "absent"
                 PROVE  j <= i
      BY DEF ActiveIsNewest, Exists
    <3>1. CASE q = p
      <4>1. i = n
        BY <2>1, <2>3, <3>1 DEF NoneActive
      <4>2. j = n \/ j < n
        BY <2>2, <2>3, <3>1 DEF Exists
      <4> QED BY <4>1, <4>2 DEF Number
    <3>2. CASE q # p
      BY <2>3, <3>2 DEF ArtInv, ActiveIsNewest, Exists
    <3> QED BY <3>1, <3>2
  <2>7. NumbersFit'
    <3> SUFFICES ASSUME NEW q \in ArtRequest, Numbered(q)'
                 PROVE  /\ \A i \in Number : i < artReq'[q].number => Exists(artReq[q].path, i)'
                        /\ artReq'[q].pc = "insert" =>
                             \/ Exists(artReq[q].path, artReq[q].number)'
                             \/ NoneActive(artReq[q].path)'
      BY DEF NumbersFit, Exists, NoneActive
    <3>1. Numbered(q) /\ artReq'[q] = artReq[q]
      BY <1>2 DEF Numbered
    <3>2. PICK qp \in ArtPath, qn \in Number : qp = artReq[q].path /\ qn = artReq[q].number
      BY <3>1, SlotFields DEF ArtInv
    <3>3. \A i \in Number : i < qn => Exists(qp, i)
      BY <3>1, <3>2 DEF ArtInv, NumbersFit
    <3>4. artReq[q].pc = "insert" => Exists(qp, qn)' \/ NoneActive(qp)'
      <4>1. CASE qp = p
        <5>1. ~ (n < qn)
          BY <1>1, <1>4, <3>3, <4>1
        <5>2. qn = n \/ qn < n
          BY <1>1, <3>2, <5>1 DEF Number
        <5> QED BY <1>1, <2>1, <2>4, <3>2, <4>1, <5>2
      <4>2. CASE qp # p
        <5>1. artReq[q].pc = "insert" => Exists(qp, qn) \/ NoneActive(qp)
          BY <3>1, <3>2 DEF ArtInv, NumbersFit
        <5>2. NoneActive(qp) => NoneActive(qp)'
          BY <2>3, <4>2 DEF NoneActive
        <5> QED BY <2>4, <3>2, <5>1, <5>2
      <4> QED BY <4>1, <4>2
    <3> QED BY <2>4, <3>1, <3>2, <3>3, <3>4
  <2> QED BY <2>5, <2>6, <2>7 DEF ArtInv
<1> QED BY <1>3, <1>4

LEMMA ShelveStep ==
  ASSUME ArtInv, ArtTypeOK', NEW p \in ArtPath, NEW n \in Number,
         NEW s \in {"archived", "quarantined"},
         Shelve(p, n, s)
  PROVE  ArtInv'
<1>1. \A q \in ArtPath, i \in Number :
        versions'[q][i] = IF q = p /\ i = n THEN s ELSE versions[q][i]
  BY DEF Shelve, SetVersion, ArtInv, ArtTypeOK
<1>2. \A q \in ArtPath, i \in Number : Exists(q, i)' = Exists(q, i)
  BY <1>1 DEF Exists, Shelve
<1>3. \A q \in ArtPath : NoneActive(q) => NoneActive(q)'
  BY <1>1 DEF NoneActive
<1>4. artReq' = artReq
  BY DEF Shelve
<1>5. NumbersFit'
  <2> SUFFICES ASSUME NEW q \in ArtRequest, Numbered(q)
               PROVE  /\ \A i \in Number : i < artReq[q].number => Exists(artReq[q].path, i)'
                      /\ artReq[q].pc = "insert" =>
                           Exists(artReq[q].path, artReq[q].number)' \/ NoneActive(artReq[q].path)'
    BY <1>4 DEF NumbersFit, Exists, NoneActive, Numbered
  <2>1. PICK qp \in ArtPath, qn \in Number : qp = artReq[q].path /\ qn = artReq[q].number
    BY SlotFields DEF ArtInv
  <2>2. /\ \A i \in Number : i < qn => Exists(qp, i)
        /\ artReq[q].pc = "insert" => Exists(qp, qn) \/ NoneActive(qp)
    BY <2>1 DEF ArtInv, NumbersFit
  <2>3. /\ \A i \in Number : i < qn => Exists(qp, i)'
        /\ artReq[q].pc = "insert" => Exists(qp, qn)' \/ NoneActive(qp)'
    BY <1>2, <1>3, <2>2
  <2> QED BY <1>4, <2>1, <2>3 DEF Exists, NoneActive
<1>6. Gapless'
  BY <1>2 DEF Gapless, ArtInv
<1>7. ActiveIsNewest'
  BY <1>1, <1>2 DEF ActiveIsNewest, ArtInv
<1> QED BY <1>5, <1>6, <1>7 DEF ArtInv

LEMMA ArtNextInv == ArtInv /\ [ArtNext]_artVars => ArtInv'
<1> SUFFICES ASSUME ArtInv, [ArtNext]_artVars PROVE ArtInv'
  OBVIOUS
<1>1. ArtTypeOK'
  BY TypeStep DEF ArtInv
<1>2. CASE UNCHANGED artVars
  BY <1>1, <1>2, HarmlessStep DEF artVars, Harmless
<1>3. ASSUME NEW r \in ArtRequest,
             \/ \E p \in ArtPath, c \in Content : CreateStart(r, p, c)
             \/ StoreBlob(r) \/ ArtAbort(r)
      PROVE  ArtInv'
  BY <1>1, <1>3, QuietSteps, HarmlessStep DEF ArtInv
<1>4. ASSUME NEW r \in ArtRequest, ReadMax(r) PROVE ArtInv'
  BY <1>1, <1>4, ReadMaxStep
<1>5. ASSUME NEW r \in ArtRequest, ReadPrevious(r) PROVE ArtInv'
  BY <1>1, <1>5, ReadPreviousStep
<1>6. ASSUME NEW r \in ArtRequest, Supersede(r) PROVE ArtInv'
  BY <1>1, <1>6, SupersedeStep
<1>7. ASSUME NEW r \in ArtRequest, InsertVersion(r) PROVE ArtInv'
  BY <1>1, <1>7, ArtInsertStep
<1>8. ASSUME NEW p \in ArtPath, NEW n \in Number, ArchiveVersion(p, n) \/ QuarantineVersion(p, n)
      PROVE  ArtInv'
  BY <1>1, <1>8, ShelveStep DEF ArchiveVersion, QuarantineVersion
<1> QED BY <1>2, <1>3, <1>4, <1>5, <1>6, <1>7, <1>8 DEF ArtNext, CreateStep

LEMMA ArtInvariance == ArtSpec => []ArtInv
  BY ArtInitInv, ArtNextInv, PTL DEF ArtSpec

-----------------------------------------------------------------------------
\* Every reachable state of the versions, the blobs and the creates in flight is well typed.
THEOREM ArtTypeCorrect == ArtSpec => []ArtTypeOK
<1>1. ArtInv => ArtTypeOK
  BY DEF ArtInv
<1> QED BY <1>1, ArtInvariance, PTL

\* For any number of overlapping creates, with any failures, the active version of a path is its
\* newest one.
THEOREM ActiveIsNewestHolds == ArtSpec => []ActiveIsNewest
<1>1. ArtInv => ActiveIsNewest
  BY DEF ArtInv
<1> QED BY <1>1, ArtInvariance, PTL

\* No create skips a number, fills a gap, or brings a version back into use.
THEOREM HistoryOnlyGrowsHolds == ArtSpec => HistoryOnlyGrows
<1>1. ASSUME ArtInv, [ArtNext]_artVars, NEW p \in ArtPath, NEW n \in Number
      PROVE  /\ Exists(p, n) /\ versions'[p][n] = "active" => versions[p][n] = "active"
             /\ ~ Exists(p, n) /\ versions'[p][n] # "absent" => \A i \in 1..(n - 1) : Exists(p, i)
  <2>0. versions[p][n] \in ArtStatus
    BY <1>1 DEF ArtInv, ArtTypeOK
  <2> DEFINE Kept == \/ versions'[p][n] = versions[p][n]
                     \/ Exists(p, n) /\ versions'[p][n] \in ArtStatus \ {"absent", "active"}
             Added == ~ Exists(p, n) /\ \A i \in Number : i < n => Exists(p, i)
  <2>1. ASSUME versions' = versions PROVE Kept
    BY <2>1
  <2>2. ASSUME NEW r \in ArtRequest, Supersede(r) PROVE Kept
    BY <1>1, <2>2 DEF Supersede, ArtInv, ArtTypeOK, Exists, ArtStatus
  <2>3. ASSUME NEW r \in ArtRequest, InsertVersion(r) PROVE Kept \/ Added
    <3>1. Numbered(r) /\ artReq[r].path \in ArtPath /\ artReq[r].number \in Number
      BY <1>1, <2>3, SlotFields DEF InsertVersion, ArtAt, Numbered, ArtInv
    <3>2. CASE p = artReq[r].path /\ n = artReq[r].number
      BY <1>1, <2>3, <3>1, <3>2 DEF InsertVersion, ArtInv, NumbersFit
    <3>3. CASE ~ (p = artReq[r].path /\ n = artReq[r].number)
      BY <1>1, <2>3, <3>1, <3>3 DEF InsertVersion, SetVersion, ArtInv, ArtTypeOK
    <3> QED BY <3>2, <3>3
  <2>4. ASSUME NEW q \in ArtPath, NEW i \in Number, ArchiveVersion(q, i) \/ QuarantineVersion(q, i)
        PROVE  Kept
    BY <1>1, <2>4 DEF ArchiveVersion, QuarantineVersion, Shelve, SetVersion, ArtInv, ArtTypeOK,
                      Exists, ArtStatus
  <2>5. Kept \/ Added
    BY <1>1, <2>1, <2>2, <2>3, <2>4
       DEF ArtNext, CreateStep, artVars, CreateStart, StoreBlob, ReadMax, ReadPrevious, ArtAbort
  <2> QED BY <2>5 DEF Exists, Number
<1>2. ArtInv /\ [ArtNext]_artVars =>
        [\A p \in ArtPath : \A n \in Number :
           /\ Exists(p, n) /\ versions'[p][n] = "active" => versions[p][n] = "active"
           /\ ~ Exists(p, n) /\ versions'[p][n] # "absent" =>
                \A i \in 1..(n - 1) : Exists(p, i)]_artVars
  BY <1>1
<1> QED BY <1>2, ArtInvariance, PTL DEF HistoryOnlyGrows, ArtSpec

-----------------------------------------------------------------------------
(***************************************************************************)
(* QualityGates: as long as requests on a run do not overlap, its verdict  *)
(* is what its results call for; and a finalized run that is left alone is *)
(* settled for good.                                                       *)
(***************************************************************************)
USE GatesAssumption

\* Requests on a run that is not mixed follow one another.
OneByOne ==
  \A k \in GateRun \ mixed : \A r, q \in GateRequest :
    /\ ~ GateFree(r) /\ gateReq[r].run = k
    /\ ~ GateFree(q) /\ gateReq[q].run = k
    => r = q

\* So the run is still open when the only request on it writes, and the verdict computed is
\* that of the results it has.
StillOpen ==
  \A r \in GateRequest : ~ GateFree(r) /\ gateReq[r].run \notin mixed =>
    /\ runs[gateReq[r].run] \in {"PENDING", "RUNNING"}
    /\ GateAt(r, "verdict") => gateReq[r].verdict = Verdict(gateReq[r].run)

GateInv == GateTypeOK /\ OneByOne /\ StillOpen /\ VerdictMatchesResults

LEMMA GateInitInv == GateInit => GateInv
  BY DEF GateInit, GateInv, GateTypeOK, OneByOne, StillOpen, VerdictMatchesResults, GateFree,
         GateAt,
         RunStatus, Finalized, GateSlot, GateIdle

-----------------------------------------------------------------------------
\* A slot in use names a run.
LEMMA SlotRun ==
  ASSUME GateTypeOK, NEW r \in GateRequest, ~ GateFree(r)
  PROVE  gateReq[r].run \in GateRun
  BY DEF GateTypeOK, GateSlot, GateIdle, GateFree

\* A request that begins on an open run, whatever it is.
LEMMA BeginStep ==
  ASSUME GateInv, NEW r \in GateRequest, NEW k \in GateRun, NEW slot \in GateSlot,
         runs[k] \in {"PENDING", "RUNNING"}, slot.pc \notin {"idle", "verdict"}, slot.run = k,
         Begin(r, k, slot)
  PROVE  GateInv'
<1>1. GateTypeOK'
  BY DEF Begin, GateGoto, GateInv, GateTypeOK
<1>2. gateReq'[r] = slot /\ \A q \in GateRequest \ {r} : gateReq'[q] = gateReq[q]
  BY DEF Begin, GateGoto, GateInv, GateTypeOK
<1>3. mixed \subseteq mixed' /\ (k \notin mixed' => Quiet(k))
  BY DEF Begin
<1>4. OneByOne'
  <2> SUFFICES ASSUME NEW i \in GateRun \ mixed', NEW p \in GateRequest, NEW q \in GateRequest,
                      gateReq'[p].pc # "idle", gateReq'[p].run = i,
                      gateReq'[q].pc # "idle", gateReq'[q].run = i
               PROVE  p = q
    BY DEF OneByOne, GateFree
  <2>1. CASE i = k
    BY <1>2, <1>3, <2>1 DEF Quiet, GateFree
  <2>2. CASE i # k
    BY <1>2, <1>3, <2>2 DEF GateInv, OneByOne, GateFree
  <2> QED BY <2>1, <2>2
<1>5. StillOpen'
  BY <1>2, <1>3 DEF GateInv, StillOpen, GateFree, GateAt, Verdict, Begin
<1>6. VerdictMatchesResults'
  BY <1>3 DEF GateInv, VerdictMatchesResults, Begin
<1> QED BY <1>1, <1>4, <1>5, <1>6 DEF GateInv

\* A request that stays on its run, or ends: nobody else moves, and nothing is mixed by it.
GoesOn(r) ==
  /\ mixed' = mixed
  /\ \A q \in GateRequest \ {r} : gateReq'[q] = gateReq[q]
  /\ gateReq'[r].pc # "idle" => ~ GateFree(r) /\ gateReq'[r].run = gateReq[r].run

LEMMA GoesOnOneByOne ==
  ASSUME GateInv, NEW r \in GateRequest, GoesOn(r)
  PROVE  OneByOne'
<1> SUFFICES ASSUME NEW k \in GateRun \ mixed, NEW p \in GateRequest, NEW q \in GateRequest,
                    gateReq'[p].pc # "idle", gateReq'[p].run = k,
                    gateReq'[q].pc # "idle", gateReq'[q].run = k
             PROVE  p = q
  BY DEF OneByOne, GateFree, GoesOn
<1>1. /\ ~ GateFree(p) /\ gateReq[p].run = k
      /\ ~ GateFree(q) /\ gateReq[q].run = k
  BY DEF GoesOn, GateFree
<1> QED BY <1>1 DEF GateInv, OneByOne

\* The last write of a request: on a run that is not mixed no other request is left.
LEMMA SetRunStep ==
  ASSUME GateInv, NEW r \in GateRequest, ~ GateFree(r), NEW s \in RunStatus, SetRun(r, s),
         gateReq[r].run \notin mixed =>
           \/ s \in {"RUNNING", "CANCELLED"}
           \/ s = Verdict(gateReq[r].run)
  PROVE  GateInv'
<1>0. PICK k \in GateRun : k = gateReq[r].run
  BY SlotRun DEF GateInv
<1>1. /\ gateReq'[r].pc = "idle"
      /\ \A q \in GateRequest \ {r} : gateReq'[q] = gateReq[q]
      /\ mixed' = mixed /\ results' = results
      /\ runs'[k] = s
      /\ \A i \in GateRun \ {k} : runs'[i] = runs[i]
  BY <1>0 DEF SetRun, GateGoto, GateIdle, GateInv, GateTypeOK
<1>2. GateTypeOK'
  BY <1>0 DEF SetRun, GateGoto, GateInv, GateTypeOK, GateSlot
<1>3. OneByOne'
  BY <1>1, GoesOnOneByOne DEF GoesOn
<1>4. StillOpen'
  <2> SUFFICES ASSUME NEW q \in GateRequest, gateReq'[q].pc # "idle", gateReq'[q].run \notin mixed
               PROVE  /\ runs'[gateReq'[q].run] \in {"PENDING", "RUNNING"}
                      /\ gateReq'[q].pc = "verdict" =>
                           gateReq'[q].verdict = Verdict(gateReq[q].run)'
    BY <1>1 DEF StillOpen, GateFree, GateAt
  <2>1. q # r /\ gateReq'[q] = gateReq[q] /\ ~ GateFree(q)
    BY <1>1 DEF GateFree
  <2>2. gateReq[q].run # k
    BY <1>0, <2>1 DEF GateInv, OneByOne
  <2>3. gateReq[q].run \in GateRun
    BY <2>1, SlotRun DEF GateInv
  <2> QED BY <1>1, <2>1, <2>2, <2>3 DEF GateInv, StillOpen, GateAt, Verdict
<1>5. VerdictMatchesResults'
  <2> SUFFICES ASSUME NEW i \in GateRun, i \notin mixed
               PROVE  /\ runs'[i] = "FAILED" => results[i]["failed"] > 0
                      /\ runs'[i] = "WARNING" =>
                           results[i]["failed"] = 0 /\ results[i]["warning"] > 0
                      /\ runs'[i] = "PASSED" =>
                           results[i]["failed"] = 0 /\ results[i]["warning"] = 0
    BY <1>1 DEF VerdictMatchesResults
  <2>1. CASE i = k
    <3>1. results[k]["failed"] \in Nat /\ results[k]["warning"] \in Nat
      BY DEF GateInv, GateTypeOK, Kind
    <3> QED BY <1>0, <1>1, <2>1, <3>1 DEF Verdict
  <2>2. CASE i # k
    BY <1>1, <2>2 DEF GateInv, VerdictMatchesResults
  <2> QED BY <2>1, <2>2
<1> QED BY <1>2, <1>3, <1>4, <1>5 DEF GateInv

LEMMA IngestInsertStep ==
  ASSUME GateInv, NEW r \in GateRequest, IngestInsert(r)
  PROVE  GateInv'
<1>0. gateReq[r] \in [pc: {"ingest"}, run: GateRun, was: {"PENDING", "RUNNING"}, kind: Kind]
  BY DEF IngestInsert, GateAt, GateInv, GateTypeOK, GateSlot, GateIdle
<1>1. PICK k \in GateRun, c \in Kind : k = gateReq[r].run /\ c = gateReq[r].kind
  BY <1>0
<1>2. /\ runs' = runs /\ mixed' = mixed
      /\ \A i \in GateRun \ {k} : results'[i] = results[i]
      /\ \A q \in GateRequest \ {r} : gateReq'[q] = gateReq[q]
      /\ gateReq'[r] \in {GateIdle, [pc |-> "run", run |-> k]}
  BY <1>1 DEF IngestInsert, GateGoto, GateInv, GateTypeOK
<1>3. GateTypeOK'
  <2>1. GateIdle \in GateSlot /\ [pc |-> "run", run |-> k] \in GateSlot
    BY DEF GateSlot
  <2>2. results' \in [GateRun -> [Kind -> Nat]]
    BY <1>1 DEF IngestInsert, GateInv, GateTypeOK
  <2>3. gateReq' \in [GateRequest -> GateSlot]
    BY <1>1, <2>1 DEF IngestInsert, GateGoto, GateInv, GateTypeOK
  <2> QED BY <1>2, <2>2, <2>3 DEF GateInv, GateTypeOK
<1>4. ~ GateFree(r)
  BY DEF IngestInsert, GateAt, GateFree
<1>5. gateReq'[r].pc # "idle" => gateReq'[r].run = k /\ gateReq'[r].pc = "run"
  BY <1>2 DEF GateIdle
<1>6. OneByOne'
  BY <1>1, <1>2, <1>4, <1>5, GoesOnOneByOne DEF GoesOn
<1>7. StillOpen'
  <2> SUFFICES ASSUME NEW q \in GateRequest, gateReq'[q].pc # "idle", gateReq'[q].run \notin mixed
               PROVE  /\ runs[gateReq'[q].run] \in {"PENDING", "RUNNING"}
                      /\ gateReq'[q].pc = "verdict" =>
                           gateReq'[q].verdict = Verdict(gateReq[q].run)'
    BY <1>2 DEF StillOpen, GateFree, GateAt
  <2>1. CASE q = r
    BY <1>1, <1>4, <1>5, <2>1 DEF GateInv, StillOpen
  <2>2. CASE q # r
    <3>1. gateReq'[q] = gateReq[q] /\ ~ GateFree(q)
      BY <1>2, <2>2 DEF GateFree
    <3>2. gateReq[q].run # k
      BY <1>1, <1>4, <2>2, <3>1 DEF GateInv, OneByOne
    <3>3. gateReq[q].run \in GateRun
      BY <3>1, SlotRun DEF GateInv
    <3> QED BY <1>2, <3>1, <3>2, <3>3 DEF GateInv, StillOpen, GateAt, Verdict
  <2> QED BY <2>1, <2>2
<1>8. VerdictMatchesResults'
  <2>1. k \notin mixed => runs[k] \in {"PENDING", "RUNNING"}
    BY <1>1, <1>4 DEF GateInv, StillOpen
  <2> QED BY <1>2, <2>1 DEF GateInv, VerdictMatchesResults
<1> QED BY <1>3, <1>6, <1>7, <1>8 DEF GateInv

LEMMA CompleteCountStep ==
  ASSUME GateInv, NEW r \in GateRequest, CompleteCount(r)
  PROVE  GateInv'
<1>0. gateReq[r] \in [pc: {"start", "count", "cancel", "run"}, run: GateRun]
  BY DEF CompleteCount, GateAt, GateInv, GateTypeOK, GateSlot, GateIdle
<1>1. PICK k \in GateRun : k = gateReq[r].run
  BY <1>0
<1>2. /\ runs' = runs /\ results' = results /\ mixed' = mixed
      /\ \A q \in GateRequest \ {r} : gateReq'[q] = gateReq[q]
      /\ gateReq'[r] = [pc |-> "verdict", run |-> k, verdict |-> Verdict(k)]
  BY <1>1 DEF CompleteCount, GateGoto, GateInv, GateTypeOK
<1>3. [pc |-> "verdict", run |-> k, verdict |-> Verdict(k)] \in GateSlot
  BY DEF GateSlot, Verdict
<1>4. GateTypeOK'
  BY <1>1, <1>3 DEF CompleteCount, GateGoto, GateInv, GateTypeOK
<1>5. ~ GateFree(r)
  BY DEF CompleteCount, GateAt, GateFree
<1>6. OneByOne'
  BY <1>1, <1>2, <1>5, GoesOnOneByOne DEF GoesOn
<1>7. StillOpen'
  BY <1>1, <1>2, <1>5 DEF GateInv, StillOpen, GateFree, GateAt, Verdict
<1>8. VerdictMatchesResults'
  BY <1>2 DEF GateInv, VerdictMatchesResults
<1> QED BY <1>4, <1>6, <1>7, <1>8 DEF GateInv

LEMMA AbortStep ==
  ASSUME GateInv, NEW r \in GateRequest, GateAbort(r)
  PROVE  GateInv'
<1>1. /\ runs' = runs /\ results' = results /\ mixed' = mixed
      /\ \A q \in GateRequest \ {r} : gateReq'[q] = gateReq[q]
      /\ gateReq'[r].pc = "idle"
  BY DEF GateAbort, GateGoto, GateIdle, GateInv, GateTypeOK
<1>2. GateTypeOK'
  BY DEF GateAbort, GateGoto, GateInv, GateTypeOK, GateSlot
<1>3. OneByOne'
  BY <1>1, GoesOnOneByOne DEF GoesOn
<1>4. StillOpen' /\ VerdictMatchesResults'
  BY <1>1 DEF GateInv, StillOpen, VerdictMatchesResults, GateFree, GateAt, Verdict
<1> QED BY <1>2, <1>3, <1>4 DEF GateInv

LEMMA CreateRunStep ==
  ASSUME GateInv, NEW k \in GateRun, CreateRun(k)
  PROVE  GateInv'
<1>1. GateTypeOK'
  BY DEF CreateRun, GateInv, GateTypeOK, RunStatus
<1>2. OneByOne'
  BY DEF CreateRun, GateInv, OneByOne, GateFree
<1>3. StillOpen' /\ VerdictMatchesResults'
  BY DEF CreateRun, GateInv, GateTypeOK, StillOpen, VerdictMatchesResults, GateFree, GateAt, Verdict
<1> QED BY <1>1, <1>2, <1>3 DEF GateInv

LEMMA GateNextInv == GateInv /\ [GateNext]_gateVars => GateInv'
<1> SUFFICES ASSUME GateInv, [GateNext]_gateVars PROVE GateInv'
  OBVIOUS
<1>1. CASE UNCHANGED gateVars
  BY <1>1 DEF gateVars, GateInv, GateTypeOK, OneByOne, StillOpen, VerdictMatchesResults, GateFree,
              GateAt, Verdict
<1>2. ASSUME NEW k \in GateRun, CreateRun(k) PROVE GateInv'
  BY <1>2, CreateRunStep
<1>3. ASSUME NEW k \in GateRun, NEW r \in GateRequest, NEW c \in Kind,
             StartCheck(r, k) \/ CompleteCheck(r, k) \/ CancelCheck(r, k) \/ IngestCheck(r, k, c)
      PROVE  GateInv'
  <2>1. \A pc \in {"start", "count", "cancel"} : [pc |-> pc, run |-> k] \in GateSlot
    BY DEF GateSlot
  <2>2. runs[k] \in {"PENDING", "RUNNING"} =>
          [pc |-> "ingest", run |-> k, was |-> runs[k], kind |-> c] \in GateSlot
    BY DEF GateSlot
  <2>3. ASSUME StartCheck(r, k) PROVE GateInv'
    BY <2>1, <2>3, BeginStep DEF StartCheck
  <2>4. ASSUME CompleteCheck(r, k) PROVE GateInv'
    BY <2>1, <2>4, BeginStep DEF CompleteCheck
  <2>5. ASSUME CancelCheck(r, k) PROVE GateInv'
    BY <2>1, <2>5, BeginStep DEF CancelCheck
  <2>6. ASSUME IngestCheck(r, k, c) PROVE GateInv'
    BY <2>2, <2>6, BeginStep DEF IngestCheck
  <2> QED BY <1>3, <2>3, <2>4, <2>5, <2>6
<1>4. ASSUME NEW r \in GateRequest,
             StartUpdate(r) \/ IngestRun(r) \/ CompleteUpdate(r) \/ CancelUpdate(r)
      PROVE  GateInv'
  <2>1. ~ GateFree(r)
    BY <1>4 DEF StartUpdate, IngestRun, CompleteUpdate, CancelUpdate, GateAt, GateFree
  <2>2. ASSUME CompleteUpdate(r) PROVE GateInv'
    <3>1. gateReq[r].verdict \in RunStatus
      BY <2>2 DEF CompleteUpdate, GateAt, GateInv, GateTypeOK, GateSlot, GateIdle, RunStatus,
                       Finalized
    <3>2. gateReq[r].run \notin mixed => gateReq[r].verdict = Verdict(gateReq[r].run)
      BY <2>1, <2>2 DEF CompleteUpdate, GateInv, StillOpen
    <3> QED BY <2>1, <2>2, <3>1, <3>2, SetRunStep DEF CompleteUpdate
  <2>3. ASSUME StartUpdate(r) \/ IngestRun(r) \/ CancelUpdate(r) PROVE GateInv'
    <3>1. {"RUNNING", "CANCELLED"} \subseteq RunStatus
      BY DEF RunStatus, Finalized
    <3> QED BY <2>1, <2>3, <3>1, SetRunStep DEF StartUpdate, IngestRun, CancelUpdate
  <2> QED BY <1>4, <2>2, <2>3
<1>5. ASSUME NEW r \in GateRequest, IngestInsert(r) PROVE GateInv'
  BY <1>5, IngestInsertStep
<1>6. ASSUME NEW r \in GateRequest, CompleteCount(r) PROVE GateInv'
  BY <1>6, CompleteCountStep
<1>7. ASSUME NEW r \in GateRequest, GateAbort(r) PROVE GateInv'
  BY <1>7, AbortStep
<1> QED BY <1>1, <1>2, <1>3, <1>4, <1>5, <1>6, <1>7 DEF GateNext, Kind

LEMMA GateInvariance == GateSpec => []GateInv
  BY GateInitInv, GateNextInv, PTL DEF GateSpec

-----------------------------------------------------------------------------
\* Every reachable state of runs, results and requests is well typed.
THEOREM GateTypeCorrect == GateSpec => []GateTypeOK
<1>1. GateInv => GateTypeOK
  BY DEF GateInv
<1> QED BY <1>1, GateInvariance, PTL

\* For any number of runs, requests and results, a run whose requests did not overlap has the
\* verdict its results call for.
THEOREM VerdictMatchesResultsHolds == GateSpec => []VerdictMatchesResults
<1>1. GateInv => VerdictMatchesResults
  BY DEF GateInv
<1> QED BY <1>1, GateInvariance, PTL

\* A request moves only what belongs to the run it is on.
LEMMA SettledStep ==
  ASSUME GateInv, [GateNext]_gateVars, NEW k \in GateRun, runs[k] \in Finalized, Quiet(k)
  PROVE  Quiet(k)' /\ runs'[k] = runs[k] /\ results'[k] = results[k]
<1> DEFINE Goal == Quiet(k)' /\ runs'[k] = runs[k] /\ results'[k] = results[k]
<1>0. \A r \in GateRequest : gateReq[r].pc = "idle" \/ gateReq[r].run # k
  BY DEF Quiet, GateFree
<1>1. CASE UNCHANGED gateVars
  BY <1>0, <1>1 DEF gateVars, Quiet, GateFree
<1>2. ASSUME NEW i \in GateRun, CreateRun(i) PROVE Goal
  BY <1>0, <1>2 DEF CreateRun, Quiet, GateFree, Finalized, GateInv, GateTypeOK
<1>3. ASSUME NEW i \in GateRun, NEW r \in GateRequest, NEW slot,
             runs[i] \in {"PENDING", "RUNNING"}, slot.run = i, Begin(r, i, slot)
      PROVE  Goal
  <2>1. i # k
    BY <1>3 DEF Finalized
  <2> QED BY <1>0, <1>3, <2>1 DEF Begin, GateGoto, Quiet, GateFree, GateInv, GateTypeOK
<1>4. ASSUME NEW r \in GateRequest, NEW s, ~ GateFree(r), SetRun(r, s) PROVE Goal
  <2>1. gateReq[r].run \in GateRun \ {k}
    BY <1>0, <1>4, SlotRun DEF GateInv, GateFree
  <2> QED BY <1>0, <1>4, <2>1 DEF SetRun, GateGoto, GateIdle, Quiet, GateFree, GateInv, GateTypeOK
<1>5. ASSUME NEW r \in GateRequest, IngestInsert(r) PROVE Goal
  <2>1. gateReq[r].run \in GateRun \ {k}
    BY <1>0, <1>5, SlotRun DEF GateInv, GateFree, IngestInsert, GateAt
  <2>2. \A q \in GateRequest : gateReq'[q] = gateReq[q] \/ gateReq'[q].pc = "idle"
                               \/ gateReq'[q].run # k
    BY <1>5, <2>1 DEF IngestInsert, GateGoto, GateIdle, GateInv, GateTypeOK
  <2>3. runs' = runs /\ results'[k] = results[k]
    BY <1>5, <2>1 DEF IngestInsert, GateInv, GateTypeOK
  <2> QED BY <1>0, <2>2, <2>3 DEF Quiet, GateFree
<1>6. ASSUME NEW r \in GateRequest, CompleteCount(r) PROVE Goal
  <2>1. gateReq[r].run # k
    BY <1>0, <1>6 DEF CompleteCount, GateAt
  <2>2. \A q \in GateRequest : gateReq'[q] = gateReq[q] \/ gateReq'[q].run # k
    BY <1>6, <2>1 DEF CompleteCount, GateGoto, GateInv, GateTypeOK
  <2> QED BY <1>0, <1>6, <2>2 DEF CompleteCount, Quiet, GateFree
<1>7. ASSUME NEW r \in GateRequest, GateAbort(r) PROVE Goal
  BY <1>0, <1>7 DEF GateAbort, GateGoto, GateIdle, Quiet, GateFree, GateInv, GateTypeOK
<1>8. ASSUME NEW i \in GateRun, NEW r \in GateRequest, NEW c \in Kind,
             StartCheck(r, i) \/ CompleteCheck(r, i) \/ CancelCheck(r, i) \/ IngestCheck(r, i, c)
      PROVE  Goal
  BY <1>3, <1>8 DEF StartCheck, CompleteCheck, CancelCheck, IngestCheck
<1>9. ASSUME NEW r \in GateRequest,
             StartUpdate(r) \/ IngestRun(r) \/ CompleteUpdate(r) \/ CancelUpdate(r)
      PROVE  Goal
  BY <1>4, <1>9 DEF StartUpdate, IngestRun, CompleteUpdate, CancelUpdate, GateAt, GateFree
<1> QED BY <1>1, <1>2, <1>5, <1>6, <1>7, <1>8, <1>9 DEF GateNext, Kind

\* A finalized run with no request in flight on it is settled for good.
THEOREM SettledForGoodHolds == GateSpec => SettledForGood
<1>1. GateInv /\ [GateNext]_gateVars =>
        [\A k \in GateRun :
           runs[k] \in Finalized /\ Quiet(k) =>
             Quiet(k)' /\ runs'[k] = runs[k] /\ results'[k] = results[k]]_gateVars
  BY SettledStep
<1> QED BY <1>1, GateInvariance, PTL DEF SettledForGood, GateSpec

-----------------------------------------------------------------------------
(***************************************************************************)
(* IncrementalIndex: the events of a path keep up with the file and follow *)
(* one another, while its signals neither overlap nor get lost.            *)
(***************************************************************************)
\* Signals that have not overlapped are dealt with one at a time.
OneSignal ==
  \A f \in File \ crossed : \A r, q \in DeltaRequest :
    /\ ~ DeltaFree(r) /\ deltaReq[r].file = f
    /\ ~ DeltaFree(q) /\ deltaReq[q].file = f
    => r = q

\* An event about to be recorded begins where the latest one ends.
Continues ==
  \A r \in DeltaRequest : \A f \in File \ crossed :
    deltaReq[r].pc \in {"job", "event"} /\ deltaReq[r].file = f =>
      deltaReq[r].event.before = Newest(f)

\* The hash a request has read is the one the file still has, unless it has changed since.
HashIsCurrent ==
  \A r \in DeltaRequest : \A f \in File \ (dirty \union missed \union crossed) :
    /\ deltaReq[r].pc = "before" /\ deltaReq[r].file = f => deltaReq[r].after = disk[f]
    /\ deltaReq[r].pc \in {"job", "event"} /\ deltaReq[r].file = f =>
         deltaReq[r].event.after = disk[f]

DeltaInv == DeltaTypeOK /\ OneSignal /\ Continues /\ HashIsCurrent /\ EventsFollow

\* The slots, by where they stand.
LEMMA DeltaSlots ==
  /\ DeltaIdle \in DeltaSlot /\ DeltaIdle.pc = "idle"
  /\ \A q \in DeltaSlot :
       /\ q.pc \in {"idle", "hash", "before", "job", "event"}
       /\ q.pc # "idle" => q.file \in File
       /\ q.pc = "before" => q.after \in Digest
       /\ q.pc \in {"job", "event"} =>
            /\ q = [pc |-> q.pc, file |-> q.file, event |-> q.event]
            /\ q.event \in Event
  /\ \A f \in File : LET q == [pc |-> "hash", file |-> f]
                     IN  q \in DeltaSlot /\ q.pc = "hash" /\ q.file = f
  /\ \A f \in File, h \in Digest :
       LET q == [pc |-> "before", file |-> f, after |-> h]
       IN  q \in DeltaSlot /\ q.pc = "before" /\ q.file = f /\ q.after = h
  /\ \A f \in File, e \in Event, pc \in {"job", "event"} :
       LET q == [pc |-> pc, file |-> f, event |-> e]
       IN  q \in DeltaSlot /\ q.pc = pc /\ q.file = f /\ q.event = e
BY DEF DeltaSlot, DeltaIdle

LEMMA DeltaInitInv == DeltaInit => DeltaInv
<1> SUFFICES ASSUME DeltaInit PROVE DeltaInv
  OBVIOUS
<1>1. /\ \A r \in DeltaRequest : deltaReq[r].pc = "idle"
      /\ deltaReq \in [DeltaRequest -> DeltaSlot]
  BY DeltaSlots DEF DeltaInit
<1>2. /\ log \in [File -> Seq(Event)] /\ disk \in [File -> Digest]
      /\ \A f \in File : log[f] = << >> /\ Len(log[f]) = 0
  BY EmptySeq DEF DeltaInit, Digest
<1>3. DeltaTypeOK
  BY <1>1, <1>2 DEF DeltaInit, DeltaTypeOK
<1>4. EventsFollow
  BY <1>2 DEF EventsFollow, EventsKeepUp, EventsChain
<1> QED
  BY <1>1, <1>3, <1>4 DEF DeltaInv, OneSignal, Continues, HashIsCurrent, DeltaFree

\* A request moves on with its file, or begins with a file nobody is at, or ends.
LEMMA DeltaMove ==
  ASSUME DeltaInv, NEW r \in DeltaRequest, NEW slot \in DeltaSlot, DeltaGoto(r, slot)
  PROVE  /\ deltaReq' \in [DeltaRequest -> DeltaSlot] /\ deltaReq'[r] = slot
         /\ \A q \in DeltaRequest \ {r} : deltaReq'[q] = deltaReq[q]
BY DEF DeltaGoto, DeltaInv, DeltaTypeOK

\* A request that goes on with its file, while files, events and flags stay.
LEMMA DeltaGoesOn ==
  ASSUME DeltaInv, NEW r \in DeltaRequest, ~ DeltaFree(r), NEW slot \in DeltaSlot,
         slot.pc \in {"before", "job", "event"}, slot.file = deltaReq[r].file,
         DeltaGoto(r, slot), UNCHANGED <<disk, log, recent, world>>,
         slot.file \notin crossed /\ slot.pc \in {"job", "event"} =>
           slot.event.before = Newest(slot.file),
         slot.file \notin dirty \union missed \union crossed =>
           /\ slot.pc = "before" => slot.after = disk[slot.file]
           /\ slot.pc \in {"job", "event"} => slot.event.after = disk[slot.file]
  PROVE  DeltaInv'
<1>1. /\ deltaReq' \in [DeltaRequest -> DeltaSlot] /\ deltaReq'[r] = slot
      /\ \A q \in DeltaRequest \ {r} : deltaReq'[q] = deltaReq[q]
  BY DeltaMove
<1>2. /\ disk' = disk /\ log' = log /\ recent' = recent /\ dirty' = dirty /\ missed' = missed
      /\ crossed' = crossed
  BY DEF world
<1>3. DeltaTypeOK'
  BY <1>1, <1>2 DEF DeltaInv, DeltaTypeOK
<1>4. OneSignal'
  <2>1. \A q \in DeltaRequest :
          /\ DeltaFree(q)' <=> DeltaFree(q)
          /\ ~ DeltaFree(q) => deltaReq'[q].file = deltaReq[q].file
    BY <1>1 DEF DeltaFree
  <2> QED
    BY <1>2, <2>1 DEF DeltaInv, OneSignal
<1>5. Continues'
  BY <1>1, <1>2 DEF DeltaInv, Continues, Newest, Last
<1>6. HashIsCurrent'
  BY <1>1, <1>2 DEF DeltaInv, HashIsCurrent
<1>7. EventsFollow'
  <2>1. \A f : Untouched(f)' => Untouched(f)
    BY <1>1 DEF Untouched, DeltaFree
  <2> QED
    BY <1>2, <2>1 DEF DeltaInv, EventsFollow, EventsKeepUp, EventsChain, Last
<1> QED
  BY <1>3, <1>4, <1>5, <1>6, <1>7 DEF DeltaInv

LEMMA ChangeFileStep ==
  ASSUME DeltaInv, NEW f \in File, NEW h \in Digest, ChangeFile(f, h)
  PROVE  DeltaInv'
<1>1. /\ disk' \in [File -> Digest] /\ \A g \in File \ {f} : disk'[g] = disk[g]
      /\ dirty' = dirty \union {f} /\ log' = log /\ recent' = recent /\ deltaReq' = deltaReq
      /\ missed' = missed /\ crossed' = crossed
  BY DEF ChangeFile, DeltaInv, DeltaTypeOK
<1>2. DeltaTypeOK'
  BY <1>1 DEF DeltaInv, DeltaTypeOK
<1>3. OneSignal' /\ Continues'
  BY <1>1 DEF DeltaInv, OneSignal, Continues, DeltaFree, Newest, Last
<1>4. HashIsCurrent'
  BY <1>1 DEF DeltaInv, HashIsCurrent
<1>5. EventsFollow'
  BY <1>1 DEF DeltaInv, EventsFollow, EventsKeepUp, EventsChain, Last, Untouched, DeltaFree
<1> QED
  BY <1>2, <1>3, <1>4, <1>5 DEF DeltaInv

LEMMA SignalStep ==
  ASSUME DeltaInv, NEW r \in DeltaRequest, NEW f \in File, NEW deleted \in BOOLEAN,
         Signal(r, f, deleted)
  PROVE  DeltaInv'
<1> DEFINE slot == IF deleted THEN [pc |-> "before", file |-> f, after |-> Gone]
                   ELSE [pc |-> "hash", file |-> f]
<1>1. /\ DeltaFree(r) /\ (deleted => disk[f] = Gone) /\ TakeUp(r, f, slot)
      /\ crossed' = IF Untouched(f) THEN crossed ELSE crossed \union {f}
      /\ dirty' = dirty \ {f} /\ disk' = disk /\ log' = log /\ recent' = recent
  BY DEF Signal
<1>2. /\ slot \in DeltaSlot /\ slot.file = f /\ slot.pc \in {"before", "hash"}
      /\ slot.pc = "before" => slot.after = disk[f]
  BY <1>1, DeltaSlots DEF Digest
<1>3. f \notin crossed' => Untouched(f)
  BY <1>1
<1> HIDE DEF slot
<1>4. CASE f \in recent
  <2>1. missed' = missed \union ({f} \intersect dirty) /\ deltaReq' = deltaReq
    BY <1>1, <1>4 DEF TakeUp
  <2>2. dirty \union missed \union crossed \subseteq dirty' \union missed' \union crossed'
        /\ crossed \subseteq crossed'
    BY <1>1, <2>1
  <2>3. DeltaTypeOK'
    BY <1>1, <2>1 DEF DeltaInv, DeltaTypeOK
  <2>4. OneSignal' /\ Continues'
    BY <1>1, <2>1, <2>2 DEF DeltaInv, OneSignal, Continues, DeltaFree, Newest, Last
  <2>5. HashIsCurrent'
    BY <1>1, <2>1, <2>2 DEF DeltaInv, HashIsCurrent
  <2>6. EventsFollow'
    BY <1>1, <2>1, <2>2
       DEF DeltaInv, EventsFollow, EventsKeepUp, EventsChain, Last, Untouched, DeltaFree
  <2> QED
    BY <2>3, <2>4, <2>5, <2>6 DEF DeltaInv
<1>5. CASE f \notin recent
  <2>1. missed' = missed \ {f} /\ DeltaGoto(r, slot)
    BY <1>1, <1>5 DEF TakeUp
  <2>2. /\ deltaReq' \in [DeltaRequest -> DeltaSlot] /\ deltaReq'[r] = slot
        /\ \A q \in DeltaRequest \ {r} : deltaReq'[q] = deltaReq[q]
    BY <1>2, <2>1, DeltaMove
  <2>3. crossed \subseteq crossed' /\ \A g \in File \ {f} :
          g \in dirty' \union missed' \union crossed' <=> g \in dirty \union missed \union crossed
    BY <1>1, <2>1
  <2>4. DeltaTypeOK'
    BY <1>1, <2>1, <2>2 DEF DeltaInv, DeltaTypeOK
  <2>5. \A q \in DeltaRequest \ {r} : f \notin crossed' => DeltaFree(q) \/ deltaReq[q].file # f
    BY <1>3 DEF Untouched
  <2>6. OneSignal'
    BY <1>1, <1>2, <2>2, <2>3, <2>5 DEF DeltaInv, OneSignal, DeltaFree
  <2>7. Continues'
    BY <1>1, <1>2, <2>2, <2>3 DEF DeltaInv, Continues, Newest, Last
  <2>8. HashIsCurrent'
    <3> SUFFICES ASSUME NEW q \in DeltaRequest, NEW g \in File,
                        g \notin dirty' \union missed' \union crossed', deltaReq'[q].file = g
                 PROVE  /\ deltaReq'[q].pc = "before" => deltaReq'[q].after = disk[g]
                        /\ deltaReq'[q].pc \in {"job", "event"} =>
                             deltaReq'[q].event.after = disk[g]
      BY <1>1 DEF HashIsCurrent
    <3>1. CASE q = r
      BY <1>2, <2>2, <3>1
    <3>2. CASE q # r /\ g = f
      BY <2>2, <2>5, <3>2 DEF DeltaFree
    <3>3. CASE q # r /\ g # f
      BY <2>2, <2>3, <3>3 DEF DeltaInv, HashIsCurrent
    <3> QED
      BY <3>1, <3>2, <3>3
  <2>9. EventsFollow'
    <3>1. ~ Untouched(f)'
      BY <1>2, <2>2 DEF Untouched, DeltaFree
    <3>2. \A g \in File : Untouched(g)' => Untouched(g)
      BY <1>1, <2>2 DEF Untouched, DeltaFree
    <3> QED
      BY <1>1, <2>3, <3>1, <3>2 DEF DeltaInv, EventsFollow, EventsKeepUp, EventsChain, Last
  <2> QED
    BY <2>4, <2>6, <2>7, <2>8, <2>9 DEF DeltaInv
<1> QED
  BY <1>4, <1>5

LEMMA ReadHashStep ==
  ASSUME DeltaInv, NEW r \in DeltaRequest, ReadHash(r)
  PROVE  DeltaInv'
<1> DEFINE f == deltaReq[r].file
           slot == [pc |-> "before", file |-> f, after |-> disk[f]]
<1>1. /\ deltaReq[r].pc = "hash" /\ DeltaGoto(r, slot)
      /\ UNCHANGED <<disk, log, recent, world>>
  BY DEF ReadHash, DeltaAt
<1>2. f \in File /\ disk[f] \in Digest
  BY <1>1, DeltaSlots DEF DeltaInv, DeltaTypeOK
<1>3. slot \in DeltaSlot /\ slot.pc = "before" /\ slot.file = f /\ slot.after = disk[f]
  BY <1>2, DeltaSlots
<1>4. ~ DeltaFree(r)
  BY <1>1 DEF DeltaFree
<1> HIDE DEF slot
<1> QED
  BY <1>1, <1>3, <1>4, DeltaGoesOn

\* Newest is a hash.
LEMMA NewestType ==
  ASSUME DeltaTypeOK, NEW f \in File
  PROVE  Newest(f) \in Digest
<1>1. log[f] \in Seq(Event)
  BY DEF DeltaTypeOK
<1>2. CASE log[f] = << >>
  BY <1>2 DEF Newest, Digest
<1>3. CASE log[f] # << >>
  <2>1. Len(log[f]) \in Nat /\ Len(log[f]) # 0
    BY <1>1, <1>3, LenProperties, EmptySeq
  <2>2. log[f][Len(log[f])] \in Event
    BY <1>1, <2>1, ElementOfSeq
  <2> QED
    BY <1>3, <2>2 DEF Newest, Last, Event
<1> QED
  BY <1>2, <1>3

LEMMA ReadBeforeStep ==
  ASSUME DeltaInv, NEW r \in DeltaRequest, ReadBefore(r)
  PROVE  DeltaInv'
<1> DEFINE q == deltaReq[r]
           event == [before |-> Newest(q.file), after |-> q.after, job |-> FALSE]
           slot == [pc |-> "job", file |-> q.file, event |-> event]
<1>1. q.pc = "before" /\ DeltaGoto(r, slot) /\ UNCHANGED <<disk, log, recent, world>>
  BY DEF ReadBefore, DeltaAt
<1>2. q.file \in File /\ q.after \in Digest
  BY <1>1, DeltaSlots DEF DeltaInv, DeltaTypeOK
<1>3. event \in Event /\ event.before = Newest(q.file) /\ event.after = q.after
  BY <1>2, NewestType DEF Event, DeltaInv
<1> HIDE DEF event
<1>4. slot \in DeltaSlot /\ slot.pc = "job" /\ slot.file = q.file /\ slot.event = event
  BY <1>2, <1>3, DeltaSlots
<1>5. ~ DeltaFree(r)
  BY <1>1 DEF DeltaFree
<1>6. q.file \notin dirty \union missed \union crossed => q.after = disk[q.file]
  BY <1>1, <1>2 DEF DeltaInv, HashIsCurrent
<1> HIDE DEF slot
<1> QED
  BY <1>1, <1>3, <1>4, <1>5, <1>6, DeltaGoesOn

LEMMA EnqueueJobStep ==
  ASSUME DeltaInv, NEW r \in DeltaRequest, NEW enqueued \in BOOLEAN, EnqueueJob(r, enqueued)
  PROVE  DeltaInv'
<1> DEFINE q == deltaReq[r]
           event == [q.event EXCEPT !.job = enqueued]
           slot == [q EXCEPT !.pc = "event", !.event.job = enqueued]
<1>1. q.pc = "job" /\ DeltaGoto(r, slot) /\ UNCHANGED <<disk, log, recent, world>>
  BY DEF EnqueueJob, DeltaAt
<1>2. /\ q.file \in File /\ q.event \in Event
      /\ q = [pc |-> q.pc, file |-> q.file, event |-> q.event]
  BY <1>1, DeltaSlots DEF DeltaInv, DeltaTypeOK
<1>3. event \in Event /\ event.before = q.event.before /\ event.after = q.event.after
  BY <1>2 DEF Event
<1>4. slot \in DeltaSlot /\ slot.pc = "event" /\ slot.file = q.file /\ slot.event = event
  <2>1. q \in [pc: {"job", "event"}, file: File, event: Event]
    BY <1>1, <1>2
  <2> HIDE DEF q
  <2>2. /\ slot \in [pc: {"job", "event"}, file: File, event: Event]
        /\ slot.pc = "event" /\ slot.file = q.file /\ slot.event = event
    BY <1>3, <2>1
  <2> QED
    BY <2>2 DEF DeltaSlot
<1> HIDE DEF slot, event
<1>6. ~ DeltaFree(r)
  BY <1>1 DEF DeltaFree
<1>7. q.file \notin crossed => event.before = Newest(q.file)
  BY <1>1, <1>2, <1>3 DEF DeltaInv, Continues
<1>8. q.file \notin dirty \union missed \union crossed => event.after = disk[q.file]
  BY <1>1, <1>2, <1>3 DEF DeltaInv, HashIsCurrent
<1> QED
  BY <1>1, <1>3, <1>4, <1>6, <1>7, <1>8, DeltaGoesOn

LEMMA RecordEventStep ==
  ASSUME DeltaInv, NEW r \in DeltaRequest, RecordEvent(r)
  PROVE  DeltaInv'
<1> DEFINE f == deltaReq[r].file
           event == deltaReq[r].event
<1>1. /\ deltaReq[r].pc = "event" /\ log' = [log EXCEPT ![f] = Append(@, event)]
      /\ recent' = recent \union {f} /\ DeltaGoto(r, DeltaIdle)
      /\ disk' = disk /\ dirty' = dirty /\ missed' = missed /\ crossed' = crossed
  BY DEF RecordEvent, DeltaAt, world
<1>2. f \in File /\ event \in Event /\ ~ DeltaFree(r)
  BY <1>1, DeltaSlots DEF DeltaInv, DeltaTypeOK, DeltaFree
<1>3. /\ deltaReq' \in [DeltaRequest -> DeltaSlot] /\ deltaReq'[r].pc = "idle"
      /\ \A q \in DeltaRequest \ {r} : deltaReq'[q] = deltaReq[q]
  BY <1>1, DeltaSlots, DeltaMove
<1>4. /\ log[f] \in Seq(Event) /\ log \in [File -> Seq(Event)]
      /\ log'[f] = Append(log[f], event) /\ \A g \in File \ {f} : log'[g] = log[g]
  BY <1>1, <1>2 DEF DeltaInv, DeltaTypeOK
<1> DEFINE n == Len(log[f])
<1>5. /\ log'[f] \in Seq(Event) /\ n \in Nat /\ Len(log'[f]) = n + 1
      /\ log'[f][n + 1] = event /\ \A i \in 1..n : log'[f][i] = log[f][i]
      /\ n = 0 => log[f] = << >>
  BY <1>2, <1>4, AppendProperties, LenProperties, EmptySeq
<1>6. DeltaTypeOK'
  BY <1>1, <1>2, <1>3, <1>4, <1>5 DEF DeltaInv, DeltaTypeOK
<1>7. OneSignal'
  BY <1>1, <1>3 DEF DeltaInv, OneSignal, DeltaFree
<1>8. HashIsCurrent'
  BY <1>1, <1>3 DEF DeltaInv, HashIsCurrent
<1>9. Continues'
  <2> SUFFICES ASSUME NEW q \in DeltaRequest, NEW g \in File \ crossed,
                      deltaReq'[q].pc \in {"job", "event"}, deltaReq'[q].file = g
               PROVE  deltaReq'[q].event.before = Newest(g)'
    BY <1>1 DEF Continues
  <2>1. q # r /\ deltaReq'[q] = deltaReq[q]
    BY <1>3
  <2>2. g # f
    BY <1>2, <2>1 DEF DeltaInv, OneSignal, DeltaFree
  <2> QED
    BY <1>4, <2>1, <2>2 DEF DeltaInv, Continues, Newest, Last
<1>10. EventsKeepUp'
  <2> SUFFICES ASSUME NEW g \in File, g \notin dirty \union missed \union crossed, Untouched(g)',
                      log'[g] # << >>
               PROVE  log'[g][Len(log'[g])].after = disk[g]
    BY <1>1 DEF EventsKeepUp, Last
  <2>1. CASE g = f
    BY <1>1, <1>2, <1>5, <2>1 DEF DeltaInv, HashIsCurrent
  <2>2. CASE g # f
    <3>1. Untouched(g)
      BY <1>3, <2>2 DEF Untouched, DeltaFree
    <3> QED
      BY <1>4, <2>2, <3>1 DEF DeltaInv, EventsFollow, EventsKeepUp, Last
  <2> QED
    BY <2>1, <2>2
<1>11. EventsChain'
  <2> SUFFICES ASSUME NEW g \in File \ crossed, NEW i \in 1..(Len(log'[g]) - 1)
               PROVE  log'[g][i + 1].before = log'[g][i].after
    BY <1>1 DEF EventsChain
  <2>1. CASE g # f
    BY <1>4, <2>1 DEF DeltaInv, EventsFollow, EventsChain
  <2>2. CASE g = f /\ i # n
    <3>1. i \in 1..(n - 1) /\ log'[f][i] = log[f][i] /\ log'[f][i + 1] = log[f][i + 1]
      BY <1>5, <2>2
    <3> QED
      BY <1>2, <2>2, <3>1 DEF DeltaInv, EventsFollow, EventsChain
  <2>3. CASE g = f /\ i = n
    <3>1. log[f] # << >> /\ log'[f][i + 1] = event /\ log'[f][i] = log[f][n]
      BY <1>5, <2>3, EmptySeq
    <3>2. event.before = Newest(f)
      BY <1>1, <1>2, <2>3 DEF DeltaInv, Continues
    <3> QED
      BY <2>3, <3>1, <3>2 DEF Newest, Last
  <2> QED
    BY <2>1, <2>2, <2>3
<1> QED
  BY <1>6, <1>7, <1>8, <1>9, <1>10, <1>11 DEF DeltaInv, EventsFollow

LEMMA DeltaAbortStep ==
  ASSUME DeltaInv, NEW r \in DeltaRequest, DeltaAbort(r)
  PROVE  DeltaInv'
<1> DEFINE f == deltaReq[r].file
<1>1. /\ ~ DeltaFree(r) /\ missed' = missed \union {f} /\ DeltaGoto(r, DeltaIdle)
      /\ disk' = disk /\ log' = log /\ recent' = recent /\ dirty' = dirty /\ crossed' = crossed
  BY DEF DeltaAbort
<1>2. f \in File
  BY <1>1, DeltaSlots DEF DeltaFree, DeltaInv, DeltaTypeOK
<1>3. /\ deltaReq' \in [DeltaRequest -> DeltaSlot] /\ deltaReq'[r].pc = "idle"
      /\ \A q \in DeltaRequest \ {r} : deltaReq'[q] = deltaReq[q]
  BY <1>1, DeltaSlots, DeltaMove
<1>4. DeltaTypeOK'
  BY <1>1, <1>2, <1>3 DEF DeltaInv, DeltaTypeOK
<1>5. OneSignal' /\ Continues' /\ HashIsCurrent'
  BY <1>1, <1>3 DEF DeltaInv, OneSignal, Continues, HashIsCurrent, DeltaFree, Newest, Last
<1>6. EventsFollow'
  <2>1. \A g \in File \ {f} : Untouched(g)' => Untouched(g)
    BY <1>3 DEF Untouched, DeltaFree
  <2> QED
    BY <1>1, <2>1 DEF DeltaInv, EventsFollow, EventsKeepUp, EventsChain, Last
<1> QED
  BY <1>4, <1>5, <1>6 DEF DeltaInv

LEMMA DeltaNextInv == DeltaInv /\ [DeltaNext]_deltaVars => DeltaInv'
<1> SUFFICES ASSUME DeltaInv, [DeltaNext]_deltaVars PROVE DeltaInv'
  OBVIOUS
<1>1. ASSUME /\ disk' = disk /\ log' = log /\ deltaReq' = deltaReq /\ recent' \subseteq recent
             /\ dirty' = dirty /\ missed' = missed /\ crossed' = crossed
      PROVE  DeltaInv'
  BY <1>1 DEF DeltaInv, DeltaTypeOK, OneSignal, Continues, HashIsCurrent, EventsFollow,
              EventsKeepUp, EventsChain, Untouched, DeltaFree, Newest, Last
<1>2. CASE UNCHANGED deltaVars
  BY <1>1, <1>2 DEF deltaVars, world
<1>3. ASSUME NEW f \in File, WindowCloses(f) PROVE DeltaInv'
  BY <1>1, <1>3 DEF WindowCloses, world
<1> QED
  BY <1>2, <1>3, ChangeFileStep, SignalStep, ReadHashStep, ReadBeforeStep, EnqueueJobStep,
     RecordEventStep, DeltaAbortStep DEF DeltaNext

\* Whoever reads a path's events sees the contents of the file one after the other, up to the
\* one it has, for any number of files, contents and requests: what breaks this is an overlap
\* of signals, a failed one, or a change within 1500 ms of an event, and nothing else.
THEOREM EventsFollowHolds == DeltaSpec => []EventsFollow
<1>1. DeltaInv => EventsFollow
  BY DEF DeltaInv
<1> QED
  BY <1>1, DeltaInitInv, DeltaNextInv, PTL DEF DeltaSpec
=============================================================================
