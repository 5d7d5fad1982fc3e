---------------------- MODULE ArtifactMigrationProofs -----------------------
(***************************************************************************)
(* Proofs about ArtifactMigration, for every set of copiers and targets    *)
(* and every number of copies, activations and faults.  MigrationInv says  *)
(* which row the artifact points to, that the original place stays on      *)
(* record, and that each place that lost its content cost a fault.         *)
(***************************************************************************)
EXTENDS ArtifactMigration, TLAPS

(* artifact_locations keeps its unique index on role and URI. *)
Unique(rows) ==
    \A i, j \in 1..Len(rows) : SameRow(rows[i], rows[j]) => i = j

(* An artifact that was never activated is where it was created; another one
   is where its only primary location is.                                  *)
PointsToPrimary ==
    IF artifact.status = "none"
    THEN /\ artifact.uri = Original
         /\ \A i \in Ids : locations[i].role # "primary"
    ELSE \E p \in Ids :
           /\ locations[p].role = "primary"
           /\ locations[p].uri = artifact.uri
           /\ locations[p].verified
           /\ locations[p].status = artifact.status
           /\ \A i \in Ids : locations[i].role = "primary" => i = p

(* The original place has a row as soon as there is any, as a source that no
   copy verified: it can never be activated.                               *)
OriginalOnRecord ==
    /\ \A i \in Ids : locations[i].uri = Original =>
         locations[i].role = "migration_source" /\ ~locations[i].verified
    /\ \A i \in Ids : \E j \in Ids : locations[j].uri = Original

(* A copy goes to a target, from the original place or one on record. *)
CopiesGrounded ==
    \A c \in Copiers :
        /\ copier[c].pc # "idle" => copier[c].target \in Targets
        /\ copier[c].source # Original =>
             \E i \in Ids : locations[i].uri = copier[c].source

(* Places that someone counts on and nobody is overwriting. *)
Writing(u) == \E c \in Copiers : copier[c].pc = "writing" /\ copier[c].target = u

Settled(u) == Relied(u) /\ ~Writing(u)

Spoilt(u) == store[u] # "intact"

(* Each place that lost its content cost a fault. *)
FaultsCounted ==
    /\ Spoilt(Original) => faults >= 1
    /\ \A u \in Targets : Settled(u) /\ Spoilt(u) =>
         faults >= 1 /\ (Spoilt(Original) => faults >= 2)

MigrationInv ==
    /\ TypeOK
    /\ Unique(locations)
    /\ PointsToPrimary
    /\ OriginalOnRecord
    /\ CopiesGrounded
    /\ FaultsCounted

-----------------------------------------------------------------------------
Statuses == {"retained", "verified", "observing", "stable"}

Rows == [role : Roles, uri : URIs, verified : BOOLEAN, status : Statuses]

Copies ==
    [pc : {"idle", "write", "writing", "verify", "commit"}, source : URIs, target : URIs]

(* A sequence is a function on 1..n, and its members are where it says. *)
LEMMA SequenceShape ==
    ASSUME NEW S, NEW s \in Seq(S)
    PROVE  /\ Len(s) \in Nat
           /\ s \in [1..Len(s) -> S]
           /\ DOMAIN s = 1..Len(s)
  BY SMT

LEMMA SequenceMember ==
    ASSUME NEW S, NEW s \in Seq(S), NEW n \in 1..Len(s)
    PROVE  s[n] \in S
  BY SMT

(* Append adds one member and keeps the others. *)
LEMMA SequenceAppend ==
    ASSUME NEW S, NEW s \in Seq(S), NEW x \in S
    PROVE  /\ Append(s, x) \in Seq(S)
           /\ Len(Append(s, x)) = Len(s) + 1
           /\ \A i \in 1..Len(s) : Append(s, x)[i] = s[i]
           /\ Append(s, x)[Len(s) + 1] = x
  BY SMT

(* A function on 1..n is a sequence of length n. *)
LEMMA SequenceOfLength ==
    ASSUME NEW S, NEW n \in Nat, NEW f \in [1..n -> S]
    PROVE  f \in Seq(S) /\ Len(f) = n
  <1>1. f \in Seq(S)
    BY SMT
  <1>2. DOMAIN f = 1..n /\ DOMAIN f = 1..Len(f) /\ Len(f) \in Nat
    BY <1>1, SequenceShape, Zenon
  <1> QED
    BY <1>1, <1>2

(* What becomes of the rows when a location of a role and URI is recorded:
   other rows stay, the row of that role and URI is there, and it counts as
   verified only if it was or is now.                                      *)
Records(rows, new, role, uri, verified) ==
    /\ new \in Seq(Rows)
    /\ Len(rows) <= Len(new)
    /\ \A i \in 1..Len(rows) :
         /\ new[i].role = rows[i].role
         /\ new[i].uri = rows[i].uri
         /\ (rows[i].role = role /\ rows[i].uri = uri) \/ new[i] = rows[i]
         /\ new[i].verified => rows[i].verified \/ verified
    /\ \A i \in 1..Len(new) : i > Len(rows) =>
         /\ new[i].role = role
         /\ new[i].uri = uri
         /\ new[i].verified => verified
    /\ \E i \in 1..Len(new) : new[i].role = role /\ new[i].uri = uri
    /\ Unique(rows) => Unique(new)

(* Rows new differ from rows in those of that role and URI, which there are. *)
SameButFor(rows, new, role, uri, verified) ==
    /\ \E i \in 1..Len(rows) : rows[i].role = role /\ rows[i].uri = uri
    /\ new \in [1..Len(rows) -> Rows]
    /\ \A i \in 1..Len(rows) :
         /\ new[i].role = rows[i].role
         /\ new[i].uri = rows[i].uri
         /\ (rows[i].role = role /\ rows[i].uri = uri) \/ new[i] = rows[i]
         /\ new[i].verified => rows[i].verified \/ verified

(* A row of that role and URI is changed in place, keeping role and URI. *)
LEMMA ChangedInPlace ==
    ASSUME NEW rows \in Seq(Rows), NEW new, NEW role, NEW uri, NEW verified \in BOOLEAN,
           SameButFor(rows, new, role, uri, verified)
    PROVE  Records(rows, new, role, uri, verified)
  <1> USE DEF SameButFor
  <1>1. Len(rows) \in Nat
    BY SequenceShape, Zenon
  <1>2. new \in Seq(Rows) /\ Len(new) = Len(rows)
    BY <1>1, SequenceOfLength
  <1>3. \E i \in 1..Len(new) : new[i].role = role /\ new[i].uri = uri
    BY <1>2, Zenon
  <1>4. Unique(rows) => Unique(new)
    BY <1>2, ZenonT(30) DEF Unique, SameRow
  <1>5. \A i \in 1..Len(new) : ~(i > Len(rows))
    BY <1>1, <1>2
  <1> QED
    BY <1>1, <1>2, <1>3, <1>4, <1>5 DEF Records

(* A row of a new role and URI is added at the end. *)
LEMMA AddedAtEnd ==
    ASSUME NEW rows \in Seq(Rows), NEW role, NEW uri, NEW verified \in BOOLEAN,
           {i \in 1..Len(rows) : rows[i].role = role /\ rows[i].uri = uri} = {},
           NEW row \in Rows, row.role = role, row.uri = uri, row.verified = verified
    PROVE  Records(rows, Append(rows, row), role, uri, verified)
  <1>1. PICK new : new = Append(rows, row)
    BY Zenon
  <1>2. Len(rows) \in Nat
    BY SequenceShape, Zenon
  <1>3. /\ new \in Seq(Rows)
        /\ Len(new) = Len(rows) + 1
        /\ \A i \in 1..Len(rows) : new[i] = rows[i]
        /\ new[Len(rows) + 1] = row
    BY <1>1, SequenceAppend
  <1>4. \A i \in 1..Len(new) : i > Len(rows) => i = Len(rows) + 1
    BY <1>2, <1>3
  <1>5. Len(rows) + 1 \in 1..Len(new) /\ Len(rows) <= Len(new)
    BY <1>2, <1>3
  <1>6. \A i \in 1..Len(rows) : ~(rows[i].role = role /\ rows[i].uri = uri)
    BY Zenon
  <1>7. ASSUME Unique(rows) PROVE Unique(new)
    <2> SUFFICES ASSUME NEW i \in 1..Len(new), NEW j \in 1..Len(new),
                        SameRow(new[i], new[j])
                 PROVE  i = j
      BY Zenon DEF Unique
    <2>1. i \in 1..Len(rows) \/ i = Len(rows) + 1
      BY <1>2, <1>3
    <2>2. j \in 1..Len(rows) \/ j = Len(rows) + 1
      BY <1>2, <1>3
    <2> QED
      BY <1>3, <1>6, <1>7, <2>1, <2>2, Zenon DEF Unique, SameRow
  <1> QED
    BY <1>1, <1>3, <1>4, <1>5, <1>7, Zenon DEF Records

(* upsertArtifactLocation records the location. *)
LEMMA UpsertRecords ==
    ASSUME NEW rows \in Seq(Rows), NEW role \in Roles, NEW uri \in URIs,
           NEW verified \in BOOLEAN, NEW status \in Statuses
    PROVE  Records(rows, upsertArtifactLocation(rows, role, uri, verified, status),
                   role, uri, verified)
  <1> DEFINE same == {i \in 1..Len(rows) : rows[i].role = role /\ rows[i].uri = uri}
             row == [role |-> role, uri |-> uri, verified |-> verified, status |-> status]
             changed(i) == [rows[i] EXCEPT !.verified = rows[i].verified \/ verified,
                                           !.status = status]
             new == [i \in 1..Len(rows) |-> IF i \in same THEN changed(i) ELSE rows[i]]
  <1>1. upsertArtifactLocation(rows, role, uri, verified, status) =
          IF same = {} THEN Append(rows, row) ELSE new
    BY Zenon DEF upsertArtifactLocation
  <1>2. row \in Rows /\ row.role = role /\ row.uri = uri /\ row.verified = verified
    BY Zenon DEF Rows
  <1>3. ASSUME NEW i \in 1..Len(rows)
        PROVE  /\ rows[i] \in Rows
               /\ changed(i) \in Rows
               /\ changed(i).role = rows[i].role
               /\ changed(i).uri = rows[i].uri
               /\ changed(i).verified => rows[i].verified \/ verified
    <2>1. rows[i] \in Rows
      BY SequenceMember, Zenon
    <2>2. (rows[i].verified \/ verified) \in BOOLEAN
      BY Zenon
    <2>3. changed(i) \in Rows
      BY <2>1, <2>2, Zenon DEF Rows
    <2>4. changed(i).role = rows[i].role /\ changed(i).uri = rows[i].uri
      BY <2>1, Zenon DEF Rows
    <2>5. changed(i).verified = (rows[i].verified \/ verified)
      BY <2>1, Zenon DEF Rows
    <2> QED
      BY <2>1, <2>3, <2>4, <2>5, Zenon
  <1>4. CASE same = {}
    BY <1>1, <1>2, <1>4, AddedAtEnd, Zenon
  <1>5. CASE same # {}
    <2> HIDE DEF changed
    <2>1. new \in [1..Len(rows) -> Rows]
      BY <1>3, Zenon
    <2>2. \A i \in 1..Len(rows) :
            /\ new[i].role = rows[i].role
            /\ new[i].uri = rows[i].uri
            /\ (rows[i].role = role /\ rows[i].uri = uri) \/ new[i] = rows[i]
            /\ new[i].verified => rows[i].verified \/ verified
      BY <1>3, Zenon
    <2>3. \E i \in 1..Len(rows) : rows[i].role = role /\ rows[i].uri = uri
      BY <1>5, Zenon
    <2> HIDE DEF new
    <2>4. SameButFor(rows, new, role, uri, verified)
      BY <2>1, <2>2, <2>3, Zenon DEF SameButFor
    <2>5. Records(rows, new, role, uri, verified)
      BY <2>4, ChangedInPlace, Zenon
    <2> QED
      BY <1>1, <1>5, <2>5, Zenon
  <1> QED
    BY <1>4, <1>5, Zenon

(* Retain records where the artifact was. *)
LEMMA RetainRecords ==
    ASSUME NEW rows \in Seq(Rows), NEW uri \in URIs
    PROVE  Records(rows, Retain(rows, uri), "migration_source", uri, TRUE)
  <1> DEFINE same == {i \in 1..Len(rows) :
                        rows[i].role = "migration_source" /\ rows[i].uri = uri}
             row == [role |-> "migration_source", uri |-> uri, verified |-> TRUE,
                     status |-> "retained"]
             changed(i) == [rows[i] EXCEPT !.status = "retained"]
             new == [i \in 1..Len(rows) |-> IF i \in same THEN changed(i) ELSE rows[i]]
  <1>1. Retain(rows, uri) = IF same = {} THEN Append(rows, row) ELSE new
    BY Zenon DEF Retain
  <1>2. /\ row \in Rows /\ row.role = "migration_source" /\ row.uri = uri
        /\ row.verified = TRUE
    BY Zenon DEF Rows, Roles, Statuses
  <1>3. ASSUME NEW i \in 1..Len(rows)
        PROVE  /\ rows[i] \in Rows
               /\ changed(i) \in Rows
               /\ changed(i).role = rows[i].role
               /\ changed(i).uri = rows[i].uri
    <2>1. rows[i] \in Rows
      BY SequenceMember, Zenon
    <2> QED
      BY <2>1, Zenon DEF Rows, Statuses
  <1>4. CASE same = {}
    BY <1>1, <1>2, <1>4, AddedAtEnd, Zenon
  <1>5. CASE same # {}
    <2> HIDE DEF changed
    <2>1. new \in [1..Len(rows) -> Rows]
      BY <1>3, Zenon
    <2>2. \A i \in 1..Len(rows) :
            /\ new[i].role = rows[i].role
            /\ new[i].uri = rows[i].uri
            /\ (rows[i].role = "migration_source" /\ rows[i].uri = uri) \/ new[i] = rows[i]
      BY <1>3, Zenon
    <2>3. \E i \in 1..Len(rows) : rows[i].role = "migration_source" /\ rows[i].uri = uri
      BY <1>5, Zenon
    <2> HIDE DEF new
    <2>4. SameButFor(rows, new, "migration_source", uri, TRUE)
      BY <2>1, <2>2, <2>3, Zenon DEF SameButFor
    <2>5. Records(rows, new, "migration_source", uri, TRUE)
      BY <2>4, ChangedInPlace, Zenon
    <2> QED
      BY <1>1, <1>5, <2>5, Zenon
  <1> QED
    BY <1>4, <1>5, Zenon

-----------------------------------------------------------------------------
(* The types, with the rows and copies named. *)
LEMMA Types ==
    TypeOK <=>
    /\ store \in [URIs -> {"absent", "intact", "torn"}]
    /\ artifact \in [uri : URIs, status : {"none", "observing", "stable"}]
    /\ due \in BOOLEAN
    /\ locations \in Seq(Rows)
    /\ copier \in [Copiers -> Copies]
    /\ copies \in 0..MaxCopies
    /\ activations \in 0..MaxActivations
    /\ faults \in 0..MaxFaults
  BY Zenon DEF TypeOK, Rows, Copies, Statuses

(* Rows are only added, and keep their URI: what every transaction on
   artifact_locations guarantees.                                          *)
UrisKept ==
    /\ Len(locations) <= Len(locations')
    /\ \A i \in Ids : locations'[i].uri = locations[i].uri

(* Then a place on record stays on record. *)
LEMMA OnRecord ==
    ASSUME TypeOK, TypeOK', UrisKept, NEW u, \E i \in Ids : locations[i].uri = u
    PROVE  \E i \in Ids' : locations'[i].uri = u
  <1>1. PICK i \in Ids : locations[i].uri = u
    BY Zenon
  <1>2. Len(locations) \in Nat /\ Len(locations') \in Nat
    BY SequenceShape, Zenon DEF TypeOK
  <1>3. i \in Ids'
    BY <1>2 DEF Ids, UrisKept
  <1> QED
    BY <1>1, <1>3, Zenon DEF UrisKept

(* A copier moves to pc, its source and target as they were. *)
LEMMA StepMoves ==
    ASSUME TypeOK, NEW c \in Copiers,
           NEW pc \in {"idle", "write", "writing", "verify", "commit"}, Step(c, pc)
    PROVE  /\ copier' \in [Copiers -> Copies]
           /\ copier'[c].pc = pc
           /\ copier'[c].source = copier[c].source
           /\ copier'[c].target = copier[c].target
           /\ \A d \in Copiers \ {c} : copier'[d] = copier[d]
  <1>1. copier \in [Copiers -> Copies]
    BY Types, Zenon
  <1> QED
    BY <1>1, Zenon DEF Step, Copies

(* A copier starts afresh. *)
LEMMA CopierSet ==
    ASSUME TypeOK, NEW c \in Copiers, NEW new \in Copies,
           copier' = [copier EXCEPT ![c] = new]
    PROVE  /\ copier' \in [Copiers -> Copies]
           /\ copier'[c] = new
           /\ \A d \in Copiers \ {c} : copier'[d] = copier[d]
  <1>1. copier \in [Copiers -> Copies]
    BY Types, Zenon
  <1> QED
    BY <1>1, Zenon

LEMMA IdleCopy ==
    Idle \in Copies /\ Idle.pc = "idle" /\ Idle.source = Original /\ Idle.target = Original
  BY Zenon DEF Idle, Copies, URIs

(* Steps that leave the tables alone and let one copier move on keep what is
   said of the rows, and of the copies too if a new one is grounded.       *)
LEMMA TablesKept ==
    ASSUME MigrationInv, UNCHANGED <<artifact, locations>>, NEW c \in Copiers,
           copier' \in [Copiers -> Copies],
           \A d \in Copiers \ {c} : copier'[d] = copier[d],
           copier'[c].pc # "idle" => copier'[c].target \in Targets,
           copier'[c].source # Original =>
             \E i \in Ids : locations[i].uri = copier'[c].source
    PROVE  /\ Unique(locations)' /\ PointsToPrimary' /\ OriginalOnRecord'
           /\ CopiesGrounded'
  <1>1. Ids' = Ids
    BY Zenon DEF Ids
  <1>2. Unique(locations)'
    BY Zenon DEF MigrationInv, Unique
  <1>3. PointsToPrimary'
    BY <1>1, Zenon DEF MigrationInv, PointsToPrimary
  <1>4. OriginalOnRecord'
    BY <1>1, Zenon DEF MigrationInv, OriginalOnRecord
  <1>5. CopiesGrounded'
    BY <1>1, Zenon DEF MigrationInv, CopiesGrounded
  <1> QED
    BY <1>2, <1>3, <1>4, <1>5, Zenon

(* No place becomes settled that was not, and none is spoilt. *)
LEMMA FaultsKept ==
    ASSUME FaultsCounted, faults' = faults,
           Spoilt(Original)' => Spoilt(Original),
           \A u \in Targets : Settled(u)' /\ Spoilt(u)' => Settled(u) /\ Spoilt(u)
    PROVE  FaultsCounted'
  BY Zenon DEF FaultsCounted

(* A fault pays for one more place at most. *)
LEMMA FaultPays ==
    ASSUME FaultsCounted, faults \in Nat, faults' = faults + 1,
           Original \notin Targets,
           NEW lost \in URIs,
           \A u \in URIs \ {lost} : Spoilt(u)' => Spoilt(u),
           \A u \in Targets \ {lost} : Settled(u)' => Settled(u)
    PROVE  FaultsCounted'
  <1>1. Spoilt(Original)' => faults' >= 1
    OBVIOUS
  <1>2. ASSUME NEW u \in Targets, Settled(u)', Spoilt(u)'
        PROVE  faults' >= 1 /\ (Spoilt(Original)' => faults' >= 2)
    <2>1. faults' >= 1
      OBVIOUS
    <2>2. ASSUME Spoilt(Original)' PROVE faults >= 1
      <3>1. CASE lost = u
        <4>1. Spoilt(Original)
          BY <2>2, <3>1, Zenon DEF URIs
        <4> QED
          BY <4>1, Zenon DEF FaultsCounted
      <3>2. CASE lost # u
        <4>1. Settled(u) /\ Spoilt(u)
          BY <1>2, <3>2, Zenon DEF URIs
        <4> QED
          BY <4>1, Zenon DEF FaultsCounted
      <3> QED
        BY <3>1, <3>2, Zenon
    <2> QED
      BY <2>1, <2>2
  <1> QED
    BY <1>1, <1>2, Zenon DEF FaultsCounted

-----------------------------------------------------------------------------
(* A copy begins: it has read the content where the artifact points. *)
LEMMA CopyReadInv ==
    ASSUME MigrationInv, NEW c \in Copiers, NEW t \in Targets, CopyRead(c, t)
    PROVE  MigrationInv'
  <1> DEFINE new == [pc |-> "write", source |-> artifact.uri, target |-> t]
  <1>0. TypeOK
    BY Zenon DEF MigrationInv
  <1>1. /\ UNCHANGED <<store, artifact, due, locations, activations, faults>>
        /\ copies < MaxCopies /\ copies' = copies + 1
        /\ copier[c].pc = "idle"
        /\ copier' = [copier EXCEPT ![c] = new]
    BY Zenon DEF CopyRead
  <1>2. /\ new \in Copies
        /\ new.pc = "write" /\ new.source = artifact.uri /\ new.target = t
    BY <1>0, Types, Zenon DEF Copies, URIs
  <1> HIDE DEF new
  <1>3. /\ copier' \in [Copiers -> Copies]
        /\ copier'[c] = new
        /\ \A d \in Copiers \ {c} : copier'[d] = copier[d]
    BY <1>0, <1>1, <1>2, CopierSet, Zenon
  <1>4. copies' \in 0..MaxCopies
    BY <1>0, <1>1, ArtifactMigrationAssumption, Types
  <1>5. TypeOK'
    BY <1>0, <1>1, <1>3, <1>4, Types, Zenon DEF TypeOK, Copies
  <1>6. artifact.uri # Original => \E i \in Ids : locations[i].uri = artifact.uri
    BY Zenon DEF MigrationInv, PointsToPrimary
  <1>7. /\ Unique(locations)' /\ PointsToPrimary' /\ OriginalOnRecord'
        /\ CopiesGrounded'
    BY <1>1, <1>2, <1>3, <1>6, TablesKept, Zenon
  <1>8. FaultsCounted'
    <2>1. \A u \in Targets : Settled(u)' => Settled(u)
      BY <1>1, <1>2, <1>3, Zenon DEF Settled, Relied, Writing, Ids
    <2>2. \A u : Spoilt(u)' <=> Spoilt(u)
      BY <1>1, Zenon DEF Spoilt
    <2> QED
      BY <1>1, <2>1, <2>2, FaultsKept, Zenon DEF MigrationInv
  <1> QED
    BY <1>5, <1>7, <1>8, Zenon DEF MigrationInv

(* A copier at work goes on: nothing is said of its source or target that
   was not so before.                                                      *)
LEMMA StepKeepsTables ==
    ASSUME MigrationInv, NEW c \in Copiers, copier[c].pc # "idle",
           NEW pc \in {"writing", "verify", "commit"}, Step(c, pc),
           UNCHANGED <<artifact, due, locations, copies, activations>>,
           store' \in [URIs -> {"absent", "intact", "torn"}], faults' \in 0..MaxFaults
    PROVE  /\ TypeOK'
           /\ Unique(locations)' /\ PointsToPrimary' /\ OriginalOnRecord'
           /\ CopiesGrounded'
  <1>0. TypeOK
    BY Zenon DEF MigrationInv
  <1>1. /\ copier' \in [Copiers -> Copies]
        /\ copier'[c].pc = pc
        /\ copier'[c].source = copier[c].source
        /\ copier'[c].target = copier[c].target
        /\ \A d \in Copiers \ {c} : copier'[d] = copier[d]
    BY <1>0, StepMoves, Zenon
  <1>2. TypeOK'
    BY <1>0, <1>1, Zenon DEF TypeOK, Copies
  <1>3. /\ copier[c].target \in Targets
        /\ copier[c].source # Original =>
             \E i \in Ids : locations[i].uri = copier[c].source
    BY Zenon DEF MigrationInv, CopiesGrounded
  <1> QED
    BY <1>1, <1>2, <1>3, TablesKept, Zenon

(* The target is truncated, written whole, or left as something else: that
   costs a fault only where someone counted on it.                         *)
LEMMA CopyWriteInv ==
    ASSUME MigrationInv, NEW c \in Copiers, CopyWrite(c)
    PROVE  MigrationInv'
  <1>0. TypeOK /\ FaultsCounted
    BY Zenon DEF MigrationInv
  <1>1. PICK t : t = copier[c].target
    BY Zenon
  <1>2. copier[c].pc \in {"write", "writing"}
    BY Zenon DEF CopyWrite
  <1>3. t \in Targets /\ t \in URIs /\ t # Original
    BY <1>1, <1>2, ArtifactMigrationAssumption, Zenon DEF MigrationInv, CopiesGrounded, URIs
  <1>4. /\ store \in [URIs -> {"absent", "intact", "torn"}]
        /\ faults \in 0..MaxFaults
    BY <1>0, Zenon DEF TypeOK
  <1>5. UNCHANGED <<artifact, due, locations, copies, activations>> /\ Ids' = Ids
    BY Zenon DEF CopyWrite, Ids
  <1>6. CASE /\ store' = [store EXCEPT ![t] = "torn"]
             /\ Step(c, "writing")
             /\ UNCHANGED faults
    <2>1. /\ store' \in [URIs -> {"absent", "intact", "torn"}]
          /\ \A u \in URIs \ {t} : store'[u] = store[u]
      BY <1>3, <1>4, <1>6, Zenon
    <2>2. /\ copier'[c].pc = "writing" /\ copier'[c].target = t
          /\ \A d \in Copiers \ {c} : copier'[d] = copier[d]
      BY <1>0, <1>1, <1>6, StepMoves, Zenon
    <2>3. Writing(t)'
      BY <2>2, Zenon DEF Writing
    <2>4. \A u \in Targets \ {t} : Settled(u)' => Settled(u)
      BY <1>1, <1>2, <1>5, <2>2, Zenon DEF Settled, Relied, Writing
    <2>5. \A u \in URIs \ {t} : Spoilt(u)' => Spoilt(u)
      BY <2>1, Zenon DEF Spoilt
    <2>6. FaultsCounted'
      BY <1>0, <1>3, <1>6, <2>3, <2>4, <2>5, FaultsKept, Zenon DEF Settled, URIs
    <2>7. /\ TypeOK'
          /\ Unique(locations)' /\ PointsToPrimary' /\ OriginalOnRecord'
          /\ CopiesGrounded'
      BY <1>2, <1>4, <1>5, <1>6, <2>1, StepKeepsTables, Zenon
    <2> QED
      BY <2>6, <2>7, Zenon DEF MigrationInv
  <1>7. CASE /\ store' = [store EXCEPT ![t] = "intact"]
             /\ Step(c, "verify")
             /\ UNCHANGED faults
    <2>1. /\ store' \in [URIs -> {"absent", "intact", "torn"}]
          /\ store'[t] = "intact"
          /\ \A u \in URIs \ {t} : store'[u] = store[u]
      BY <1>3, <1>4, <1>7, Zenon
    <2>2. /\ copier'[c].pc = "verify"
          /\ \A d \in Copiers \ {c} : copier'[d] = copier[d]
      BY <1>0, <1>7, StepMoves, Zenon
    <2>3. \A u \in Targets \ {t} : Settled(u)' => Settled(u)
      BY <1>1, <1>2, <1>5, <2>2 DEF Settled, Relied, Writing
    <2>4. ~Spoilt(t)' /\ \A u \in URIs \ {t} : Spoilt(u)' => Spoilt(u)
      BY <2>1, Zenon DEF Spoilt
    <2>5. FaultsCounted'
      BY <1>0, <1>3, <1>7, <2>3, <2>4, FaultsKept, Zenon DEF URIs
    <2>6. /\ TypeOK'
          /\ Unique(locations)' /\ PointsToPrimary' /\ OriginalOnRecord'
          /\ CopiesGrounded'
      BY <1>2, <1>4, <1>5, <1>7, <2>1, StepKeepsTables, Zenon
    <2> QED
      BY <2>5, <2>6, Zenon DEF MigrationInv
  <1>8. CASE /\ Relied(t) => faults < MaxFaults
             /\ faults' = IF Relied(t) THEN faults + 1 ELSE faults
             /\ Step(c, "verify")
             /\ UNCHANGED store
    <2>1. faults' \in 0..MaxFaults
      BY <1>4, <1>8, ArtifactMigrationAssumption
    <2>2. /\ copier'[c].pc = "verify"
          /\ \A d \in Copiers \ {c} : copier'[d] = copier[d]
      BY <1>0, <1>8, StepMoves, Zenon
    <2>3. \A u \in Targets \ {t} : Settled(u)' => Settled(u)
      BY <1>1, <1>2, <1>5, <2>2, ZenonT(30) DEF Settled, Relied, Writing
    <2>4. Relied(t)' => Relied(t)
      BY <1>1, <1>2, <1>5, <2>2, Zenon DEF Relied
    <2>5. \A u : Spoilt(u)' => Spoilt(u)
      BY <1>8, Zenon DEF Spoilt
    <2>6. CASE Relied(t)
      <3>1. faults \in Nat /\ faults' = faults + 1
        BY <1>4, <1>8, <2>6
      <3> QED
        BY <1>0, <1>3, <1>2, <1>4, <1>5, <1>8, <2>1, <2>3, <2>5, <3>1,
           FaultPays, StepKeepsTables, ArtifactMigrationAssumption, Zenon DEF MigrationInv
    <2>7. CASE ~Relied(t)
      <3>1. faults' = faults /\ ~Settled(t)'
        BY <1>8, <2>4, <2>7, Zenon DEF Settled
      <3>2. FaultsCounted'
        BY <1>0, <2>3, <2>5, <3>1, FaultsKept, Zenon
      <3> QED
        BY <1>2, <1>4, <1>5, <1>8, <2>1, <3>2, StepKeepsTables, Zenon DEF MigrationInv
    <2> QED
      BY <2>6, <2>7, Zenon
  <1> QED
    BY <1>1, <1>6, <1>7, <1>8, Zenon DEF CopyWrite

(* A copier that gives up leaves the tables as they are. *)
LEMMA IdleKeepsTables ==
    ASSUME MigrationInv, NEW c \in Copiers, copier' = [copier EXCEPT ![c] = Idle],
           UNCHANGED <<store, artifact, due, locations, copies, activations>>,
           faults' \in 0..MaxFaults
    PROVE  /\ TypeOK'
           /\ Unique(locations)' /\ PointsToPrimary' /\ OriginalOnRecord'
           /\ CopiesGrounded'
           /\ copier'[c] = Idle
           /\ \A d \in Copiers \ {c} : copier'[d] = copier[d]
  <1>0. TypeOK
    BY Zenon DEF MigrationInv
  <1>1. /\ copier' \in [Copiers -> Copies]
        /\ copier'[c] = Idle
        /\ \A d \in Copiers \ {c} : copier'[d] = copier[d]
    BY <1>0, IdleCopy, CopierSet, Zenon
  <1>2. TypeOK'
    BY <1>0, <1>1, Zenon DEF TypeOK, Copies
  <1> QED
    BY <1>1, <1>2, IdleCopy, TablesKept, Zenon

(* A copy is counted on only if what it wrote was read back whole. *)
LEMMA CopyVerifyInv ==
    ASSUME MigrationInv, NEW c \in Copiers, CopyVerify(c)
    PROVE  MigrationInv'
  <1>0. TypeOK /\ FaultsCounted
    BY Zenon DEF MigrationInv
  <1>1. /\ UNCHANGED <<store, artifact, due, locations, copies, activations, faults>>
        /\ copier[c].pc = "verify"
        /\ Ids' = Ids
    BY Zenon DEF CopyVerify, Ids
  <1>2. \A u : Spoilt(u)' <=> Spoilt(u)
    BY <1>1, Zenon DEF Spoilt
  <1>3. /\ store' \in [URIs -> {"absent", "intact", "torn"}]
        /\ faults' \in 0..MaxFaults
    BY <1>0, <1>1, Zenon DEF TypeOK
  <1>4. CASE store[copier[c].target] = "intact" /\ Step(c, "commit")
    <2>1. PICK t : t = copier[c].target
      BY Zenon
    <2>2. /\ copier'[c].pc = "commit" /\ copier'[c].target = t
          /\ \A d \in Copiers \ {c} : copier'[d] = copier[d]
      BY <1>0, <1>4, <2>1, StepMoves, Zenon
    <2>3. \A u \in Targets \ {t} : Settled(u)' => Settled(u)
      BY <1>1, <2>1, <2>2, Zenon DEF Settled, Relied, Writing
    <2>4. ~Spoilt(t)
      BY <1>4, <2>1, Zenon DEF Spoilt
    <2>5. FaultsCounted'
      BY <1>0, <1>1, <1>2, <2>3, <2>4, FaultsKept, Zenon
    <2> QED
      BY <1>1, <1>3, <1>4, <2>5, StepKeepsTables, Zenon DEF MigrationInv
  <1>5. CASE copier' = [copier EXCEPT ![c] = Idle]
    <2>1. /\ TypeOK'
          /\ Unique(locations)' /\ PointsToPrimary' /\ OriginalOnRecord'
          /\ CopiesGrounded'
          /\ copier'[c] = Idle
          /\ \A d \in Copiers \ {c} : copier'[d] = copier[d]
      BY <1>1, <1>3, <1>5, IdleKeepsTables, Zenon
    <2>2. \A u \in Targets : Settled(u)' => Settled(u)
      BY <1>1, <2>1, IdleCopy, Zenon DEF Settled, Relied, Writing
    <2>3. FaultsCounted'
      BY <1>0, <1>1, <1>2, <2>2, FaultsKept, Zenon
    <2> QED
      BY <2>1, <2>3, Zenon DEF MigrationInv
  <1> QED
    BY <1>4, <1>5, Zenon DEF CopyVerify

(* A crash may leave the target of a copy torn, which is a fault. *)
LEMMA CrashInv ==
    ASSUME MigrationInv, NEW c \in Copiers, Crash(c)
    PROVE  MigrationInv'
  <1>0. TypeOK /\ FaultsCounted
    BY Zenon DEF MigrationInv
  <1>1. /\ UNCHANGED <<store, artifact, due, locations, copies, activations>>
        /\ copier[c].pc # "idle"
        /\ faults < MaxFaults /\ faults' = faults + 1
        /\ copier' = [copier EXCEPT ![c] = Idle]
        /\ Ids' = Ids
    BY Zenon DEF Crash, Ids
  <1>2. faults \in Nat /\ faults' \in 0..MaxFaults
    BY <1>0, <1>1, ArtifactMigrationAssumption DEF TypeOK
  <1>3. /\ TypeOK'
        /\ Unique(locations)' /\ PointsToPrimary' /\ OriginalOnRecord'
        /\ CopiesGrounded'
        /\ copier'[c] = Idle
        /\ \A d \in Copiers \ {c} : copier'[d] = copier[d]
    BY <1>1, <1>2, IdleKeepsTables, Zenon
  <1>4. PICK t : t = copier[c].target
    BY Zenon
  <1>5. t \in URIs
    BY <1>1, <1>4, Zenon DEF MigrationInv, CopiesGrounded, URIs
  <1>6. \A u \in Targets \ {t} : Settled(u)' => Settled(u)
    BY <1>1, <1>3, <1>4, IdleCopy DEF Settled, Relied, Writing
  <1>7. \A u : Spoilt(u)' => Spoilt(u)
    BY <1>1, Zenon DEF Spoilt
  <1>8. FaultsCounted'
    BY <1>0, <1>1, <1>2, <1>5, <1>6, <1>7, FaultPays, ArtifactMigrationAssumption, Zenon
  <1> QED
    BY <1>3, <1>8, Zenon DEF MigrationInv

(* So may the loss of what a place holds. *)
LEMMA LoseContentInv ==
    ASSUME MigrationInv, NEW u \in URIs, LoseContent(u)
    PROVE  MigrationInv'
  <1>0. TypeOK /\ FaultsCounted
    BY Zenon DEF MigrationInv
  <1>1. /\ UNCHANGED <<artifact, due, locations, copier, copies, activations>>
        /\ faults < MaxFaults /\ faults' = faults + 1
        /\ store' = [store EXCEPT ![u] = "torn"]
        /\ Ids' = Ids
    BY Zenon DEF LoseContent, Ids
  <1>2. faults \in Nat /\ faults' \in 0..MaxFaults
    BY <1>0, <1>1, ArtifactMigrationAssumption DEF TypeOK
  <1>3. /\ store' \in [URIs -> {"absent", "intact", "torn"}]
        /\ \A v \in URIs \ {u} : store'[v] = store[v]
    BY <1>0, <1>1, Zenon DEF TypeOK
  <1>4. TypeOK'
    BY <1>0, <1>1, <1>2, <1>3, Zenon DEF TypeOK
  <1>5. \A v \in URIs \ {u} : Spoilt(v)' => Spoilt(v)
    BY <1>3, Zenon DEF Spoilt
  <1>6. \A v : Settled(v)' => Settled(v)
    BY <1>1, Zenon DEF Settled, Relied, Writing
  <1>7. FaultsCounted'
    BY <1>0, <1>1, <1>2, <1>5, <1>6, FaultPays, ArtifactMigrationAssumption, Zenon
  <1>8. Unique(locations)' /\ CopiesGrounded'
    BY <1>1, Zenon DEF MigrationInv, Unique, CopiesGrounded
  <1>9. PointsToPrimary' /\ OriginalOnRecord'
    BY <1>1 DEF MigrationInv, PointsToPrimary, OriginalOnRecord
  <1> QED
    BY <1>4, <1>7, <1>8, <1>9, Zenon DEF MigrationInv

(* The deadline passes: nothing else. *)
LEMMA PassDeadlineInv ==
    ASSUME MigrationInv, PassDeadline \/ UNCHANGED vars
    PROVE  MigrationInv'
  <1>1. /\ UNCHANGED <<store, artifact, locations, copier, copies, activations, faults>>
        /\ due' \in BOOLEAN /\ Ids' = Ids
    BY Zenon DEF PassDeadline, vars, Ids, MigrationInv, TypeOK
  <1>2. TypeOK'
    BY <1>1, Zenon DEF MigrationInv, TypeOK
  <1>3. Unique(locations)' /\ CopiesGrounded'
    BY <1>1, Zenon DEF MigrationInv, Unique, CopiesGrounded
  <1>4. PointsToPrimary' /\ OriginalOnRecord'
    BY <1>1 DEF MigrationInv, PointsToPrimary, OriginalOnRecord
  <1>5. FaultsCounted'
    BY <1>1, Zenon DEF MigrationInv, FaultsCounted, Settled, Relied, Writing, Spoilt
  <1> QED
    BY <1>2, <1>3, <1>4, <1>5, Zenon DEF MigrationInv

-----------------------------------------------------------------------------
(* A transaction that only adds rows for places already counted on, while no
   copier begins anything, keeps the copies grounded and the faults counted. *)
LEMMA RowsGrow ==
    ASSUME MigrationInv, TypeOK', UrisKept, UNCHANGED <<store, faults>>,
           \A d \in Copiers : copier'[d] = copier[d]
                              \/ (copier'[d] = Idle /\ copier[d].pc = "commit"),
           \A i \in Ids' : locations'[i].uri = Original \/ Relied(locations'[i].uri)
    PROVE  CopiesGrounded' /\ FaultsCounted'
  <1>0. TypeOK /\ FaultsCounted
    BY Zenon DEF MigrationInv
  <1>1. CopiesGrounded'
    <2> SUFFICES ASSUME NEW d \in Copiers
                 PROVE  /\ copier'[d].pc # "idle" => copier'[d].target \in Targets
                        /\ copier'[d].source # Original =>
                             \E i \in Ids' : locations'[i].uri = copier'[d].source
      BY Zenon DEF CopiesGrounded
    <2>1. CASE copier'[d] = Idle
      BY <2>1, IdleCopy, Zenon
    <2>2. CASE copier'[d] = copier[d]
      <3>1. copier[d].source # Original =>
              \E i \in Ids : locations[i].uri = copier[d].source
        BY Zenon DEF MigrationInv, CopiesGrounded
      <3>2. copier[d].source # Original =>
              \E i \in Ids' : locations'[i].uri = copier[d].source
        BY <1>0, <3>1, OnRecord, Zenon
      <3> QED
        BY <2>2, <3>2, Zenon DEF MigrationInv, CopiesGrounded
    <2> QED
      BY <2>1, <2>2, Zenon
  <1>2. ASSUME NEW u \in Targets, Settled(u)' PROVE Settled(u)
    <2>1. Relied(u)
      <3>1. u # Original
        BY ArtifactMigrationAssumption, Zenon
      <3>2. CASE \E i \in Ids' : locations'[i].uri = u
        BY <3>1, <3>2, Zenon
      <3>3. CASE \E d \in Copiers : copier'[d].pc = "commit" /\ copier'[d].target = u
        BY <3>3, IdleCopy, Zenon DEF Relied
      <3> QED
        BY <1>2, <3>2, <3>3, Zenon DEF Settled, Relied
    <2>2. ~Writing(u)
      BY <1>2, Zenon DEF Settled, Writing
    <2> QED
      BY <2>1, <2>2, Zenon DEF Settled
  <1>3. \A u : Spoilt(u)' <=> Spoilt(u)
    BY Zenon DEF Spoilt
  <1>4. FaultsCounted'
    BY <1>0, <1>2, <1>3, FaultsKept, Zenon
  <1> QED
    BY <1>1, <1>4, Zenon

(* The end of a copy records its source and its target: neither is primary,
   and the source not verified.                                            *)
LEMMA CopyCommitInv ==
    ASSUME MigrationInv, NEW c \in Copiers, CopyCommit(c)
    PROVE  MigrationInv' /\ UrisKept
  <1>0. TypeOK
    BY Zenon DEF MigrationInv
  <1>1. PICK s, t : s = copier[c].source /\ t = copier[c].target
    BY Zenon
  <1>2. PICK mid : mid = upsertArtifactLocation(locations, "migration_source", s, FALSE,
                                                "retained")
    BY Zenon
  <1>3. /\ copier[c].pc = "commit"
        /\ locations' = upsertArtifactLocation(mid, "migration_candidate", t, TRUE, "verified")
        /\ copier' = [copier EXCEPT ![c] = Idle]
        /\ UNCHANGED <<store, artifact, due, copies, activations, faults>>
    BY <1>1, <1>2, Zenon DEF CopyCommit
  <1>4. s \in URIs /\ t \in Targets /\ t \in URIs /\ t # Original
    BY <1>0, <1>1, <1>3, ArtifactMigrationAssumption, Zenon
       DEF TypeOK, MigrationInv, CopiesGrounded, URIs
  <1>5. Records(locations, mid, "migration_source", s, FALSE)
    BY <1>0, <1>2, <1>4, UpsertRecords, Types, Zenon DEF Roles, Statuses
  <1>6. mid \in Seq(Rows)
    BY <1>5, Zenon DEF Records
  <1>7. Records(mid, locations', "migration_candidate", t, TRUE)
    BY <1>3, <1>4, <1>6, UpsertRecords, Zenon DEF Roles, Statuses
  <1>8. /\ copier' \in [Copiers -> Copies]
        /\ copier'[c] = Idle
        /\ \A d \in Copiers \ {c} : copier'[d] = copier[d]
    BY <1>0, <1>3, IdleCopy, CopierSet, Zenon
  <1>9. TypeOK'
    <2>1. locations' \in Seq(Rows)
      BY <1>7, Zenon DEF Records
    <2> QED
      BY <1>0, <1>3, <1>8, <2>1, Zenon DEF TypeOK, Rows, Copies, Statuses
  <1>10. /\ Len(locations) \in Nat /\ Len(mid) \in Nat /\ Len(locations') \in Nat
         /\ Len(locations) <= Len(mid) /\ Len(mid) <= Len(locations')
    BY <1>0, <1>5, <1>6, <1>7, SequenceShape, Zenon DEF Records, TypeOK
  <1>11. ASSUME NEW i \in Ids
         PROVE  /\ i \in Ids'
                /\ locations'[i].role = locations[i].role
                /\ locations'[i].uri = locations[i].uri
                /\ locations[i].role = "primary" => locations'[i] = locations[i]
    <2>1. i \in 1..Len(locations) /\ i \in 1..Len(mid) /\ i \in 1..Len(locations')
      BY <1>10 DEF Ids
    <2>2. /\ mid[i].role = locations[i].role
          /\ mid[i].uri = locations[i].uri
          /\ locations[i].role = "primary" => mid[i] = locations[i]
      BY <1>5, <2>1, Zenon DEF Records
    <2>3. /\ locations'[i].role = mid[i].role
          /\ locations'[i].uri = mid[i].uri
          /\ mid[i].role = "primary" => locations'[i] = mid[i]
      BY <1>7, <2>1, Zenon DEF Records
    <2> QED
      BY <2>1, <2>2, <2>3, Zenon DEF Ids
  <1>12. ASSUME NEW i \in Ids'
         PROVE  \/ i \in Ids
                \/ locations'[i].role = "migration_source" /\ locations'[i].uri = s
                \/ locations'[i].role = "migration_candidate" /\ locations'[i].uri = t
    <2>1. i \in 1..Len(locations')
      BY Zenon DEF Ids
    <2>2. CASE i \in 1..Len(mid)
      <3>1. \/ i \in 1..Len(locations)
            \/ mid[i].role = "migration_source" /\ mid[i].uri = s
        BY <1>5, <1>10, <2>2 DEF Records
      <3>2. locations'[i].role = mid[i].role /\ locations'[i].uri = mid[i].uri
        BY <1>7, <2>2, Zenon DEF Records
      <3> QED
        BY <3>1, <3>2, Zenon DEF Ids
    <2>3. CASE i \notin 1..Len(mid)
      BY <1>7, <1>10, <2>1, <2>3 DEF Records
    <2> QED
      BY <2>2, <2>3, Zenon
  <1>13. Unique(locations)'
    BY <1>5, <1>7, Zenon DEF Records, MigrationInv, Unique
  <1>14. PointsToPrimary'
    <2>1. \A i \in Ids' : locations'[i].role = "primary" =>
            i \in Ids /\ locations[i].role = "primary"
      BY <1>11, <1>12, Zenon
    <2>2. CASE artifact.status = "none"
      BY <1>3, <2>1, <2>2, Zenon DEF MigrationInv, PointsToPrimary
    <2>3. CASE artifact.status # "none"
      <3>1. PICK p \in Ids :
              /\ locations[p].role = "primary"
              /\ locations[p].uri = artifact.uri
              /\ locations[p].verified
              /\ locations[p].status = artifact.status
              /\ \A i \in Ids : locations[i].role = "primary" => i = p
        BY <2>3, Zenon DEF MigrationInv, PointsToPrimary
      <3>2. p \in Ids' /\ locations'[p] = locations[p]
        BY <1>11, <3>1, Zenon
      <3> QED
        BY <1>3, <2>1, <2>3, <3>1, <3>2, Zenon DEF PointsToPrimary
    <2> QED
      BY <2>2, <2>3, Zenon
  <1>15. UrisKept
    BY <1>10, <1>11 DEF UrisKept
  <1>16. OriginalOnRecord'
    <2>1. ASSUME NEW i \in Ids', locations'[i].uri = Original
          PROVE  locations'[i].role = "migration_source" /\ ~locations'[i].verified
      <3>1. locations'[i].role = "migration_source"
        BY <1>4, <1>11, <1>12, <2>1, Zenon DEF MigrationInv, OriginalOnRecord
      <3>2. i \in 1..Len(mid) /\ mid[i] = locations'[i]
        <4>1. i \in 1..Len(locations')
          BY Zenon DEF Ids
        <4>2. i \in 1..Len(mid)
          BY <1>4, <1>7, <1>10, <2>1, <4>1 DEF Records
        <4> QED
          BY <1>4, <1>7, <2>1, <4>2, Zenon DEF Records
      <3>3. CASE i \in 1..Len(locations)
        <4>1. mid[i].verified => locations[i].verified
          BY <1>5, <3>3, Zenon DEF Records
        <4>2. locations[i].uri = Original
          BY <1>5, <2>1, <3>2, <3>3, Zenon DEF Records
        <4>3. ~locations[i].verified
          BY <3>3, <4>2, Zenon DEF MigrationInv, OriginalOnRecord, Ids
        <4> QED
          BY <3>1, <3>2, <4>1, <4>3, Zenon
      <3>4. CASE i \notin 1..Len(locations)
        <4>1. ~mid[i].verified
          BY <1>5, <1>10, <3>2, <3>4 DEF Records
        <4> QED
          BY <3>1, <3>2, <4>1, Zenon
      <3> QED
        BY <3>3, <3>4, Zenon
    <2>2. \E j \in Ids' : locations'[j].uri = Original
      <3>1. CASE s = Original
        <4>1. PICK j \in 1..Len(mid) : mid[j].uri = Original
          BY <1>5, <3>1, Zenon DEF Records
        <4>2. j \in 1..Len(locations') /\ locations'[j].uri = Original
          BY <1>7, <1>10, <4>1 DEF Records
        <4> QED
          BY <4>2, Zenon DEF Ids
      <3>2. CASE s # Original
        <4>1. \E i \in Ids : locations[i].uri = Original
          BY <1>1, <3>2, Zenon DEF MigrationInv, CopiesGrounded, OriginalOnRecord
        <4> QED
          BY <1>0, <1>9, <1>15, <4>1, OnRecord, Zenon
      <3> QED
        BY <3>1, <3>2, Zenon
    <2> QED
      BY <2>1, <2>2, Zenon DEF OriginalOnRecord
  <1>17. CopiesGrounded' /\ FaultsCounted'
    <2>1. s = Original \/ Relied(s)
      BY <1>1, Zenon DEF MigrationInv, CopiesGrounded, Relied
    <2>2. Relied(t)
      BY <1>1, <1>3, Zenon DEF Relied
    <2>3. \A i \in Ids : Relied(locations[i].uri)
      BY Zenon DEF Relied
    <2>4. \A i \in Ids' : locations'[i].uri = Original \/ Relied(locations'[i].uri)
      BY <1>11, <1>12, <2>1, <2>2, <2>3, Zenon
    <2> QED
      BY <1>3, <1>8, <1>9, <1>15, <2>4, RowsGrow, Zenon
  <1> QED
    BY <1>9, <1>13, <1>14, <1>15, <1>16, <1>17, Zenon DEF MigrationInv

(* A row that is only marked as retained is no more verified than before, and
   no row is added beside it.                                              *)
LEMMA RetainVerifiesNothing ==
    ASSUME NEW rows \in Seq(Rows), NEW uri \in URIs,
           \E i \in 1..Len(rows) : rows[i].role = "migration_source" /\ rows[i].uri = uri
    PROVE  /\ Len(Retain(rows, uri)) = Len(rows)
           /\ \A i \in 1..Len(rows) : Retain(rows, uri)[i].verified => rows[i].verified
  <1> DEFINE same == {i \in 1..Len(rows) :
                        rows[i].role = "migration_source" /\ rows[i].uri = uri}
             changed(i) == [rows[i] EXCEPT !.status = "retained"]
             new == [i \in 1..Len(rows) |-> IF i \in same THEN changed(i) ELSE rows[i]]
  <1>1. Retain(rows, uri) = new
    BY Zenon DEF Retain
  <1>2. ASSUME NEW i \in 1..Len(rows)
        PROVE  /\ rows[i] \in Rows /\ changed(i) \in Rows
               /\ changed(i).verified => rows[i].verified
    <2>1. rows[i] \in Rows
      BY SequenceMember, Zenon
    <2> QED
      BY <2>1, Zenon DEF Rows, Statuses
  <1> HIDE DEF changed
  <1>3. Len(rows) \in Nat /\ new \in [1..Len(rows) -> Rows]
    BY <1>2, SequenceShape, Zenon
  <1>4. \A i \in 1..Len(rows) : new[i].verified => rows[i].verified
    BY <1>2, Zenon
  <1> HIDE DEF new
  <1>5. Len(new) = Len(rows)
    BY <1>3, SequenceOfLength, Zenon
  <1> QED
    BY <1>1, <1>4, <1>5, Zenon

(* The promotion makes t the only primary row and leaves URIs alone. *)
LEMMA PromotedRows ==
    ASSUME TypeOK, NEW t \in Ids
    PROVE  /\ Promoted(t) \in Seq(Rows)
           /\ Len(Promoted(t)) = Len(locations)
           /\ Promoted(t)[t].role = "primary"
           /\ Promoted(t)[t].status = "observing"
           /\ \A i \in Ids :
                /\ Promoted(t)[i].uri = locations[i].uri
                /\ Promoted(t)[i].verified <=> locations[i].verified
                /\ i # t => /\ Promoted(t)[i].role # "primary"
                            /\ locations[i].role \in {"primary", "migration_source"} =>
                                 Promoted(t)[i].role = "migration_source"
  <1> DEFINE first == [locations[t] EXCEPT !.role = "primary", !.status = "observing"]
             other(i) == [locations[i] EXCEPT
                            !.role = IF locations[i].role = "primary"
                                     THEN "migration_source" ELSE locations[i].role,
                            !.status = "retained"]
             new == [i \in Ids |-> IF i = t THEN first ELSE other(i)]
  <1>1. Promoted(t) = new
    BY Zenon DEF Promoted
  <1>2. /\ locations \in Seq(Rows)
        /\ Len(locations) \in Nat
    BY Types, SequenceShape, Zenon
  <1>3. \A i \in Ids : locations[i] \in Rows
    BY <1>2, SequenceMember, Zenon DEF Ids
  <1>4. /\ first \in Rows
        /\ first.role = "primary" /\ first.status = "observing"
        /\ first.uri = locations[t].uri /\ first.verified = locations[t].verified
    BY <1>3, Zenon DEF Rows, Roles, Statuses
  <1>5. ASSUME NEW i \in Ids
        PROVE  /\ other(i) \in Rows
               /\ other(i).uri = locations[i].uri /\ other(i).verified = locations[i].verified
               /\ other(i).role # "primary"
               /\ locations[i].role \in {"primary", "migration_source"} =>
                    other(i).role = "migration_source"
    <2>1. locations[i] \in Rows
      BY <1>3, Zenon
    <2>2. PICK role \in Roles :
            role = IF locations[i].role = "primary"
                   THEN "migration_source" ELSE locations[i].role
      BY <2>1, Zenon DEF Rows, Roles
    <2>3. other(i) = [locations[i] EXCEPT !.role = role, !.status = "retained"]
      BY <2>2, Zenon
    <2>4. other(i) \in Rows /\ other(i).role = role
      BY <2>1, <2>3, Zenon DEF Rows, Statuses
    <2>5. other(i).uri = locations[i].uri /\ other(i).verified = locations[i].verified
      BY <2>1, <2>3, Zenon DEF Rows
    <2> QED
      BY <2>2, <2>4, <2>5, Zenon
  <1> HIDE DEF first, other
  <1>6. new \in [Ids -> Rows]
    BY <1>4, <1>5, Zenon
  <1>7. new \in [1..Len(locations) -> Rows]
    BY <1>6, Zenon DEF Ids
  <1>8. new[t] = first /\ \A i \in Ids \ {t} : new[i] = other(i)
    BY Zenon
  <1> HIDE DEF new
  <1>9. new \in Seq(Rows) /\ Len(new) = Len(locations)
    BY <1>2, <1>7, SequenceOfLength, Zenon
  <1> QED
    BY SMTT(30), <1>1, <1>4, <1>5, <1>8, <1>9

(* After an activation the artifact points to the row promoted, the only
   primary one, and the place it was at is on record.                      *)
LEMMA ActivateInv ==
    ASSUME MigrationInv, NEW t \in Ids, ActivateArtifactLocation(t)
    PROVE  MigrationInv' /\ UrisKept
  <1>0. TypeOK
    BY Zenon DEF MigrationInv
  <1>1. PICK mid, old : mid = Promoted(t) /\ old = artifact.uri
    BY Zenon
  <1>2. /\ mid \in Seq(Rows)
        /\ Len(mid) = Len(locations)
        /\ mid[t].role = "primary"
        /\ mid[t].status = "observing"
        /\ \A i \in Ids :
             /\ mid[i].uri = locations[i].uri
             /\ mid[i].verified <=> locations[i].verified
             /\ i # t => /\ mid[i].role # "primary"
                         /\ locations[i].role \in {"primary", "migration_source"} =>
                              mid[i].role = "migration_source"
    BY <1>0, <1>1, PromotedRows, Zenon
  <1>3. /\ activations < MaxActivations /\ activations' = activations + 1
        /\ locations[t].verified
        /\ locations' = Retain(mid, old)
        /\ artifact' = [uri |-> locations[t].uri, status |-> "observing"]
        /\ due' = FALSE
        /\ UNCHANGED <<store, copier, copies, faults>>
    BY <1>1, Zenon DEF ActivateArtifactLocation
  <1>4. old \in URIs /\ locations[t].uri \in URIs /\ locations \in Seq(Rows)
    <2>1. locations \in Seq(Rows)
      BY <1>0, Types, Zenon
    <2>2. locations[t] \in Rows
      BY <2>1, SequenceMember, Zenon DEF Ids
    <2> QED
      BY <1>0, <1>1, <2>1, <2>2, Zenon DEF TypeOK, Rows
  <1>5. Records(mid, locations', "migration_source", old, TRUE)
    BY <1>2, <1>3, <1>4, RetainRecords, Zenon
  <1>6. TypeOK'
    <2>1. locations' \in Seq(Rows)
      BY <1>5, Zenon DEF Records
    <2>2. artifact' \in [uri : URIs, status : {"none", "observing", "stable"}]
      BY <1>3, <1>4, Zenon
    <2>3. activations' \in 0..MaxActivations
      BY <1>0, <1>3, ArtifactMigrationAssumption DEF TypeOK
    <2> QED
      BY <1>0, <1>3, <2>1, <2>2, <2>3, Zenon DEF TypeOK, Rows, Statuses
  <1>7. /\ Len(locations) \in Nat /\ Len(locations') \in Nat
        /\ Len(locations) <= Len(locations')
    BY <1>0, <1>2, <1>5, <1>6, SequenceShape, Zenon DEF Records, TypeOK
  <1>8. ASSUME NEW i \in Ids
        PROVE  /\ i \in Ids' /\ i \in 1..Len(mid)
               /\ locations'[i].uri = locations[i].uri
               /\ locations'[i].role = mid[i].role
    <2>1. i \in 1..Len(mid) /\ i \in 1..Len(locations')
      BY <1>2, <1>7 DEF Ids
    <2> QED
      BY <1>2, <1>5, <2>1, Zenon DEF Records, Ids
  <1>9. ASSUME NEW i \in Ids'
        PROVE  \/ i \in Ids
               \/ locations'[i].role = "migration_source" /\ locations'[i].uri = old
    <2>1. i \in 1..Len(locations')
      BY Zenon DEF Ids
    <2> QED
      BY <1>2, <1>5, <1>7, <2>1 DEF Records, Ids
  <1>10. UrisKept
    BY <1>7, <1>8, Zenon DEF UrisKept
  <1>11. Unique(locations)'
    <2>1. \A i, j \in Ids : ~(i < j /\ SameRow(mid[i], mid[j]))
      BY <1>1, Zenon DEF ActivateArtifactLocation, Refused
    <2>2. Unique(mid)
      <3> SUFFICES ASSUME NEW i \in 1..Len(mid), NEW j \in 1..Len(mid),
                          SameRow(mid[i], mid[j])
                   PROVE  i = j
        BY Zenon DEF Unique
      <3>1. i \in Ids /\ j \in Ids /\ SameRow(mid[j], mid[i])
        BY <1>2, Zenon DEF Ids, SameRow
      <3>2. ~(i < j) /\ ~(j < i)
        BY <2>1, <3>1, Zenon
      <3> QED
        BY <1>2, <1>7, <3>2
    <2> QED
      BY <1>5, <2>2, Zenon DEF Records, Unique
  <1>12. PointsToPrimary'
    <2>1. artifact'.status = "observing" /\ artifact'.uri = locations[t].uri
      BY <1>3, Zenon
    <2>2. t \in Ids' /\ locations'[t] = mid[t]
      BY <1>2, <1>5, <1>8, Zenon DEF Records
    <2>3. \A i \in Ids' : locations'[i].role = "primary" => i = t
      BY <1>2, <1>8, <1>9, Zenon
    <2> QED
      BY SMTT(30), <1>2, <1>3, <2>1, <2>2, <2>3 DEF PointsToPrimary
  <1>13. locations[t].uri # Original
    BY <1>3, Zenon DEF MigrationInv, OriginalOnRecord
  <1>14. OriginalOnRecord'
    <2>1. \E j \in Ids' : locations'[j].uri = Original
      <3>1. \E j \in Ids : locations[j].uri = Original
        BY Zenon DEF MigrationInv, OriginalOnRecord
      <3> QED
        BY <1>0, <1>6, <1>10, <3>1, OnRecord, Zenon
    <2>2. ASSUME NEW i \in Ids, locations[i].uri = Original
          PROVE  mid[i].role = "migration_source" /\ mid[i].uri = Original /\ ~mid[i].verified
      BY <1>2, <1>13, <2>2, Zenon DEF MigrationInv, OriginalOnRecord
    <2>3. ASSUME NEW i \in Ids', locations'[i].uri = Original
          PROVE  locations'[i].role = "migration_source" /\ ~locations'[i].verified
      <3>1. CASE old # Original
        <4>1. i \in Ids
          BY <1>9, <2>3, <3>1, Zenon
        <4>2. locations'[i] = mid[i]
          BY SMTT(30), <1>2, <1>5, <1>8, <2>3, <3>1, <4>1 DEF Records
        <4> QED
          BY <1>8, <2>2, <2>3, <4>1, <4>2, Zenon
      <3>2. CASE old = Original
        <4>1. PICK j \in Ids : locations[j].uri = Original
          BY Zenon DEF MigrationInv, OriginalOnRecord
        <4>2. \E k \in 1..Len(mid) : mid[k].role = "migration_source" /\ mid[k].uri = old
          BY <1>8, <2>2, <3>2, <4>1, Zenon
        <4>3. /\ Len(locations') = Len(mid)
              /\ \A k \in 1..Len(mid) : locations'[k].verified => mid[k].verified
          BY <1>2, <1>3, <1>4, <4>2, RetainVerifiesNothing, Zenon
        <4>4. i \in Ids /\ i \in 1..Len(mid)
          BY <1>2, <4>3, Zenon DEF Ids
        <4> QED
          BY <1>8, <2>2, <2>3, <4>3, <4>4, Zenon
      <3> QED
        BY <3>1, <3>2, Zenon
    <2> QED
      BY <2>1, <2>3, Zenon DEF OriginalOnRecord
  <1>15. CopiesGrounded' /\ FaultsCounted'
    <2>1. \A i \in Ids : Relied(locations[i].uri)
      BY Zenon DEF Relied
    <2>2. old = Original \/ Relied(old)
      BY <1>1, <2>1, Zenon DEF MigrationInv, PointsToPrimary
    <2>3. \A i \in Ids' : locations'[i].uri = Original \/ Relied(locations'[i].uri)
      BY <1>8, <1>9, <2>1, <2>2, Zenon
    <2> QED
      BY <1>3, <1>6, <1>10, <2>3, RowsGrow, Zenon
  <1> QED
    BY <1>6, <1>10, <1>11, <1>12, <1>14, <1>15, Zenon DEF MigrationInv

(* The completion marks the primary row and the artifact as stable. *)
LEMMA CompleteInv ==
    ASSUME MigrationInv, CompleteArtifactObservation
    PROVE  MigrationInv' /\ UrisKept
  <1>0. TypeOK
    BY Zenon DEF MigrationInv
  <1> DEFINE primary == {i \in Ids : locations[i].role = "primary" /\ locations[i].verified}
             marked(i) == [locations[i] EXCEPT !.status = "stable"]
             new == [i \in Ids |-> IF i \in primary THEN marked(i) ELSE locations[i]]
  <1>1. /\ artifact.status = "observing"
        /\ locations' = new
        /\ artifact' = [artifact EXCEPT !.status = "stable"]
        /\ UNCHANGED <<store, due, copier, copies, activations, faults>>
    BY Zenon DEF CompleteArtifactObservation
  <1>2. locations \in Seq(Rows) /\ Len(locations) \in Nat
    BY <1>0, Types, SequenceShape, Zenon
  <1>3. ASSUME NEW i \in Ids
        PROVE  /\ locations[i] \in Rows /\ marked(i) \in Rows
               /\ marked(i).role = locations[i].role
               /\ marked(i).uri = locations[i].uri
               /\ marked(i).verified = locations[i].verified
               /\ marked(i).status = "stable"
    <2>1. locations[i] \in Rows
      BY <1>2, SequenceMember, Zenon DEF Ids
    <2> QED
      BY <2>1, Zenon DEF Rows, Statuses
  <1> HIDE DEF marked
  <1>4. /\ new \in [Ids -> Rows]
        /\ \A i \in Ids : new[i] = IF i \in primary THEN marked(i) ELSE locations[i]
    BY <1>3, Zenon
  <1> HIDE DEF new
  <1>5. new \in Seq(Rows) /\ Len(new) = Len(locations)
    BY <1>2, <1>4, SequenceOfLength, Zenon DEF Ids
  <1>6. Ids' = Ids /\ Len(locations') = Len(locations)
    BY <1>1, <1>5, Zenon DEF Ids
  <1>7. \A i \in Ids :
          /\ locations'[i].role = locations[i].role
          /\ locations'[i].uri = locations[i].uri
          /\ locations'[i].verified = locations[i].verified
    BY <1>1, <1>3, <1>4, Zenon
  <1>8. artifact'.uri = artifact.uri /\ artifact'.status = "stable"
    BY <1>0, <1>1, Zenon DEF TypeOK
  <1>9. TypeOK'
    <2>1. artifact' \in [uri : URIs, status : {"none", "observing", "stable"}]
      BY <1>0, <1>1, Zenon DEF TypeOK
    <2> QED
      BY <1>0, <1>1, <1>5, <2>1, Zenon DEF TypeOK, Rows, Statuses
  <1>10. UrisKept
    BY <1>2, <1>6, <1>7 DEF UrisKept
  <1>11. Unique(locations)'
    BY <1>6, <1>7, Zenon DEF MigrationInv, Unique, SameRow, Ids
  <1>12. PointsToPrimary'
    <2>1. PICK p \in Ids :
            /\ locations[p].role = "primary"
            /\ locations[p].uri = artifact.uri
            /\ locations[p].verified
            /\ \A i \in Ids : locations[i].role = "primary" => i = p
      BY <1>1, Zenon DEF MigrationInv, PointsToPrimary
    <2>2. locations'[p].status = "stable"
      BY <1>1, <1>3, <1>4, <2>1, Zenon
    <2> QED
      BY <1>6, <1>7, <1>8, <2>1, <2>2 DEF PointsToPrimary
  <1>13. OriginalOnRecord'
    BY <1>6, <1>7, Zenon DEF MigrationInv, OriginalOnRecord
  <1>14. CopiesGrounded' /\ FaultsCounted'
    <2>1. \A i \in Ids' : Relied(locations'[i].uri)
      BY <1>6, <1>7, Zenon DEF Relied
    <2> QED
      BY <1>1, <1>9, <1>10, <2>1, RowsGrow, Zenon
  <1> QED
    BY <1>9, <1>10, <1>11, <1>12, <1>13, <1>14, Zenon DEF MigrationInv

-----------------------------------------------------------------------------
LEMMA InitInv == Init => MigrationInv
  <1> SUFFICES ASSUME Init PROVE MigrationInv
    BY Zenon
  <1>1. locations = <<>> /\ Len(locations) = 0 /\ Ids = {}
    BY DEF Init, Ids
  <1>2. \A c \in Copiers : copier[c] = Idle
    BY Zenon DEF Init
  <1>3. TypeOK
    <2>1. copier \in [Copiers -> Copies]
      BY IdleCopy, Zenon DEF Init
    <2>2. locations \in Seq(Rows)
      BY <1>1
    <2>3. store \in [URIs -> {"absent", "intact", "torn"}]
      BY Zenon DEF Init
    <2>4. artifact \in [uri : URIs, status : {"none", "observing", "stable"}]
      BY Zenon DEF Init, URIs
    <2>5. copies \in 0..MaxCopies /\ activations \in 0..MaxActivations /\ faults \in 0..MaxFaults
      BY ArtifactMigrationAssumption DEF Init
    <2> QED
      BY <2>1, <2>2, <2>3, <2>4, <2>5, Types, Zenon DEF Init
  <1>4. Unique(locations)
    BY <1>1 DEF Unique
  <1>5. PointsToPrimary /\ OriginalOnRecord
    BY <1>1, Zenon DEF Init, PointsToPrimary, OriginalOnRecord
  <1>6. CopiesGrounded
    BY <1>2, IdleCopy, Zenon DEF CopiesGrounded
  <1>7. FaultsCounted
    <2>1. ~Spoilt(Original)
      BY Zenon DEF Init, Spoilt, URIs
    <2>2. \A u \in Targets : ~Relied(u)
      BY <1>1, <1>2, IdleCopy, Zenon DEF Relied
    <2> QED
      BY <2>1, <2>2, Zenon DEF FaultsCounted, Settled
  <1> QED
    BY <1>3, <1>4, <1>5, <1>6, <1>7, Zenon DEF MigrationInv

(* One step per action. *)
LEMMA NextInv == MigrationInv /\ [Next]_vars => MigrationInv'
  <1> SUFFICES ASSUME MigrationInv, [Next]_vars PROVE MigrationInv'
    BY Zenon
  <1>1. CASE \E c \in Copiers, t \in Targets : CopyRead(c, t)
    BY <1>1, CopyReadInv, Zenon
  <1>2. CASE \E c \in Copiers : CopyWrite(c)
    BY <1>2, CopyWriteInv, Zenon
  <1>3. CASE \E c \in Copiers : CopyVerify(c)
    BY <1>3, CopyVerifyInv, Zenon
  <1>4. CASE \E c \in Copiers : CopyCommit(c)
    BY <1>4, CopyCommitInv, Zenon
  <1>5. CASE \E c \in Copiers : Crash(c)
    BY <1>5, CrashInv, Zenon
  <1>6. CASE \E t \in Ids : ActivateArtifactLocation(t)
    BY <1>6, ActivateInv, Zenon
  <1>7. CASE PassDeadline \/ UNCHANGED vars
    BY <1>7, PassDeadlineInv, Zenon
  <1>8. CASE CompleteArtifactObservation
    BY <1>8, CompleteInv, Zenon
  <1>9. CASE \E u \in URIs : LoseContent(u)
    BY <1>9, LoseContentInv, Zenon
  <1> QED
    BY <1>1, <1>2, <1>3, <1>4, <1>5, <1>6, <1>7, <1>8, <1>9, Zenon DEF Next

(* The invariant holds whatever copies, activations, completions, losses and
   crashes come in which order.                                            *)
THEOREM MigrationInvariance == Spec => []MigrationInv
  BY InitInv, NextInv, PTL DEF Spec

-----------------------------------------------------------------------------
(* The counts of finite sets are needed from here on. *)
INSTANCE FiniteSetTheorems

(* Once activated there is one primary row, and it tells what the artifact
   tells; before, there is none.                                           *)
LEMMA PrimaryIsOne ==
    ASSUME MigrationInv
    PROVE  OnePrimary
  <1> DEFINE primary == {i \in Ids : locations[i].role = "primary"}
  <1>1. CASE artifact.status = "none"
    BY <1>1, Zenon DEF MigrationInv, PointsToPrimary, OnePrimary
  <1>2. CASE artifact.status # "none"
    <2>1. PICK p \in Ids :
            /\ locations[p].role = "primary"
            /\ locations[p].uri = artifact.uri
            /\ locations[p].verified
            /\ locations[p].status = artifact.status
            /\ \A i \in Ids : locations[i].role = "primary" => i = p
      BY <1>2, Zenon DEF MigrationInv, PointsToPrimary
    <2>2. primary = {p}
      BY <2>1, Zenon
    <2>3. Cardinality(primary) = 1
      BY <2>2, FS_Singleton, Zenon
    <2>4. locations[p] \in Rows
      BY Types, SequenceMember, Zenon DEF MigrationInv, Ids
    <2>5. locations[p].verified = TRUE
      BY <2>1, <2>4, Zenon DEF Rows
    <2>6. locations[p] = [role |-> "primary", uri |-> artifact.uri, verified |-> TRUE,
                          status |-> artifact.status]
      BY <2>1, <2>4, <2>5, Zenon DEF Rows
    <2> QED
      BY <1>2, <2>2, <2>3, <2>6, Zenon DEF OnePrimary
  <1> QED
    BY <1>1, <1>2, Zenon

(* So the inventory finds that row and no other. *)
LEMMA InventoryFollows ==
    ASSUME MigrationInv
    PROVE  InventoryIsRight
  <1> SUFFICES ASSUME NEW b \in {"local", "s3"}
               PROVE  IF artifact.status # "none" /\ BackendOf[artifact.uri] = b
                      THEN artifactMigrationStatus(b) = artifact.status
                      ELSE artifactMigrationStatus(b) \in {"pending", "verified"}
    BY Zenon DEF InventoryIsRight
  <1> DEFINE there == {i \in Ids : BackendOf[locations[i].uri] = b}
             primary == {i \in there : locations[i].role = "primary"}
             any == CHOOSE i \in primary : TRUE
  <1>1. CASE primary = {}
    <2>1. artifactMigrationStatus(b) \in {"pending", "verified"}
      BY <1>1, Zenon DEF artifactMigrationStatus
    <2>2. ~(artifact.status # "none" /\ BackendOf[artifact.uri] = b)
      BY <1>1, Zenon DEF MigrationInv, PointsToPrimary
    <2> QED
      BY <2>1, <2>2, Zenon
  <1>2. CASE primary # {}
    <2>1. any \in primary
      BY <1>2, Zenon
    <2>2. artifact.status # "none"
      BY <1>2, Zenon DEF MigrationInv, PointsToPrimary
    <2>3. /\ locations[any].uri = artifact.uri
          /\ locations[any].status = artifact.status
      BY <2>1, <2>2, Zenon DEF MigrationInv, PointsToPrimary
    <2>4. BackendOf[artifact.uri] = b
      BY <2>1, <2>3, Zenon
    <2>5. artifact.status \in {"observing", "stable"}
      BY <2>2, Zenon DEF MigrationInv, TypeOK
    <2>6. artifactMigrationStatus(b) = artifact.status
      <3>1. artifactMigrationStatus(b) =
              IF locations[any].status \in {"observing", "stable"}
              THEN locations[any].status ELSE "activated"
        BY <1>2, Zenon DEF artifactMigrationStatus
      <3> QED
        BY <2>3, <2>5, <3>1, Zenon
    <2> QED
      BY <2>2, <2>4, <2>6, Zenon
  <1> QED
    BY <1>1, <1>2, Zenon

(* However copies that read the artifact before an activation end after it,
   the artifact, its locations and the inventory agree, for any number of
   copiers and backends: CompleteArtifactObservation always finds exactly one
   primary row.                                                            *)
THEOREM LocationsAlwaysAgree == Spec => []LocationsAgree
  <1>1. MigrationInv => LocationsAgree
    BY PrimaryIsOne, InventoryFollows, Zenon DEF LocationsAgree
  <1> QED
    BY MigrationInvariance, <1>1, PTL

(* The number of copies that overwrite the primary location is finite. *)
LEMMA InPlaceFinite ==
    /\ IsFiniteSet(InPlace)
    /\ Cardinality(InPlace) \in Nat
    /\ Cardinality(InPlace) = 0 <=> InPlace = {}
  <1>1. IsFiniteSet(InPlace)
    BY FS_Subset, ArtifactMigrationAssumption, Zenon DEF InPlace
  <1> QED
    BY <1>1, FS_CardinalityType, FS_EmptySet, Zenon

(* With no more trouble than the status allows, a read finds the content:
   where the artifact points, or, during the observation, where it was
   created.                                                                *)
LEMMA ReadsFindContent ==
    ASSUME MigrationInv
    PROVE  ReadableThroughout
  <1> SUFFICES ASSUME faults + Cardinality(InPlace) <=
                        (IF artifact.status = "observing" THEN 1 ELSE 0)
               PROVE  GetArtifactContent
    BY Zenon DEF ReadableThroughout
  <1>0. faults \in Nat /\ Cardinality(InPlace) \in Nat
    BY InPlaceFinite DEF MigrationInv, TypeOK
  <1>1. InPlace = {} <=> ~Writing(artifact.uri)
    BY Zenon DEF InPlace, Writing
  <1>2. artifact.uri \in URIs
    BY Zenon DEF MigrationInv, TypeOK
  <1>3. artifact.status # "none" =>
          /\ Relied(artifact.uri)
          /\ artifact.uri # Original
          /\ \E j \in Ids : locations[j].uri = Original
    <2> SUFFICES ASSUME artifact.status # "none"
                 PROVE  /\ Relied(artifact.uri)
                        /\ artifact.uri # Original
                        /\ \E j \in Ids : locations[j].uri = Original
      BY Zenon
    <2>1. PICK p \in Ids :
            locations[p].role = "primary" /\ locations[p].uri = artifact.uri
      BY Zenon DEF MigrationInv, PointsToPrimary
    <2>2. artifact.uri # Original
      BY <2>1, Zenon DEF MigrationInv, OriginalOnRecord
    <2>3. \E j \in Ids : locations[j].uri = Original
      BY <2>1, Zenon DEF MigrationInv, OriginalOnRecord
    <2> QED
      BY <2>1, <2>2, <2>3, Zenon DEF Relied
  <1>4. CASE artifact.status # "observing"
    <2>1. faults = 0 /\ Cardinality(InPlace) = 0
      BY <1>0, <1>4
    <2>2. ~Writing(artifact.uri)
      BY <1>1, <2>1, InPlaceFinite, Zenon
    <2>3. ~Spoilt(artifact.uri)
      <3>1. CASE artifact.uri = Original
        BY <2>1, <3>1 DEF MigrationInv, FaultsCounted
      <3>2. CASE artifact.uri # Original
        <4>1. artifact.uri \in Targets /\ Settled(artifact.uri)
          BY <1>2, <1>3, <2>2, <3>2, Zenon DEF URIs, Settled, MigrationInv, PointsToPrimary
        <4> QED
          BY <2>1, <4>1 DEF MigrationInv, FaultsCounted
      <3> QED
        BY <3>1, <3>2, Zenon
    <2> QED
      BY <2>3, Zenon DEF Spoilt, GetArtifactContent
  <1>5. CASE artifact.status = "observing"
    <2>1. faults <= 1 /\ (InPlace # {} => faults = 0)
      BY <1>0, <1>5, InPlaceFinite
    <2>2. artifact.uri \in Targets /\ artifact.uri # Original
      BY <1>2, <1>3, <1>5, Zenon DEF URIs
    <2>3. CASE ~Spoilt(artifact.uri)
      BY <2>3, Zenon DEF Spoilt, GetArtifactContent
    <2>4. CASE Spoilt(artifact.uri)
      <3>1. ~Spoilt(Original)
        <4>1. CASE InPlace # {}
          BY <2>1, <4>1 DEF MigrationInv, FaultsCounted
        <4>2. CASE InPlace = {}
          <5>1. Settled(artifact.uri)
            BY <1>1, <1>3, <1>5, <4>2, Zenon DEF Settled
          <5>2. ~(faults >= 2)
            BY <1>0, <2>1
          <5> QED
            BY <2>2, <2>4, <5>1, <5>2, Zenon DEF MigrationInv, FaultsCounted
        <4> QED
          BY <4>1, <4>2, Zenon
      <3>2. PICK j \in Ids : locations[j].uri = Original
        BY <1>3, <1>5, Zenon
      <3> QED
        BY <1>5, <2>2, <3>1, <3>2, Zenon DEF Spoilt, GetArtifactContent
    <2> QED
      BY <2>3, <2>4, Zenon
  <1> QED
    BY <1>4, <1>5, Zenon

(* The content can be read throughout: without faults as long as nobody is
   overwriting the primary location in place, and during the observation with
   one fault or one such overwriting.                                      *)
THEOREM ContentStaysReadable == Spec => []ReadableThroughout
  BY MigrationInvariance, ReadsFindContent, PTL

(* No copy, activation or completion forgets a place: rows of
   artifact_locations are only added and keep their URI.                   *)
THEOREM PlacesRemembered == Spec => [][UrisKept]_vars
  <1>1. ASSUME MigrationInv, [Next]_vars PROVE UrisKept
    <2>0. TypeOK /\ Len(locations) \in Nat /\ locations \in Seq(Rows)
      BY <1>1, Types, SequenceShape, Zenon DEF MigrationInv
    <2>1. CASE locations' = locations
      BY <2>0, <2>1 DEF UrisKept
    <2>2. ASSUME NEW c \in Copiers, CopyCommit(c) PROVE UrisKept
      BY <1>1, <2>2, CopyCommitInv, Zenon
    <2>3. ASSUME NEW t \in Ids, ActivateArtifactLocation(t) PROVE UrisKept
      BY <1>1, <2>3, ActivateInv, Zenon
    <2>4. CASE CompleteArtifactObservation
      BY <1>1, <2>4, CompleteInv, Zenon
    <2> QED
      BY <1>1, <2>1, <2>2, <2>3, <2>4, Zenon DEF Next, CopyRead, CopyWrite, CopyVerify, Crash,
         PassDeadline, LoseContent, vars
  <1> QED
    BY MigrationInvariance, <1>1, PTL DEF Spec

=============================================================================
