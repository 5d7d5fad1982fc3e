----------------------- MODULE SchemaMigrationsProofs -----------------------
(***************************************************************************)
(* The schema is accounted for, and 000012 is one decision and at most one *)
(* approved apply, for any number of processes and builds.                 *)
(***************************************************************************)
EXTENDS SchemaMigrations, TLAPS

(* The checksum columns are there and every row that is not 000012's has its
   hash: what the first migration after 000013 finds, and what stays.      *)
Sealed ==
    /\ isApplied("checksums")
    /\ \A m \in Migrations \ {"exceptions"} : applied[m] # NoHash

ProcStates ==
    [pc : {"idle", "examine", "check", "apply", "commit", "record"},
     build : Builds, op : {"up", "one"}, at : 1..Len(Order),
     mine : SUBSET Migrations, columns : BOOLEAN]

(* A command r is where its build has a migration, and what Up went past is
   applied.                                                                *)
InOrder(r) ==
    r.pc # "idle" =>
        /\ Order[r.at] \in DOMAIN HashOf[r.build]
        /\ r.op = "one" => r.at = 3
        /\ r.op = "up" =>
             \A i \in 1..5 : i < r.at /\ Order[i] # "exceptions" => isApplied(Order[i])
        /\ r.pc = "record" => Order[r.at] = "checksums" /\ isApplied("checksums")

(* Past its check it found what the check is for: it was approved, or every
   row has its hash; and that cannot be taken back.                        *)
CheckStands(r) ==
    /\ r.pc \in {"apply", "commit"} /\ Order[r.at] = "exceptions" =>
         HashOf[r.build]["exceptions"] \in approved
    /\ r.pc \in {"apply", "commit"} /\ Order[r.at] = "later" => Sealed
    /\ r.pc = "commit" /\ Order[r.at] \in {"checksums", "later"} => r.columns

(* What it remembers to have applied, it has applied. *)
MineApplied(r) ==
    \A m \in r.mine :
        /\ m \in DOMAIN HashOf[r.build]
        /\ isApplied(m)
        /\ content[m] = HashOf[r.build][m]

Sound(r) == InOrder(r) /\ CheckStands(r) /\ MineApplied(r)

(* A hash on record that nobody attested is that of the content applied. *)
HashesTrue ==
    \A m \in Migrations \ attested :
        applied[m] \notin {Absent, NoHash} => applied[m] = content[m]

(* The decision row says approved only of an approved content, and there is
   one as soon as something was approved.                                  *)
DecisionSound ==
    /\ approved \subseteq {HashOf[b]["exceptions"] : b \in Builds}
    /\ approved # {} => isApplied("ledger") /\ approval.status # "none"
    /\ approval.status = "approved" => approval.hash \in approved

(* The inductive invariant. *)
SchemaInv ==
    /\ TypeOK
    /\ \A p \in Procs : Sound(proc[p])
    /\ HashesTrue
    /\ DecisionSound
    /\ ExceptionsWereApproved
    /\ AppliedInOrder
    /\ isApplied("later") => Sealed

-----------------------------------------------------------------------------
(* The five migrations in their order. *)
LEMMA OrderFacts ==
    /\ Len(Order) = 5
    /\ Order[1] = "core" /\ Order[2] = "ledger" /\ Order[3] = "exceptions"
    /\ Order[4] = "checksums" /\ Order[5] = "later"
    /\ \A i \in 1..5 : Order[i] \in Migrations
    /\ 1..Len(Order) = 1..5
  <1>1. /\ Len(Order) = 5
        /\ Order[1] = "core" /\ Order[2] = "ledger" /\ Order[3] = "exceptions"
        /\ Order[4] = "checksums" /\ Order[5] = "later"
    BY Zenon DEF Order
  <1>2. ASSUME NEW i \in 1..5 PROVE Order[i] \in Migrations
    <2>1. i = 1 \/ i = 2 \/ i = 3 \/ i = 4 \/ i = 5
      OBVIOUS
    <2> QED
      BY <1>1, <2>1, Zenon DEF Migrations
  <1> QED
    BY <1>1, <1>2, Zenon

(* A build has the first migrations, at least up to 000012. *)
LEMMA BuildHas ==
    ASSUME NEW b \in Builds
    PROVE  /\ DOMAIN HashOf[b] \subseteq Migrations
           /\ Order[1] \in DOMAIN HashOf[b] /\ Order[3] \in DOMAIN HashOf[b]
           /\ "exceptions" \in DOMAIN HashOf[b]
           /\ \A i, j \in 1..5 : i < j /\ Order[j] \in DOMAIN HashOf[b]
                                => Order[i] \in DOMAIN HashOf[b]
           /\ \A m \in DOMAIN HashOf[b] :
                HashOf[b][m] \in Hashes /\ HashOf[b][m] \notin {Absent, NoHash}
  <1>1. PICK n \in 3..5 : DOMAIN HashOf[b] = {Order[i] : i \in 1..n}
    BY SchemaMigrationsAssumption, Zenon
  <1>2. DOMAIN HashOf[b] \subseteq Migrations
    BY <1>1, OrderFacts
  <1>3. \A i \in 1..n : Order[i] \in DOMAIN HashOf[b]
    BY <1>1, Zenon
  <1>4. ASSUME NEW i \in 1..5, NEW j \in 1..5, i < j, Order[j] \in DOMAIN HashOf[b]
        PROVE  Order[i] \in DOMAIN HashOf[b]
    <2>1. PICK k \in 1..n : Order[j] = Order[k]
      BY <1>1, <1>4, Zenon
    <2>2. j = k
      <3>1. \A x \in 1..5 : x = 1 \/ x = 2 \/ x = 3 \/ x = 4 \/ x = 5
        OBVIOUS
      <3> QED
        BY <2>1, <3>1, OrderFacts
    <2> QED
      BY <1>3, <1>4, <2>2
  <1>5. ASSUME NEW m \in DOMAIN HashOf[b]
        PROVE  HashOf[b][m] \in Hashes /\ HashOf[b][m] \notin {Absent, NoHash}
    <2>1. HashOf[b][m] \in Hashes
      BY <1>5 DEF Hashes
    <2> QED
      BY <2>1, SchemaMigrationsAssumption, Zenon
  <1>6. Order[1] \in DOMAIN HashOf[b] /\ Order[3] \in DOMAIN HashOf[b]
    BY <1>3
  <1> QED
    BY <1>2, <1>4, <1>5, <1>6, OrderFacts, Zenon

(* A process without a command. *)
LEMMA IdleSound ==
    /\ Idle \in ProcStates /\ Sound(Idle)
    /\ Idle.pc = "idle" /\ Idle.mine = {} /\ Idle.columns = FALSE
  <1>1. (CHOOSE b \in Builds : TRUE) \in Builds
    BY SchemaMigrationsAssumption, Zenon
  <1>2. Idle \in ProcStates /\ Idle.pc = "idle" /\ Idle.mine = {} /\ Idle.columns = FALSE
    BY <1>1, OrderFacts DEF Idle, ProcStates
  <1> QED
    BY <1>2, Zenon DEF Sound, InOrder, CheckStands, MineApplied

(* The loop of Up goes on to the migration after this one, or ends. *)
LEMMA NextIs ==
    ASSUME NEW p \in Procs, proc[p] \in ProcStates
    PROVE  \/ NextMigration(p) = Idle
           \/ /\ proc[p].op = "up"
              /\ proc[p].at + 1 \in 1..5
              /\ Order[proc[p].at + 1] \in DOMAIN HashOf[proc[p].build]
              /\ NextMigration(p) = [proc[p] EXCEPT !.pc = "examine", !.at = proc[p].at + 1]
  <1> DEFINE r == proc[p]
             later == {i \in (r.at + 1)..Len(Order) : Order[i] \in DOMAIN HashOf[r.build]}
             first == CHOOSE i \in later : \A j \in later : i <= j
  <1>1. r.at \in 1..5 /\ r.op \in {"up", "one"} /\ r.build \in Builds
    BY OrderFacts, Zenon DEF ProcStates
  <1>2. CASE r.op = "one" \/ later = {}
    BY <1>2, Zenon DEF NextMigration
  <1>3. CASE r.op = "up" /\ later # {}
    <2>1. NextMigration(p) = [r EXCEPT !.pc = "examine", !.at = first]
      BY <1>3, Zenon DEF NextMigration
    <2>2. PICK k \in later : TRUE
      BY <1>3, Zenon
    <2>3. k \in 1..5 /\ r.at + 1 <= k /\ Order[k] \in DOMAIN HashOf[r.build]
      BY <1>1, <2>2, OrderFacts
    <2>4. r.at + 1 \in 1..5 /\ Order[r.at + 1] \in DOMAIN HashOf[r.build]
      <3>1. r.at + 1 \in 1..5 /\ (r.at + 1 = k \/ r.at + 1 < k)
        BY <1>1, <2>3
      <3> QED
        BY <1>1, <2>3, <3>1, BuildHas, Zenon
    <2>5. r.at + 1 \in later /\ \A j \in later : r.at + 1 <= j
      BY <1>1, <2>4, OrderFacts
    <2>6. \A j \in later : j \in Nat
      BY <1>1, OrderFacts
    <2> HIDE DEF later
    <2>7. first \in later /\ \A j \in later : first <= j
      BY <2>5, Zenon
    <2>8. first = r.at + 1
      BY <1>1, <2>5, <2>6, <2>7
    <2> QED
      BY <1>3, <2>1, <2>4, <2>8, Zenon
  <1> QED
    BY <1>1, <1>2, <1>3, Zenon

(* A new database, and no process at work. *)
LEMMA SchemaInit == Init => SchemaInv
  <1> SUFFICES ASSUME Init PROVE SchemaInv
    BY Zenon
  <1>1. TypeOK
    BY IdleSound, SchemaMigrationsAssumption DEF Init, TypeOK, ProcStates
  <1>2. \A p \in Procs : Sound(proc[p])
    BY IdleSound, Zenon DEF Init
  <1>3. \A m \in Migrations : ~isApplied(m)
    BY Zenon DEF Init, isApplied
  <1>4. HashesTrue /\ DecisionSound
    BY Zenon DEF Init, HashesTrue, DecisionSound
  <1>5. AppliedInOrder
    BY <1>3, OrderFacts, Zenon DEF AppliedInOrder
  <1>6. ExceptionsWereApproved /\ (isApplied("later") => Sealed)
    BY <1>3, Zenon DEF ExceptionsWereApproved, Migrations
  <1> QED
    BY <1>1, <1>2, <1>4, <1>5, <1>6, Zenon DEF SchemaInv

(* What the tables never lose: an applied migration and its content, an
   approval given, and every row having its hash.                          *)
Grown ==
    /\ \A m \in Migrations : isApplied(m) => isApplied(m)' /\ content'[m] = content[m]
    /\ approved \subseteq approved'
    /\ Sealed => Sealed'

(* Whatever others do to the tables, a command stays sound. *)
LEMMA SoundKept ==
    ASSUME NEW r \in ProcStates, Sound(r), Grown
    PROVE  Sound(r)'
  <1>1. r.at \in 1..5 /\ r.build \in Builds /\ r.mine \subseteq Migrations
    BY OrderFacts, Zenon DEF ProcStates
  <1>2. InOrder(r)'
    BY <1>1, OrderFacts, Zenon DEF Sound, InOrder, Grown, Migrations
  <1>3. CheckStands(r)'
    BY Zenon DEF Sound, CheckStands, Grown
  <1>4. MineApplied(r)'
    BY <1>1, Zenon DEF Sound, MineApplied, Grown
  <1> QED
    BY <1>2, <1>3, <1>4, Zenon DEF Sound

(* A step of a command that leaves the tables alone. *)
LEMMA ProcMoves ==
    ASSUME SchemaInv, NEW p \in Procs, NEW r \in ProcStates, Sound(r), Set(p, r),
           UNCHANGED <<applied, approval, decisions, content, attested, approved>>,
           runs' \in 0..MaxRuns
    PROVE  SchemaInv'
  <1>1. Grown
    BY Zenon DEF Grown, isApplied, Sealed
  <1>2. proc' \in [Procs -> ProcStates] /\ proc'[p] = r
        /\ \A q \in Procs \ {p} : proc'[q] = proc[q] /\ proc[q] \in ProcStates
    BY Zenon DEF Set, SchemaInv, TypeOK, ProcStates
  <1>3. TypeOK'
    BY <1>2, Zenon DEF SchemaInv, TypeOK, ProcStates
  <1>4. ASSUME NEW q \in Procs PROVE Sound(proc[q])'
    <2>1. PICK s : s = proc'[q]
      BY Zenon
    <2>2. s \in ProcStates /\ Sound(s)
      BY <1>2, <2>1, Zenon DEF SchemaInv
    <2>3. Sound(s)'
      BY <1>1, <2>2, SoundKept, Zenon
    <2> QED
      BY <2>1, <2>3, Zenon
  <1>5. /\ HashesTrue' /\ DecisionSound' /\ ExceptionsWereApproved' /\ AppliedInOrder'
        /\ (isApplied("later") => Sealed)'
    BY Zenon DEF SchemaInv, HashesTrue, DecisionSound, ExceptionsWereApproved, AppliedInOrder,
           isApplied, Sealed
  <1> QED
    BY <1>3, <1>4, <1>5, Zenon DEF SchemaInv

(* A command begins at the first migration, or at 000012 alone. *)
LEMMA BeginInv ==
    ASSUME SchemaInv, NEW p \in Procs, NEW b \in Builds, Up(p, b) \/ ApplyApproved(p, b)
    PROVE  SchemaInv'
  <1>1. PICK op \in {"up", "one"}, at \in {1, 3} :
          Begin(p, b, op, at) /\ (op = "up" => at = 1) /\ (op = "one" => at = 3)
    BY Zenon DEF Up, ApplyApproved
  <1> DEFINE r == [Idle EXCEPT !.pc = "examine", !.build = b, !.op = op, !.at = at]
  <1>2. /\ r \in ProcStates /\ r.pc = "examine" /\ r.build = b /\ r.op = op /\ r.at = at
        /\ r.mine = {}
    <2>1. at \in 1..Len(Order) /\ op \in {"up", "one"}
      BY <1>1, OrderFacts
    <2> QED
      BY <2>1, IdleSound, Zenon DEF ProcStates
  <1>3. Set(p, r) /\ runs' \in 0..MaxRuns
        /\ UNCHANGED <<applied, approval, decisions, content, attested, approved>>
    BY <1>1, SchemaMigrationsAssumption DEF Up, ApplyApproved, Begin, SchemaInv, TypeOK
  <1> HIDE DEF r
  <1>4. Sound(r)
    BY <1>1, <1>2, BuildHas DEF Sound, InOrder, CheckStands, MineApplied
  <1> QED
    BY <1>2, <1>3, <1>4, ProcMoves, Zenon

(* What NextMigration makes of a sound command is sound, once this migration
   is applied or is 000012.                                                *)
LEMMA NextSound ==
    ASSUME SchemaInv, NEW p \in Procs, proc[p].pc # "idle",
           isApplied(At(p)) \/ At(p) = "exceptions"
    PROVE  NextMigration(p) \in ProcStates /\ Sound(NextMigration(p))
  <1>1. proc[p] \in ProcStates /\ Sound(proc[p])
    BY Zenon DEF SchemaInv, TypeOK, ProcStates
  <1>2. CASE NextMigration(p) = Idle
    BY <1>2, IdleSound, Zenon
  <1>3. CASE NextMigration(p) # Idle
    <2> DEFINE r == proc[p]
               q == [r EXCEPT !.pc = "examine", !.at = r.at + 1]
    <2>1. /\ r.op = "up" /\ r.at + 1 \in 1..5
          /\ Order[r.at + 1] \in DOMAIN HashOf[r.build]
          /\ NextMigration(p) = q
      BY <1>1, <1>3, NextIs, Zenon
    <2>2. /\ q \in ProcStates /\ q.pc = "examine" /\ q.at = r.at + 1 /\ q.op = r.op
          /\ q.build = r.build /\ q.mine = r.mine
      BY <1>1, <2>1, OrderFacts, Zenon DEF ProcStates
    <2> HIDE DEF q
    <2>3. InOrder(q)
      <3>1. r.at \in 1..5
        BY <1>1, OrderFacts, Zenon DEF ProcStates
      <3>2. ASSUME NEW i \in 1..5, i < q.at, Order[i] # "exceptions" PROVE isApplied(Order[i])
        <4>1. i < r.at \/ i = r.at
          BY <2>2, <3>1, <3>2
        <4> QED
          BY <1>1, <2>1, <3>2, <4>1, Zenon DEF Sound, InOrder, At
      <3> QED
        BY <2>1, <2>2, <3>2, Zenon DEF InOrder
    <2>4. CheckStands(q) /\ MineApplied(q)
      BY <1>1, <2>2, Zenon DEF Sound, CheckStands, MineApplied
    <2> QED
      BY <2>1, <2>2, <2>3, <2>4, Zenon DEF Sound
  <1> QED
    BY <1>2, <1>3, Zenon

(* The query of isApplied. *)
LEMMA ExamineInv ==
    ASSUME SchemaInv, NEW p \in Procs, Examine(p)
    PROVE  SchemaInv'
  <1>1. /\ proc[p].pc = "examine"
        /\ UNCHANGED <<applied, approval, decisions, content, attested, approved, runs>>
    BY Zenon DEF Examine
  <1>2. runs' \in 0..MaxRuns
    BY <1>1, Zenon DEF SchemaInv, TypeOK
  <1>3. CASE isApplied(At(p))
    <2>1. Set(p, NextMigration(p))
      BY <1>3, Zenon DEF Examine
    <2>2. NextMigration(p) \in ProcStates /\ Sound(NextMigration(p))
      BY <1>1, <1>3, NextSound, Zenon
    <2> QED
      BY <1>1, <1>2, <2>1, <2>2, ProcMoves, Zenon
  <1>4. CASE ~isApplied(At(p))
    <2> DEFINE q == [proc[p] EXCEPT !.pc = "check"]
    <2>1. proc[p] \in ProcStates /\ Sound(proc[p])
      BY Zenon DEF SchemaInv, TypeOK, ProcStates
    <2>2. Set(p, q)
      BY <1>4, Zenon DEF Examine, Goto
    <2>3. /\ q \in ProcStates /\ q.pc = "check" /\ q.at = proc[p].at /\ q.op = proc[p].op
          /\ q.build = proc[p].build /\ q.mine = proc[p].mine
      BY <2>1, Zenon DEF ProcStates
    <2> HIDE DEF q
    <2>4. Sound(q)
      BY <1>1, <2>1, <2>3, Zenon DEF Sound, InOrder, CheckStands, MineApplied
    <2> QED
      BY <1>1, <1>2, <2>2, <2>3, <2>4, ProcMoves, Zenon
  <1> QED
    BY <1>3, <1>4, Zenon

(* A command goes on to apply only what its check let through. *)
LEMMA CheckInv ==
    ASSUME SchemaInv, NEW p \in Procs, Check(p)
    PROVE  SchemaInv'
  <1> DEFINE b == proc[p].build
             q == [proc[p] EXCEPT !.pc = "apply"]
  <1>1. /\ proc[p].pc = "check"
        /\ UNCHANGED <<applied, approval, decisions, content, attested, approved, runs>>
    BY Zenon DEF Check
  <1>2. runs' \in 0..MaxRuns
    BY <1>1, Zenon DEF SchemaInv, TypeOK
  <1>3. proc[p] \in ProcStates /\ Sound(proc[p]) /\ b \in Builds
    BY Zenon DEF SchemaInv, TypeOK, ProcStates
  <1>4. /\ q \in ProcStates /\ q.pc = "apply" /\ q.at = proc[p].at /\ q.op = proc[p].op
        /\ q.build = proc[p].build /\ q.mine = proc[p].mine
    BY <1>3, Zenon DEF ProcStates
  <1>5. \/ Set(p, q) /\ (At(p) = "later" => requireVerifiedChecksums(b))
                    /\ (At(p) = "exceptions" => approvalAllowsMigration(b))
        \/ Set(p, Idle)
        \/ Set(p, NextMigration(p)) /\ At(p) = "exceptions"
    BY Zenon DEF Check, Goto
  <1>6. CASE Set(p, Idle)
    BY <1>1, <1>2, <1>6, IdleSound, ProcMoves, Zenon
  <1>7. CASE Set(p, NextMigration(p)) /\ At(p) = "exceptions"
    <2>1. NextMigration(p) \in ProcStates /\ Sound(NextMigration(p))
      BY <1>1, <1>7, NextSound, Zenon
    <2> QED
      BY <1>1, <1>2, <1>7, <2>1, ProcMoves, Zenon
  <1>8. CASE Set(p, q) /\ (At(p) = "later" => requireVerifiedChecksums(b))
                       /\ (At(p) = "exceptions" => approvalAllowsMigration(b))
    <2>1. At(p) = "later" => Sealed
      BY <1>8, Zenon DEF requireVerifiedChecksums, checksumColumnsExist, Sealed
    <2>2. At(p) = "exceptions" => HashOf[b]["exceptions"] \in approved
      BY <1>8 DEF approvalAllowsMigration, SchemaInv, DecisionSound
    <2> HIDE DEF q
    <2>3. Sound(q)
      BY <1>1, <1>3, <1>4, <2>1, <2>2 DEF Sound, InOrder, CheckStands, MineApplied, At
    <2> QED
      BY <1>1, <1>2, <1>4, <1>8, <2>3, ProcMoves, Zenon
  <1> QED
    BY <1>5, <1>6, <1>7, <1>8, Zenon

(* The SQL runs in the transaction; the row will have a hash if the columns
   are there, as they are for 000013 itself and for all that follow.       *)
LEMMA ApplySQLInv ==
    ASSUME SchemaInv, NEW p \in Procs, ApplySQL(p)
    PROVE  SchemaInv'
  <1> DEFINE columns == checksumColumnsExist \/ At(p) = "checksums"
             q == [proc[p] EXCEPT !.pc = "commit", !.columns = columns]
  <1>1. /\ proc[p].pc = "apply" /\ Set(p, q)
        /\ UNCHANGED <<applied, approval, decisions, content, attested, approved, runs>>
    BY Zenon DEF ApplySQL
  <1>2. runs' \in 0..MaxRuns
    BY <1>1, Zenon DEF SchemaInv, TypeOK
  <1>3. proc[p] \in ProcStates /\ Sound(proc[p])
    BY Zenon DEF SchemaInv, TypeOK, ProcStates
  <1>4. columns \in BOOLEAN
    BY Zenon DEF checksumColumnsExist, isApplied
  <1>5. /\ q \in ProcStates /\ q.pc = "commit" /\ q.at = proc[p].at /\ q.op = proc[p].op
        /\ q.build = proc[p].build /\ q.mine = proc[p].mine /\ q.columns = columns
    <2> HIDE DEF columns
    <2> QED
      BY <1>3, <1>4, Zenon DEF ProcStates
  <1>6. At(p) \in {"checksums", "later"} => columns
    BY <1>1, <1>3, Zenon DEF Sound, CheckStands, Sealed, checksumColumnsExist, At
  <1> HIDE DEF q, columns
  <1>7. Sound(q)
    <2>1. InOrder(q) /\ MineApplied(q)
      BY <1>1, <1>3, <1>5, Zenon DEF Sound, InOrder, MineApplied
    <2>2. Order[q.at] \in {"checksums", "later"} => q.columns
      BY <1>5, <1>6, Zenon DEF At
    <2>3. CheckStands(q)
      BY <1>1, <1>3, <1>5, <2>2, Zenon DEF Sound, CheckStands
    <2> QED
      BY <2>1, <2>3, Zenon DEF Sound
  <1> QED
    BY <1>1, <1>2, <1>5, <1>7, ProcMoves, Zenon

(* A crash forgets the command. *)
LEMMA CrashInv ==
    ASSUME SchemaInv, NEW p \in Procs, Crash(p)
    PROVE  SchemaInv'
  <1>1. /\ Set(p, Idle) /\ runs' \in 0..MaxRuns
        /\ UNCHANGED <<applied, approval, decisions, content, attested, approved>>
    BY Zenon DEF Crash, Goto, SchemaInv, TypeOK
  <1> QED
    BY <1>1, IdleSound, ProcMoves, Zenon

(* The tables grow while one command moves on: all commands stay sound. *)
LEMMA AllSound ==
    ASSUME SchemaInv, Grown, NEW p \in Procs, NEW r \in ProcStates, Set(p, r), Sound(r)'
    PROVE  /\ proc' \in [Procs -> ProcStates]
           /\ \A q \in Procs : Sound(proc[q])'
  <1>1. proc' \in [Procs -> ProcStates] /\ proc'[p] = r
        /\ \A q \in Procs \ {p} : proc'[q] = proc[q] /\ proc[q] \in ProcStates
    BY Zenon DEF Set, SchemaInv, TypeOK, ProcStates
  <1>2. ASSUME NEW q \in Procs PROVE Sound(proc[q])'
    <2>1. CASE q = p
      <3>1. PICK s : s = proc'[q]
        BY Zenon
      <3> QED
        BY <1>1, <2>1, <3>1, Zenon
    <2>2. CASE q # p
      <3>1. PICK s : s = proc[q] /\ s = proc'[q]
        BY <1>1, <2>2, Zenon
      <3>2. s \in ProcStates /\ Sound(s)
        BY <1>1, <2>2, <3>1, Zenon DEF SchemaInv
      <3>3. Sound(s)'
        BY <3>2, SoundKept, Zenon
      <3> QED
        BY <3>1, <3>3, Zenon
    <2> QED
      BY <2>1, <2>2, Zenon
  <1> QED
    BY <1>1, <1>2, Zenon

(* The same while no command moves. *)
LEMMA AllSoundStill ==
    ASSUME SchemaInv, Grown, UNCHANGED proc
    PROVE  \A q \in Procs : Sound(proc[q])'
  <1> TAKE q \in Procs
  <1>1. PICK s : s = proc[q] /\ s = proc'[q]
    BY Zenon
  <1>2. s \in ProcStates /\ Sound(s)
    BY <1>1 DEF SchemaInv, TypeOK, ProcStates
  <1>3. Sound(s)'
    BY <1>2, SoundKept, Zenon
  <1> QED
    BY <1>1, <1>3, Zenon

(* Rows may get the hash they lack: no more is or is not applied for that. *)
LEMMA Hashed ==
    ASSUME SchemaInv, UNCHANGED <<approval, content, approved>>,
           \A m \in Migrations :
             applied'[m] = applied[m] \/ (applied[m] = NoHash /\ applied'[m] \in Hashes)
    PROVE  /\ Grown
           /\ \A m \in Migrations : isApplied(m)' <=> isApplied(m)
           /\ DecisionSound' /\ ExceptionsWereApproved' /\ AppliedInOrder'
           /\ (isApplied("later") => Sealed)'
  <1>1. \A m \in Migrations : isApplied(m)' <=> isApplied(m)
    BY SchemaMigrationsAssumption, Zenon DEF isApplied
  <1>2. Sealed => Sealed'
    BY <1>1, SchemaMigrationsAssumption, Zenon DEF Sealed, Migrations
  <1>3. Grown
    BY <1>1, <1>2, Zenon DEF Grown
  <1>4. DecisionSound' /\ ExceptionsWereApproved' /\ (isApplied("later") => Sealed)'
    BY <1>1, <1>2, Zenon DEF SchemaInv, DecisionSound, ExceptionsWereApproved, Migrations
  <1>5. AppliedInOrder'
    BY <1>1, OrderFacts, Zenon DEF SchemaInv, AppliedInOrder
  <1> QED
    BY <1>1, <1>3, <1>4, <1>5, Zenon

(* A run fills in the hashes of what it applied before there were columns. *)
LEMMA RecordInv ==
    ASSUME SchemaInv, NEW p \in Procs, RecordAppliedRunHash(p)
    PROVE  SchemaInv'
  <1>1. /\ proc[p].pc = "record"
        /\ UNCHANGED <<approval, runs, decisions, content, attested, approved>>
    BY Zenon DEF RecordAppliedRunHash
  <1>2. proc[p] \in ProcStates /\ Sound(proc[p])
    BY Zenon DEF SchemaInv, TypeOK, ProcStates
  <1>3. ASSUME Set(p, NextMigration(p)), UNCHANGED applied PROVE SchemaInv'
    <2>1. NextMigration(p) \in ProcStates /\ Sound(NextMigration(p))
      BY <1>1, <1>2, NextSound, Zenon DEF Sound, InOrder, At
    <2>2. runs' \in 0..MaxRuns
      BY <1>1, Zenon DEF SchemaInv, TypeOK
    <2> QED
      BY <1>1, <1>3, <2>1, <2>2, ProcMoves, Zenon
  <1>4. ASSUME NEW m \in proc[p].mine,
               applied' = [applied EXCEPT ![m] = IF applied[m] = NoHash
                                                 THEN HashOf[proc[p].build][m]
                                                 ELSE applied[m]],
               Set(p, [proc[p] EXCEPT !.mine = @ \ {m}])
        PROVE  SchemaInv'
    <2>1. /\ m \in DOMAIN HashOf[proc[p].build] /\ content[m] = HashOf[proc[p].build][m]
          /\ proc[p].build \in Builds /\ m \in Migrations
      BY <1>2, <1>4, Zenon DEF Sound, MineApplied, ProcStates
    <2>2. HashOf[proc[p].build][m] \in Hashes
      BY <2>1, BuildHas, Zenon
    <2>3. /\ applied' \in [Migrations -> Hashes \cup {Absent, NoHash}]
          /\ \A k \in Migrations :
             applied'[k] = applied[k] \/ (applied[k] = NoHash /\ applied'[k] \in Hashes)
          /\ \A k \in Migrations : applied'[k] # applied[k] => applied'[k] = content[k]
      BY <1>4, <2>1, <2>2, Zenon DEF SchemaInv, TypeOK
    <2>4. /\ Grown
          /\ DecisionSound' /\ ExceptionsWereApproved' /\ AppliedInOrder'
          /\ (isApplied("later") => Sealed)'
          /\ \A k \in Migrations : isApplied(k)' <=> isApplied(k)
      BY <1>1, <2>3, Hashed, Zenon
    <2>5. PICK r : r = [proc[p] EXCEPT !.mine = @ \ {m}]
      BY Zenon
    <2>6. /\ r \in ProcStates /\ r.pc = "record" /\ r.at = proc[p].at /\ r.op = proc[p].op
          /\ r.build = proc[p].build /\ r.mine \subseteq proc[p].mine
      BY <1>1, <1>2, <2>5, Zenon DEF ProcStates
    <2>7. Sound(r)
      BY <1>1, <1>2, <2>6, Zenon DEF Sound, InOrder, CheckStands, MineApplied
    <2>8. Sound(r)'
      BY <2>4, <2>6, <2>7, SoundKept, Zenon
    <2>9. proc' \in [Procs -> ProcStates] /\ \A q \in Procs : Sound(proc[q])'
      BY <1>4, <2>4, <2>5, <2>6, <2>8, AllSound, Zenon
    <2>10. TypeOK'
      BY <1>1, <2>3, <2>9, Zenon DEF SchemaInv, TypeOK, ProcStates
    <2>11. HashesTrue'
      BY <1>1, <2>3, Zenon DEF SchemaInv, HashesTrue
    <2> QED
      BY <2>4, <2>9, <2>10, <2>11, Zenon DEF SchemaInv
  <1> QED
    BY <1>3, <1>4, Zenon DEF RecordAppliedRunHash

(* An operator vouches for the rows without a hash. *)
LEMMA AttestInv ==
    ASSUME SchemaInv, NEW b \in Builds, AttestLegacyHashes(b)
    PROVE  SchemaInv'
  <1> DEFINE legacy == {m \in Migrations : applied[m] = NoHash}
  <1>1. /\ decisions < MaxDecisions /\ decisions' = decisions + 1
        /\ \A m \in Migrations : isApplied(m) => m \in DOMAIN HashOf[b]
        /\ applied' = [m \in Migrations |-> IF m \in legacy THEN HashOf[b][m] ELSE applied[m]]
        /\ attested' = attested \cup legacy
        /\ UNCHANGED <<approval, proc, runs, content, approved>>
    BY Zenon DEF AttestLegacyHashes, Decide
  <1>2. \A m \in legacy : HashOf[b][m] \in Hashes
    BY <1>1, BuildHas, SchemaMigrationsAssumption, Zenon DEF isApplied
  <1>3. /\ applied' \in [Migrations -> Hashes \cup {Absent, NoHash}]
        /\ \A m \in Migrations :
             applied'[m] = applied[m] \/ (applied[m] = NoHash /\ applied'[m] \in Hashes)
    BY <1>1, <1>2, Zenon DEF SchemaInv, TypeOK
  <1>4. /\ Grown
        /\ DecisionSound' /\ ExceptionsWereApproved' /\ AppliedInOrder'
        /\ (isApplied("later") => Sealed)'
    BY <1>1, <1>3, Hashed, Zenon
  <1>5. \A q \in Procs : Sound(proc[q])'
    BY <1>1, <1>4, AllSoundStill, Zenon
  <1>6. TypeOK'
    BY <1>1, <1>3, SchemaMigrationsAssumption DEF SchemaInv, TypeOK
  <1>7. HashesTrue'
    BY <1>1, Zenon DEF SchemaInv, HashesTrue
  <1> QED
    BY <1>4, <1>5, <1>6, <1>7, Zenon DEF SchemaInv

(* A decision about 000012 is recorded. *)
LEMMA DecisionInv ==
    ASSUME SchemaInv, NEW b \in Builds, Approve(b) \/ Revoke(b)
    PROVE  SchemaInv'
  <1> DEFINE h == HashOf[b]["exceptions"]
  <1>1. /\ decisions < MaxDecisions /\ decisions' = decisions + 1
        /\ UNCHANGED <<applied, proc, runs, content, attested>>
        /\ \/ /\ isApplied("ledger") /\ approved' = approved \cup {h}
              /\ approval' = [status |-> "approved", hash |-> h]
           \/ /\ approved' = approved
              /\ approval' = [status |-> "revoked", hash |-> h]
    BY Zenon DEF Approve, Revoke, Decide
  <1>2. h \in Hashes
    BY BuildHas, Zenon
  <1>3. Grown
    BY <1>1, Zenon DEF Grown, isApplied, Sealed
  <1>4. \A q \in Procs : Sound(proc[q])'
    BY <1>1, <1>3, AllSoundStill, Zenon
  <1>5. TypeOK'
    BY <1>1, <1>2, SchemaMigrationsAssumption DEF SchemaInv, TypeOK
  <1>6. DecisionSound'
    BY <1>1 DEF SchemaInv, DecisionSound, isApplied
  <1>7. HashesTrue' /\ ExceptionsWereApproved' /\ AppliedInOrder' /\ (isApplied("later") => Sealed)'
    BY <1>1, Zenon DEF SchemaInv, HashesTrue, ExceptionsWereApproved, AppliedInOrder, isApplied, Sealed
  <1> QED
    BY <1>4, <1>5, <1>6, <1>7, Zenon DEF SchemaInv

(* A migration that was not applied is: what its transaction writes. *)
LEMMA ApplyFacts ==
    ASSUME SchemaInv, NEW p \in Procs, Apply(p), ~isApplied(At(p)), NEW m, m = At(p)
    PROVE  /\ m \in Migrations /\ m \in DOMAIN HashOf[proc[p].build]
           /\ HashOf[proc[p].build][m] \in Hashes
           /\ HashOf[proc[p].build][m] \notin {Absent, NoHash}
           /\ applied' = [applied EXCEPT ![m] = IF proc[p].columns
                                               THEN HashOf[proc[p].build][m] ELSE NoHash]
           /\ content' = [content EXCEPT ![m] = HashOf[proc[p].build][m]]
           /\ approval' = IF m = "exceptions"
                          THEN recordMigrationLedgerPhase(proc[p].build) ELSE approval
           /\ isApplied(m)' /\ \A k \in Migrations : isApplied(k) => isApplied(k)'
           /\ \A k \in Migrations \ {m} : applied'[k] = applied[k] /\ content'[k] = content[k]
           /\ Grown
  <1>1. /\ proc[p].pc = "commit" /\ proc[p] \in ProcStates /\ Sound(proc[p])
        /\ proc[p].build \in Builds
    BY Zenon DEF Apply, SchemaInv, TypeOK, ProcStates
  <1>2. m \in DOMAIN HashOf[proc[p].build]
    BY <1>1, Zenon DEF Sound, InOrder, At
  <1>3. /\ m \in Migrations
        /\ HashOf[proc[p].build][m] \in Hashes
        /\ HashOf[proc[p].build][m] \notin {Absent, NoHash}
    BY <1>1, <1>2, BuildHas, Zenon
  <1>4. /\ applied' = [applied EXCEPT ![m] = IF proc[p].columns
                                            THEN HashOf[proc[p].build][m] ELSE NoHash]
        /\ content' = [content EXCEPT ![m] = HashOf[proc[p].build][m]]
        /\ approval' = IF m = "exceptions"
                       THEN recordMigrationLedgerPhase(proc[p].build) ELSE approval
        /\ UNCHANGED approved
    BY Zenon DEF Apply
  <1>5. \A k \in Migrations \ {m} : applied'[k] = applied[k] /\ content'[k] = content[k]
    BY <1>3, <1>4, Zenon DEF SchemaInv, TypeOK
  <1>6. applied'[m] = IF proc[p].columns THEN HashOf[proc[p].build][m] ELSE NoHash
    BY <1>3, <1>4, Zenon DEF SchemaInv, TypeOK
  <1>7. isApplied(m)' /\ \A k \in Migrations : isApplied(k) => isApplied(k)'
    BY <1>3, <1>5, <1>6, SchemaMigrationsAssumption, Zenon DEF isApplied
  <1>8. Sealed => Sealed'
    <2> SUFFICES ASSUME Sealed PROVE Sealed'
      BY Zenon
    <2>1. isApplied("checksums") /\ isApplied("core") /\ isApplied("ledger")
      BY OrderFacts DEF Sealed, SchemaInv, AppliedInOrder
    <2>2. m \in {"exceptions", "later"}
      BY <1>3, <2>1, Zenon DEF Migrations
    <2>3. m = "later" => applied'[m] # NoHash
      BY <1>1, <1>3, <1>6, Zenon DEF Sound, CheckStands, At
    <2>4. isApplied("checksums")'
      BY <1>7, <2>1, Zenon DEF Migrations
    <2> QED
      BY <1>5, <2>2, <2>3, <2>4, Zenon DEF Sealed
  <1>9. Grown
    BY <1>4, <1>5, <1>7, <1>8, Zenon DEF Grown
  <1> QED
    BY <1>2, <1>3, <1>4, <1>5, <1>7, <1>9, Zenon

(* Where the command goes after it: to the hashes after 000013, else on. *)
LEMMA ApplyGoesOn ==
    ASSUME SchemaInv, NEW p \in Procs, Apply(p), ~isApplied(At(p))
    PROVE  /\ proc' \in [Procs -> ProcStates]
           /\ \A q \in Procs : Sound(proc[q])'
  <1>1. PICK r : r = proc[p]
    BY Zenon
  <1>2. PICK m : m = At(p)
    BY Zenon
  <1>3. /\ r.pc = "commit" /\ r \in ProcStates /\ Sound(r) /\ r.build \in Builds
        /\ m = Order[r.at] /\ r.at \in 1..5 /\ r.mine \subseteq Migrations
    BY <1>1, <1>2, OrderFacts, Zenon DEF Apply, SchemaInv, TypeOK, ProcStates, At
  <1>4. /\ Grown /\ isApplied(m)' /\ m \in Migrations /\ m \in DOMAIN HashOf[r.build]
        /\ content'[m] = HashOf[r.build][m]
    BY SMTT(30), <1>1, <1>2, ApplyFacts DEF SchemaInv, TypeOK
  <1>5. Sound(r)'
    BY <1>3, <1>4, SoundKept, Zenon
  <1>6. CASE m = "checksums"
    <2>1. PICK q : q = [r EXCEPT !.pc = "record"]
      BY Zenon
    <2>2. Set(p, q)
      BY <1>1, <1>2, <1>6, <2>1, Zenon DEF Apply
    <2>3. /\ q \in ProcStates /\ q.pc = "record" /\ q.at = r.at /\ q.op = r.op
          /\ q.build = r.build /\ q.mine = r.mine
      BY <1>3, <2>1, Zenon DEF ProcStates
    <2>4. InOrder(q)'
      BY <1>3, <1>4, <1>5, <1>6, <2>3, Zenon DEF Sound, InOrder
    <2>5. CheckStands(q)' /\ MineApplied(q)'
      BY <1>5, <2>3, Zenon DEF Sound, CheckStands, MineApplied
    <2> QED
      BY <1>4, <2>2, <2>3, <2>4, <2>5, AllSound, Zenon DEF Sound
  <1>7. CASE m # "checksums" /\ NextMigration(p) = Idle
    <2>1. [Idle EXCEPT !.mine = {}] = Idle
      BY DEF Idle
    <2>2. Set(p, Idle)
      BY <1>2, <1>7, <2>1, Zenon DEF Apply
    <2>3. Sound(Idle)'
      BY IdleSound, Zenon DEF Sound, InOrder, CheckStands, MineApplied
    <2> QED
      BY <1>4, <2>2, <2>3, IdleSound, AllSound, Zenon
  <1>8. CASE m # "checksums" /\ NextMigration(p) # Idle
    <2>1. /\ r.op = "up" /\ r.at + 1 \in 1..5
          /\ Order[r.at + 1] \in DOMAIN HashOf[r.build]
          /\ NextMigration(p) = [r EXCEPT !.pc = "examine", !.at = r.at + 1]
      BY <1>1, <1>3, <1>8, NextIs, Zenon
    <2>2. PICK q : q = [r EXCEPT !.pc = "examine", !.at = r.at + 1, !.mine = r.mine \cup {m}]
      BY Zenon
    <2>3. q = [NextMigration(p) EXCEPT !.mine = r.mine \cup {m}]
      BY <1>3, <2>1, <2>2, Zenon DEF ProcStates
    <2>4. Set(p, q)
      BY <1>1, <1>2, <1>8, <2>1, <2>3, Zenon DEF Apply
    <2>5. /\ q \in ProcStates /\ q.pc = "examine" /\ q.at = r.at + 1 /\ q.op = r.op
          /\ q.build = r.build /\ q.mine = r.mine \cup {m}
      BY <1>3, <1>4, <2>1, <2>2, OrderFacts, Zenon DEF ProcStates
    <2>6. InOrder(q)'
      <3>1. ASSUME NEW i \in 1..5, i < q.at, Order[i] # "exceptions" PROVE isApplied(Order[i])'
        <4>1. i < r.at \/ i = r.at
          BY <1>3, <2>5, <3>1
        <4> QED
          BY <1>3, <1>4, <1>5, <2>1, <3>1, <4>1, Zenon DEF Sound, InOrder
      <3> QED
        BY <2>1, <2>5, <3>1, Zenon DEF InOrder
    <2>7. CheckStands(q)' /\ MineApplied(q)'
      BY <1>4, <1>5, <2>5, Zenon DEF Sound, CheckStands, MineApplied
    <2> QED
      BY <1>4, <2>4, <2>5, <2>6, <2>7, AllSound, Zenon DEF Sound
  <1> QED
    BY <1>6, <1>7, <1>8, Zenon

(* The transaction of a migration. *)
LEMMA ApplyInv ==
    ASSUME SchemaInv, NEW p \in Procs, Apply(p)
    PROVE  SchemaInv'
  <1>1. CASE isApplied(At(p))
    <2>1. /\ Set(p, Idle) /\ runs' \in 0..MaxRuns
          /\ UNCHANGED <<applied, approval, decisions, content, attested, approved>>
      BY <1>1, Zenon DEF Apply, Goto, SchemaInv, TypeOK
    <2> QED
      BY <2>1, IdleSound, ProcMoves, Zenon
  <1>2. CASE ~isApplied(At(p))
    <2>1. PICK m : m = At(p)
      BY Zenon
    <2> DEFINE b == proc[p].build
               h == HashOf[b][m]
    <2>2. /\ m \in Migrations /\ h \in Hashes /\ h \notin {Absent, NoHash}
          /\ applied' = [applied EXCEPT ![m] = IF proc[p].columns THEN h ELSE NoHash]
          /\ content' = [content EXCEPT ![m] = h]
          /\ approval' = IF m = "exceptions" THEN recordMigrationLedgerPhase(b) ELSE approval
          /\ isApplied(m)' /\ \A k \in Migrations : isApplied(k) => isApplied(k)'
          /\ \A k \in Migrations \ {m} : applied'[k] = applied[k] /\ content'[k] = content[k]
          /\ Grown
      BY SMTT(30), <1>2, <2>1, ApplyFacts
    <2>3. proc' \in [Procs -> ProcStates] /\ \A q \in Procs : Sound(proc[q])'
      BY <1>2, ApplyGoesOn, Zenon
    <2>4. UNCHANGED <<runs, decisions, attested, approved>>
      BY Zenon DEF Apply
    <2>5. m = "exceptions" =>
            /\ h \in approved /\ isApplied("ledger")
            /\ approval' = [status |-> approval.status, hash |-> h] /\ approval.status # "none"
      <3> SUFFICES ASSUME m = "exceptions"
                   PROVE  /\ h \in approved /\ isApplied("ledger")
                          /\ approval' = [status |-> approval.status, hash |-> h]
                          /\ approval.status # "none"
        BY Zenon
      <3>1. h \in approved
        BY <2>1, Zenon DEF Apply, SchemaInv, Sound, CheckStands, At
      <3>2. isApplied("ledger") /\ approval.status # "none"
        BY <3>1, Zenon DEF SchemaInv, DecisionSound
      <3> QED
        BY <2>2, <3>1, <3>2, Zenon DEF recordMigrationLedgerPhase
    <2>6. TypeOK'
      <3>1. approval' \in [status : {"none", "approved", "revoked", "ready"},
                           hash : Hashes \cup {NoHash}]
        BY SMTT(30), <2>2, <2>5 DEF SchemaInv, TypeOK
      <3>2. applied' \in [Migrations -> Hashes \cup {Absent, NoHash}]
        BY <2>2, Zenon DEF SchemaInv, TypeOK
      <3> QED
        BY <2>2, <2>3, <2>4, <3>1, <3>2, Zenon DEF SchemaInv, TypeOK, ProcStates
    <2>7. HashesTrue'
      <3>1. applied'[m] \in {h, NoHash} /\ content'[m] = h
        BY <2>2, Zenon DEF SchemaInv, TypeOK
      <3> QED
        BY <2>2, <2>4, <3>1, Zenon DEF SchemaInv, HashesTrue
    <2>8. DecisionSound'
      <3>1. isApplied("ledger") => isApplied("ledger")'
        BY <2>2, Zenon DEF Migrations
      <3> QED
        BY <2>2, <2>4, <2>5, <3>1 DEF SchemaInv, DecisionSound
    <2>9. ExceptionsWereApproved'
      <3>1. CASE m = "exceptions"
        BY <2>2, <2>4, <2>5, <3>1, Zenon DEF SchemaInv, TypeOK, ExceptionsWereApproved
      <3>2. CASE m # "exceptions"
        BY SMTT(30), <2>2, <2>4, <3>2 DEF SchemaInv, ExceptionsWereApproved, isApplied, Migrations
      <3> QED
        BY <3>1, <3>2, Zenon
    <2>10. AppliedInOrder'
      <3> SUFFICES ASSUME NEW i \in 1..5, NEW j \in 1..5, i < j, isApplied(Order[j])',
                          Order[i] # "exceptions"
                   PROVE  isApplied(Order[i])'
        BY OrderFacts, Zenon DEF AppliedInOrder
      <3>1. Order[i] \in Migrations /\ Order[j] \in Migrations
        BY OrderFacts, Zenon
      <3>2. CASE isApplied(Order[j])
        BY <2>2, <3>1, <3>2, OrderFacts, Zenon DEF SchemaInv, AppliedInOrder
      <3>3. CASE ~isApplied(Order[j])
        <4>1. Order[j] = m
          BY <2>2, <3>1, <3>3, Zenon DEF isApplied
        <4>2. CASE m = "exceptions"
          <5>1. isApplied("ledger") /\ isApplied("core")
            BY <2>5, <4>2, OrderFacts DEF SchemaInv, AppliedInOrder
          <5>2. j = 3
            <6>1. j = 1 \/ j = 2 \/ j = 3 \/ j = 4 \/ j = 5
              OBVIOUS
            <6> QED
              BY <4>1, <4>2, <6>1, OrderFacts, Zenon
          <5>3. i = 1 \/ i = 2
            BY <5>2
          <5>4. Order[i] \in {"core", "ledger"}
            BY <5>3, OrderFacts, Zenon
          <5> QED
            BY <2>2, <3>1, <5>1, <5>4, Zenon
        <4>3. CASE m # "exceptions"
          <5>1. /\ proc[p].at \in 1..5 /\ Order[proc[p].at] = m /\ proc[p].pc # "idle"
                /\ proc[p].op \in {"up", "one"} /\ Sound(proc[p])
            BY <2>1, OrderFacts, Zenon DEF Apply, At, SchemaInv, TypeOK
          <5>2. j = proc[p].at
            <6>1. \A x \in 1..5 : x = 1 \/ x = 2 \/ x = 3 \/ x = 4 \/ x = 5
              OBVIOUS
            <6> QED
              BY <4>1, <5>1, <6>1, OrderFacts
          <5>3. proc[p].op = "up"
            BY <4>3, <5>1, OrderFacts, Zenon DEF Sound, InOrder
          <5>4. isApplied(Order[i])
            BY <5>1, <5>2, <5>3, Zenon DEF Sound, InOrder
          <5> QED
            BY <2>2, <3>1, <5>4, Zenon
        <4> QED
          BY <4>2, <4>3, Zenon
      <3> QED
        BY <3>2, <3>3, Zenon
    <2>11. (isApplied("later") => Sealed)'
      <3>1. CASE isApplied("later")
        BY <2>2, <3>1, Zenon DEF SchemaInv, Grown
      <3>2. CASE ~isApplied("later") /\ isApplied("later")'
        <4>1. m = "later"
          BY <2>2, <3>2, Zenon DEF isApplied, Migrations
        <4>2. Sealed
          BY <2>1, <4>1, Zenon DEF Apply, SchemaInv, Sound, CheckStands, At
        <4> QED
          BY <2>2, <4>2, Zenon DEF Grown
      <3> QED
        BY <3>1, <3>2, Zenon
    <2> QED
      BY <2>3, <2>6, <2>7, <2>8, <2>9, <2>10, <2>11, Zenon DEF SchemaInv
  <1> QED
    BY <1>1, <1>2, Zenon

(* Every step preserves the invariant. *)
LEMMA SchemaNext == SchemaInv /\ [Next]_vars => SchemaInv'
  <1> SUFFICES ASSUME SchemaInv, [Next]_vars PROVE SchemaInv'
    BY Zenon
  <1>1. ASSUME NEW p \in Procs, NEW b \in Builds, Up(p, b) \/ ApplyApproved(p, b)
        PROVE  SchemaInv'
    BY <1>1, BeginInv, Zenon
  <1>2. ASSUME NEW p \in Procs,
               \/ Examine(p) \/ Check(p) \/ ApplySQL(p) \/ Apply(p)
               \/ RecordAppliedRunHash(p) \/ Crash(p)
        PROVE  SchemaInv'
    BY <1>2, ExamineInv, CheckInv, ApplySQLInv, ApplyInv, RecordInv, CrashInv, Zenon
  <1>3. ASSUME NEW b \in Builds, Approve(b) \/ Revoke(b) \/ AttestLegacyHashes(b)
        PROVE  SchemaInv'
    BY <1>3, DecisionInv, AttestInv, Zenon
  <1>4. CASE UNCHANGED vars
    <2>1. UNCHANGED <<applied, approval, proc, runs, decisions, content, attested, approved>>
      BY <1>4, Zenon DEF vars
    <2>2. Grown
      BY <2>1, Zenon DEF Grown, isApplied, Sealed
    <2>3. \A q \in Procs : Sound(proc[q])'
      BY <2>1, <2>2, AllSoundStill, Zenon
    <2>4. TypeOK'
      BY <2>1, Zenon DEF SchemaInv, TypeOK
    <2>5. /\ HashesTrue' /\ DecisionSound' /\ ExceptionsWereApproved' /\ AppliedInOrder'
          /\ (isApplied("later") => Sealed)'
      BY <2>1, Zenon DEF SchemaInv, HashesTrue, DecisionSound, ExceptionsWereApproved, AppliedInOrder,
                  isApplied, Sealed
    <2> QED
      BY <2>3, <2>4, <2>5, Zenon DEF SchemaInv
  <1> QED
    BY <1>1, <1>2, <1>3, <1>4, Zenon DEF Next

(* The invariant holds throughout. *)
THEOREM SchemaInvariance == Spec => []SchemaInv
  <1>1. Init => SchemaInv
    BY SchemaInit, Zenon
  <1>2. SchemaInv /\ [Next]_vars => SchemaInv'
    BY SchemaNext, Zenon
  <1> QED
    BY <1>1, <1>2, PTL DEF Spec

(* Crashes, races and builds that differ leave the schema accounted for: what
   is applied is in order and approved, and a hash on record that nobody
   attested is true (Up, ApplyApproved, requireVerifiedChecksums,
   recordAppliedRunHashes).                                                *)
THEOREM SchemaAccounted == Spec => []SchemaIsAccounted
  <1>1. SchemaInv => SchemaIsAccounted
    <2> SUFFICES ASSUME SchemaInv PROVE SchemaIsAccounted
      BY Zenon
    <2>1. ExceptionsWereApproved /\ AppliedInOrder
      BY Zenon DEF SchemaInv
    <2>2. LaterAppliedVerified
      BY Zenon DEF SchemaInv, LaterAppliedVerified, Sealed
    <2>3. VerifiedIsApplied
      <3> SUFFICES ASSUME NEW b \in Builds, NEW m \in Migrations \ attested,
                          m \in DOMAIN HashOf[b], Statuses(b)[m] = "verified"
                   PROVE  content[m] = HashOf[b][m]
        BY Zenon DEF VerifiedIsApplied
      <3>1. isApplied(m) /\ applied[m] # NoHash /\ applied[m] = HashOf[b][m]
        BY Zenon DEF Statuses
      <3> QED
        BY <3>1, Zenon DEF SchemaInv, HashesTrue, isApplied
    <2> QED
      BY <2>1, <2>2, <2>3, Zenon DEF SchemaIsAccounted
  <1> QED
    BY <1>1, SchemaInvariance, PTL

(* A hash on record is never rewritten, and an applied migration neither goes
   away nor changes its content: schema_migrations is a history.           *)
THEOREM SchemaHistoryKept ==
    Spec => [][\A m \in Migrations :
                 /\ applied[m] \notin {Absent, NoHash} => applied'[m] = applied[m]
                 /\ isApplied(m) => isApplied(m)' /\ content'[m] = content[m]]_vars
  <1> DEFINE Kept == \A m \in Migrations :
                 /\ applied[m] \notin {Absent, NoHash} => applied'[m] = applied[m]
                 /\ isApplied(m) => isApplied(m)' /\ content'[m] = content[m]
  <1>1. ASSUME SchemaInv, [Next]_vars PROVE [Kept]_vars
    <2>1. ASSUME NEW p \in Procs, Apply(p) PROVE Kept
      <3>1. CASE isApplied(At(p))
        BY <2>1, <3>1, Zenon DEF Apply, isApplied
      <3>2. CASE ~isApplied(At(p))
        <4>1. PICK m : m = At(p)
          BY Zenon
        <4>2. \A k \in Migrations \ {m} : applied'[k] = applied[k] /\ content'[k] = content[k]
          BY <1>1, <2>1, <3>2, <4>1, ApplyFacts, Zenon
        <4> QED
          BY <3>2, <4>1, <4>2, Zenon DEF isApplied
      <3> QED
        BY <3>1, <3>2, Zenon
    <2>2. ASSUME NEW p \in Procs, RecordAppliedRunHash(p) PROVE Kept
      <3>1. \A m \in proc[p].mine : /\ m \in Migrations /\ m \in DOMAIN HashOf[proc[p].build]
                                   /\ proc[p].build \in Builds
        BY <1>1, <2>2, Zenon DEF SchemaInv, TypeOK, Sound, MineApplied
      <3>2. \A m \in proc[p].mine : HashOf[proc[p].build][m] # Absent
        BY <3>1, BuildHas, Zenon
      <3> QED
        BY <1>1, <2>2, <3>1, <3>2, ZenonT(30) DEF RecordAppliedRunHash, isApplied, SchemaInv, TypeOK
    <2>3. ASSUME NEW b \in Builds, AttestLegacyHashes(b) PROVE Kept
      <3>1. \A m \in Migrations : applied[m] = NoHash => HashOf[b][m] # Absent
        BY <2>3, BuildHas, SchemaMigrationsAssumption, Zenon DEF AttestLegacyHashes, isApplied
      <3> QED
        BY <2>3, <3>1, Zenon DEF AttestLegacyHashes, isApplied
    <2>4. \/ \E p \in Procs : Apply(p) \/ RecordAppliedRunHash(p)
          \/ \E b \in Builds : AttestLegacyHashes(b)
          \/ UNCHANGED <<applied, content>>
      BY <1>1, Zenon DEF Next, vars, Up, ApplyApproved, Examine, Check, ApplySQL, Crash, Approve, Revoke
    <2>5. CASE UNCHANGED <<applied, content>>
      BY <2>5, Zenon DEF isApplied
    <2> QED
      BY <2>1, <2>2, <2>3, <2>4, <2>5, Zenon
  <1> QED
    BY <1>1, SchemaInvariance, PTL DEF Spec

-----------------------------------------------------------------------------
(* What the rest of the system sees of it. *)
MigratedOf == IF isApplied("exceptions") THEN content["exceptions"] ELSE NoHash

(* A new database has no decision and no release_exceptions. *)
LEMMA MigrationInitImplements == Init => Migration!MigrationInit
  BY Zenon DEF Init, Migration!MigrationInit, isApplied, Migrations

(* Applying 000012 is ApplyMigration of an approved content; any other apply
   is not seen.                                                            *)
LEMMA ApplyImplements ==
    ASSUME SchemaInv, NEW p \in Procs, Apply(p)
    PROVE  [Migration!MigrationNext]_<<approval, MigratedOf, approved>>
  <1>1. CASE isApplied(At(p))
    BY <1>1, Zenon DEF Apply, MigratedOf, isApplied
  <1>2. CASE ~isApplied(At(p))
    <2>1. PICK m : m = At(p)
      BY Zenon
    <2>2. PICK h : h = HashOf[proc[p].build][m]
      BY Zenon
    <2>3. /\ m \in Migrations /\ isApplied(m)'
          /\ content' = [content EXCEPT ![m] = h]
          /\ approval' = IF m = "exceptions" THEN recordMigrationLedgerPhase(proc[p].build)
                         ELSE approval
          /\ \A k \in Migrations \ {m} : applied'[k] = applied[k] /\ content'[k] = content[k]
      BY SMTT(30), <1>2, <2>1, <2>2, ApplyFacts
    <2>4. UNCHANGED approved
      BY Zenon DEF Apply
    <2>5. CASE m # "exceptions"
      BY <2>3, <2>4, <2>5, Zenon DEF MigratedOf, isApplied, Migrations
    <2>6. CASE m = "exceptions"
      <3>1. h \in approved
        BY <2>1, <2>2, <2>6, Zenon DEF Apply, SchemaInv, Sound, CheckStands, At
      <3>2. approval.status # "none" /\ h \in {HashOf[b]["exceptions"] : b \in Builds}
        BY <3>1, Zenon DEF SchemaInv, DecisionSound
      <3>3. MigratedOf = NoHash /\ MigratedOf' = h
        BY <1>2, <2>1, <2>3, <2>6 DEF MigratedOf, SchemaInv, TypeOK
      <3>4. approval' = [approval EXCEPT !.hash = h]
        BY <2>2, <2>3, <2>6, <3>2 DEF recordMigrationLedgerPhase, SchemaInv, TypeOK
      <3>5. Migration!ApplyMigration(h)
        BY <2>4, <3>1, <3>3, <3>4, Zenon DEF Migration!ApplyMigration, MigratedOf
      <3> QED
        BY <3>2, <3>5, Zenon DEF Migration!MigrationNext
    <2> QED
      BY <2>5, <2>6, Zenon
  <1> QED
    BY <1>1, <1>2, Zenon

(* Every step is a decision, the one apply, or invisible. *)
LEMMA SchemaStepImplements ==
    ASSUME SchemaInv, [Next]_vars
    PROVE  [Migration!MigrationNext]_<<approval, MigratedOf, approved>>
  <1>1. ASSUME NEW b \in Builds, Approve(b) PROVE Migration!MigrationNext
    <2>1. PICK h \in {HashOf[c]["exceptions"] : c \in Builds} : h = HashOf[b]["exceptions"]
      BY Zenon
    <2>2. Migration!ApproveMigration(h)
      BY <1>1, <2>1, Zenon DEF Approve, Migration!ApproveMigration, isApplied
    <2> QED
      BY <2>2, Zenon DEF Migration!MigrationNext
  <1>2. ASSUME NEW b \in Builds, Revoke(b) PROVE Migration!MigrationNext
    <2>1. PICK h \in {HashOf[c]["exceptions"] : c \in Builds} : h = HashOf[b]["exceptions"]
      BY Zenon
    <2>2. Migration!RevokeMigration(h)
      BY <1>2, <2>1, Zenon DEF Revoke, Migration!RevokeMigration, isApplied
    <2> QED
      BY <2>2, Zenon DEF Migration!MigrationNext
  <1>3. ASSUME NEW p \in Procs, Apply(p)
        PROVE  [Migration!MigrationNext]_<<approval, MigratedOf, approved>>
    BY <1>3, ApplyImplements, Zenon
  <1>4. ASSUME NEW p \in Procs, RecordAppliedRunHash(p)
        PROVE  UNCHANGED <<approval, MigratedOf, approved>>
    <2>1. \A m \in proc[p].mine : m \in Migrations /\ HashOf[proc[p].build][m] # Absent
      BY <1>4, BuildHas, Zenon DEF SchemaInv, TypeOK, Sound, MineApplied
    <2>2. isApplied("exceptions")' <=> isApplied("exceptions")
      <3>1. CASE UNCHANGED applied
        BY <3>1, Zenon DEF isApplied
      <3>2. ASSUME NEW m \in proc[p].mine,
                   applied' = [applied EXCEPT ![m] = IF applied[m] = NoHash
                                                     THEN HashOf[proc[p].build][m]
                                                     ELSE applied[m]]
            PROVE  isApplied("exceptions")' <=> isApplied("exceptions")
        <4>1. applied \in [Migrations -> Hashes \cup {Absent, NoHash}]
          BY Zenon DEF SchemaInv, TypeOK
        <4>2. \A k \in Migrations : applied'[k] = Absent <=> applied[k] = Absent
          BY <2>1, <3>2, <4>1, SchemaMigrationsAssumption, Zenon
        <4> QED
          BY <4>2, Zenon DEF isApplied, Migrations
      <3> QED
        BY <1>4, <3>1, <3>2, Zenon DEF RecordAppliedRunHash
    <2> QED
      BY <1>4, <2>2, Zenon DEF RecordAppliedRunHash, MigratedOf
  <1>5. ASSUME NEW b \in Builds, AttestLegacyHashes(b)
        PROVE  UNCHANGED <<approval, MigratedOf, approved>>
    <2>1. isApplied("exceptions")' <=> isApplied("exceptions")
      BY <1>5, BuildHas, SchemaMigrationsAssumption, Zenon DEF AttestLegacyHashes, isApplied, Migrations
    <2> QED
      BY <1>5, <2>1, Zenon DEF AttestLegacyHashes, MigratedOf
  <1>6. \/ \E b \in Builds : Approve(b) \/ Revoke(b) \/ AttestLegacyHashes(b)
        \/ \E p \in Procs : Apply(p) \/ RecordAppliedRunHash(p)
        \/ UNCHANGED <<applied, approval, content, approved>>
    BY Zenon DEF Next, vars, Up, ApplyApproved, Examine, Check, ApplySQL, Crash
  <1>7. CASE UNCHANGED <<applied, approval, content, approved>>
    BY <1>7, Zenon DEF MigratedOf, isApplied
  <1> QED
    BY <1>1, <1>2, <1>3, <1>4, <1>5, <1>6, <1>7, Zenon

(* To the rest of the system 000012 is one decision row and at most one apply
   of an approved content, which neither loses an approval nor brings a
   revoked one back (recordMigrationLedgerPhase).                          *)
THEOREM SchemaRefinement == Spec => ImplementsExceptionMigration
  <1>1. SchemaInv /\ [Next]_vars =>
          [Migration!MigrationNext]_<<approval, MigratedOf, approved>>
    BY SchemaStepImplements, Zenon
  <1> QED
    BY MigrationInitImplements, SchemaInvariance, <1>1, PTL
       DEF Spec, ImplementsExceptionMigration, Migration!MigrationSpec,
           Migration!migrationVars, MigratedOf

=============================================================================
