-------------------------- MODULE MigrationsProofs --------------------------
(***************************************************************************)
(* Proofs about Migrations, for any number of processes and any -n.        *)
(*                                                                         *)
(* The argument is IInv of MigrationsSafety.  The lock has one owner       *)
(* (Holders); what its owner has written into schema_migrations tells      *)
(* where it is (OnTrack); and a file takes the schema of one version to    *)
(* that of the next (FileTurns), so that a process that stops leaves a     *)
(* clean mark that is true or a dirty one that is one file away (Near).    *)
(***************************************************************************)
EXTENDS MigrationsSafety, TLAPS

\* A file takes the schema of one version to that of the version next to it.
LEMMA FileTurns ==
    ASSUME NEW from \in 0..Last, NEW to \in 0..Last,
           objs = SchemaOf(from), RunFile(from, to)
    PROVE  objs' = SchemaOf(to) /\ (to = from + 1 \/ to = from - 1)
<1>1. CASE from = 0 /\ to = 1
  BY <1>1 DEF RunFile, SchemaOf, CreateEntries, Alters
<1>2. CASE from = 1 /\ to = 0
  BY <1>2 DEF RunFile, SchemaOf, DropEntries, Alters
<1>3. CASE from = 1 /\ to = 2
  BY <1>3 DEF RunFile, SchemaOf, CreateUsers, Alters
<1>4. CASE from = 2 /\ to = 1
  BY <1>4 DEF RunFile, SchemaOf, DropUsers, Alters
<1>5. CASE from = 2 /\ to = 3
  BY <1>5 DEF RunFile, SchemaOf, ScopeEntries, Alters
<1>6. CASE from = 3 /\ to = 2
  BY <1>6 DEF RunFile, SchemaOf, UnscopeEntries, Alters
<1>7. CASE from = 3 /\ to = 4
  BY <1>7 DEF RunFile, SchemaOf, CreateTags, Alters
<1>8. CASE from = 4 /\ to = 3
  BY <1>8 DEF RunFile, SchemaOf, DropTags, Alters
<1> QED
  BY <1>1, <1>2, <1>3, <1>4, <1>5, <1>6, <1>7, <1>8 DEF RunFile

\* A file keeps the owners of the notes in order.
LEMMA FileKeepsOwners ==
    ASSUME NEW from, NEW to, NotesOwned, RunFile(from, to),
           notes \subseteq Ids \cup {NULL}, people \subseteq Ids
    PROVE  NotesOwned' /\ notes' \subseteq Ids \cup {NULL} /\ people' \subseteq Ids
<1>1. CASE CreateEntries
  BY <1>1 DEF CreateEntries, Alters, NotesOwned
<1>2. CASE DropEntries
  BY <1>2 DEF DropEntries, Alters, NotesOwned
<1>3. CASE CreateUsers
  BY <1>3 DEF CreateUsers, Alters, NotesOwned
<1>4. CASE DropUsers
  BY <1>4 DEF DropUsers, Alters, NotesOwned
<1>5. CASE ScopeEntries
  BY <1>5 DEF ScopeEntries, Alters, NotesOwned
<1>6. CASE UnscopeEntries
  BY <1>6 DEF UnscopeEntries, Alters, NotesOwned
<1>7. CASE CreateTags
  BY <1>7 DEF CreateTags, Alters, NotesOwned
<1>8. CASE DropTags
  BY <1>8 DEF DropTags, Alters, NotesOwned
<1> QED
  BY <1>1, <1>2, <1>3, <1>4, <1>5, <1>6, <1>7, <1>8 DEF RunFile

\* Different versions have different schemas.
LEMMA VersionsDiffer ==
    ASSUME NEW m \in 0..Last, NEW n \in 0..Last, SchemaOf(m) = SchemaOf(n)
    PROVE  m = n
<1>1. \A k \in 0..Last : /\ "entries" \in SchemaOf(k) <=> k >= 1
                         /\ "users" \in SchemaOf(k) <=> k >= 2
                         /\ "user_id_not_null" \in SchemaOf(k) <=> k >= 3
                         /\ "tags" \in SchemaOf(k) <=> k >= 4
  BY DEF SchemaOf, Last
<1> QED
  BY <1>1 DEF Last

\* Level is the version whose schema there is.
LEMMA LevelIs ==
    ASSUME NEW n \in 0..Last, objs = SchemaOf(n)
    PROVE  Level = n
  BY VersionsDiffer DEF Level

\* The empty database is that of version 0, and nobody has the lock.
LEMMA InitIInv ==
    ASSUME Init
    PROVE  IInv
<1> USE DEF Init
<1>1. objs = SchemaOf(0) /\ 0 \in 0..Last
  BY DEF SchemaOf, Last
<1>2. TypeOK
  <2>1. \E n \in 0..Last : objs = SchemaOf(n)
    BY <1>1
  <2>2. [applied |-> FALSE, v |-> 0, dirty |-> FALSE] \in [applied : BOOLEAN, v : 0..Last, dirty : BOOLEAN]
    BY DEF Last
  <2>3. [r \in Runners |-> [op |-> "none"]]
          \in [Runners -> Commands \cup {[op |-> "none"]}]
    OBVIOUS
  <2>4. [r \in Runners |-> [applied |-> FALSE, v |-> 0, dirty |-> FALSE]]
          \in [Runners -> [applied : BOOLEAN, v : 0..Last, dirty : BOOLEAN]]
    BY <2>2
  <2>5. cmd \in [Runners -> Commands \cup {[op |-> "none"]}]
    BY <2>3
  <2>6. out \in [Runners -> [applied : BOOLEAN, v : 0..Last, dirty : BOOLEAN]]
    BY <2>4
  <2>7. notes \subseteq Ids \cup {NULL} /\ people \subseteq Ids
    OBVIOUS
  <2>8. pc \in [Runners -> {"idle", "parse", "opened", "locked", "next", "marked",
                            "applied", "report", "exit"}]
    OBVIOUS
  <2>9. version \in 0..Last /\ lock \in Runners \cup {None}
    BY DEF Last
  <2>12. dirty \in BOOLEAN
    BY Zenon
  <2>10. cur \in [Runners -> 0..Last] /\ left \in [Runners -> Int]
    BY DEF Last
  <2>11. code \in [Runners -> 0..2]
    OBVIOUS
  <2> QED BY <2>1, <2>5, <2>6, <2>7, <2>8, <2>9, <2>10, <2>11,
            <2>12 DEF TypeOK
<1>3. Holders /\ OnTrack /\ CleanIsTrue /\ Near /\ NotesOwned
  BY <1>1 DEF Holders, OnTrack, CleanIsTrue, Near, NotesOwned
<1> QED
  BY <1>2, <1>3 DEF IInv

\* A run that fails leaves with its exit code and the database as it was.
LEMMA FailureExits ==
    ASSUME NEW r,
           Usage(r) \/ LockTimeout(r) \/ RefuseDirty(r)
             \/ FileFails(r) \/ TooFew(r) \/ Crash(r)
    PROVE  (Exit(r, 1) \/ Exit(r, 2)) /\ UNCHANGED <<database, mark, runner>>
  BY DEF Usage, LockTimeout, RefuseDirty, FileFails, TooFew, Crash

\* A step keeps the types, and the schema that of a version.
LEMMA TypesStep ==
    ASSUME IInv, [Next]_vars
    PROVE  TypeOK'
<1> USE MigrationsAssumption DEF IInv, TypeOK, Goes, Exit, Unlocks, database, mark, runner
<1>1. CASE UNCHANGED vars
  BY <1>1 DEF vars
<1>2. ASSUME NEW r \in Runners,
             Usage(r) \/ LockTimeout(r) \/ RefuseDirty(r)
               \/ FileFails(r) \/ TooFew(r) \/ Crash(r)
      PROVE  TypeOK'
  <2>1. PICK n \in {1, 2} : Exit(r, n)
    BY <1>2, FailureExits
  <2>2. UNCHANGED <<database, mark, runner>>
    BY <1>2, FailureExits
  <2>3. pc' \in [Runners -> {"idle", "parse", "opened", "locked", "next", "marked",
                             "applied", "report", "exit"}]
    BY <2>1
  <2>4. code' \in [Runners -> 0..2] /\ lock' \in Runners \cup {None}
    BY <2>1
  <2> QED BY <2>2, <2>3, <2>4
<1>3. ASSUME NEW r \in Runners, Invoke(r)
      PROVE  TypeOK'
  BY <1>3 DEF Invoke
<1>4. ASSUME NEW r \in Runners, Open(r)
      PROVE  TypeOK'
  BY <1>4 DEF Open
<1>5. ASSUME NEW r \in Runners, TakeLock(r) \/ ReadVersion(r)
      PROVE  TypeOK'
  <2>1. cmd[r].op = "down" => cmd[r].n \in Int
    <3>1. cmd[r] \in Commands \cup {[op |-> "none"]}
      BY DEF TypeOK
    <3>2. cmd[r].op = "down" => cmd[r] \in [op : {"down"}, n : Counts]
      BY <3>1 DEF Commands
    <3> QED BY <3>2
  <2> QED BY <1>5, <2>1 DEF TakeLock, ReadVersion
<1>6. ASSUME NEW r \in Runners, MarkDirty(r)
      PROVE  TypeOK'
  BY <1>6 DEF MarkDirty, OnTrack, Target, More, Last
<1>7. ASSUME NEW r \in Runners, ApplyFile(r)
      PROVE  TypeOK'
  <2>1. objs' = SchemaOf(Target(r)) /\ Target(r) \in 0..Last
    BY <1>7, FileTurns DEF ApplyFile, OnTrack
  <2>2. notes' \subseteq Ids \cup {NULL} /\ people' \subseteq Ids
    BY <1>7, FileKeepsOwners DEF ApplyFile
  <2> QED BY <1>7, <2>1, <2>2 DEF ApplyFile
<1>8. ASSUME NEW r \in Runners, ClearDirty(r)
      PROVE  TypeOK'
  <2>1. version' = version /\ dirty' = FALSE /\ version = Target(r)
    BY <1>8 DEF ClearDirty, OnTrack
  <2>2. cur' \in [Runners -> 0..Last]
    BY <1>8, <2>1 DEF ClearDirty
  <2>3. left' \in [Runners -> Int]
    BY <1>8 DEF ClearDirty
  <2> QED BY <1>8, <2>1, <2>2, <2>3 DEF ClearDirty
<1>9. ASSUME NEW r \in Runners, Finish(r)
      PROVE  TypeOK'
  BY <1>9 DEF Finish
<1>10. ASSUME NEW r \in Runners, Report(r)
      PROVE  TypeOK'
  <2>1. /\ [applied |-> FALSE, v |-> 0, dirty |-> FALSE]
             \in [applied : BOOLEAN, v : 0..Last, dirty : BOOLEAN]
        /\ [applied |-> TRUE, v |-> version, dirty |-> dirty]
             \in [applied : BOOLEAN, v : 0..Last, dirty : BOOLEAN]
    BY DEF Last
  <2> QED BY <1>10, <2>1 DEF Report
<1>11. CASE ForceVersion
  BY <1>11 DEF ForceVersion, Last
<1>12. CASE Register
  BY <1>12 DEF Register
<1>13. CASE CreateEntry
  BY <1>13 DEF CreateEntry
<1> QED BY <1>1, <1>2, <1>3, <1>4, <1>5, <1>6, <1>7, <1>8, <1>9, <1>10,
           <1>11, <1>12, <1>13 DEF Next, Step

\* The lock passes from one process to another only when it is free.
LEMMA HoldersStep ==
    ASSUME IInv, [Next]_vars
    PROVE  Holders'
<1> USE MigrationsAssumption DEF IInv, TypeOK, Holders, Goes, Exit, Unlocks, database, mark, runner
<1>1. CASE UNCHANGED vars
  BY <1>1 DEF vars
<1>2. ASSUME NEW r \in Runners,
             Usage(r) \/ LockTimeout(r) \/ RefuseDirty(r)
               \/ FileFails(r) \/ TooFew(r) \/ Crash(r)
      PROVE  Holders'
  BY <1>2, FailureExits
<1>3. ASSUME NEW r \in Runners, Invoke(r) \/ Open(r)
      PROVE  Holders'
  BY <1>3 DEF Invoke, Open
<1>4. ASSUME NEW r \in Runners, TakeLock(r) \/ ReadVersion(r)
      PROVE  Holders'
  BY <1>4 DEF TakeLock, ReadVersion
<1>5. ASSUME NEW r \in Runners, MarkDirty(r) \/ ApplyFile(r) \/ ClearDirty(r)
      PROVE  Holders'
  BY <1>5 DEF MarkDirty, ApplyFile, ClearDirty
<1>6. ASSUME NEW r \in Runners, Finish(r)
      PROVE  Holders'
  BY <1>6 DEF Finish
<1>7. ASSUME NEW r \in Runners, Report(r)
      PROVE  Holders'
  BY <1>7 DEF Report
<1>8. CASE ForceVersion \/ Register \/ CreateEntry
  BY <1>8 DEF ForceVersion, Register, CreateEntry, Last
<1> QED BY <1>1, <1>2, <1>3, <1>4, <1>5, <1>6, <1>7, <1>8 DEF Next, Step

\* Only the owner of the lock writes the mark and runs a file.
LEMMA OnTrackStep ==
    ASSUME IInv, [Next]_vars
    PROVE  OnTrack'
<1> USE MigrationsAssumption DEF IInv, TypeOK, Holders, OnTrack, Goes, Exit, Unlocks, Target, More, database, mark, runner
<1>1. CASE UNCHANGED vars
  BY <1>1 DEF vars
<1>2. ASSUME NEW r \in Runners,
             Usage(r) \/ LockTimeout(r) \/ RefuseDirty(r)
               \/ FileFails(r) \/ TooFew(r) \/ Crash(r)
      PROVE  OnTrack'
  BY <1>2, FailureExits
<1>3. ASSUME NEW r \in Runners, Invoke(r) \/ Open(r)
      PROVE  OnTrack'
  BY <1>3 DEF Invoke, Open
<1>4. ASSUME NEW r \in Runners, TakeLock(r)
      PROVE  OnTrack'
  BY <1>4 DEF TakeLock
<1>5. ASSUME NEW r \in Runners, ReadVersion(r)
      PROVE  OnTrack'
  BY <1>5 DEF ReadVersion
<1>6. ASSUME NEW r \in Runners, MarkDirty(r)
      PROVE  OnTrack'
  BY <1>6 DEF MarkDirty, CleanIsTrue, Last
<1>7. ASSUME NEW r \in Runners, ApplyFile(r)
      PROVE  OnTrack'
  <2>1. objs' = SchemaOf(version)
    BY <1>7, FileTurns DEF ApplyFile
  <2> QED BY <1>7, <2>1 DEF ApplyFile
<1>8. ASSUME NEW r \in Runners, ClearDirty(r)
      PROVE  OnTrack'
  BY <1>8 DEF ClearDirty
<1>9. ASSUME NEW r \in Runners, Finish(r)
      PROVE  OnTrack'
  BY <1>9 DEF Finish
<1>10. ASSUME NEW r \in Runners, Report(r)
      PROVE  OnTrack'
  BY <1>10 DEF Report
<1>11. CASE ForceVersion
  BY <1>11 DEF ForceVersion, Last
<1>12. CASE Register \/ CreateEntry
  BY <1>12 DEF Register, CreateEntry
<1> QED BY <1>1, <1>2, <1>3, <1>4, <1>5, <1>6, <1>7, <1>8, <1>9, <1>10,
           <1>11, <1>12 DEF Next, Step

\* A clean version stays true.
LEMMA CleanStep ==
    ASSUME IInv, [Next]_vars
    PROVE  CleanIsTrue'
<1> USE MigrationsAssumption DEF IInv, TypeOK, Holders, OnTrack, CleanIsTrue, Goes, Exit, Unlocks, database, mark, runner
<1>1. CASE UNCHANGED vars
  BY <1>1 DEF vars
<1>2. ASSUME NEW r \in Runners,
             Usage(r) \/ LockTimeout(r) \/ RefuseDirty(r)
               \/ FileFails(r) \/ TooFew(r) \/ Crash(r)
      PROVE  CleanIsTrue'
  BY <1>2, FailureExits
<1>3. ASSUME NEW r \in Runners, Invoke(r) \/ Open(r) \/ TakeLock(r) \/ ReadVersion(r) \/ Finish(r) \/ Report(r)
      PROVE  CleanIsTrue'
  BY <1>3 DEF Invoke, Open, TakeLock, ReadVersion, Finish, Report
<1>4. ASSUME NEW r \in Runners, MarkDirty(r)
      PROVE  CleanIsTrue'
  BY <1>4 DEF MarkDirty
<1>5. ASSUME NEW r \in Runners, ApplyFile(r)
      PROVE  CleanIsTrue'
  BY <1>5 DEF ApplyFile
<1>6. ASSUME NEW r \in Runners, ClearDirty(r)
      PROVE  CleanIsTrue'
  BY <1>6 DEF ClearDirty
<1>7. CASE ForceVersion
  BY <1>7 DEF ForceVersion, Last
<1>8. CASE Register \/ CreateEntry
  BY <1>8 DEF Register, CreateEntry
<1> QED BY <1>1, <1>2, <1>3, <1>4, <1>5, <1>6, <1>7, <1>8 DEF Next, Step

\* A dirty version stays within a file of the schema.
LEMMA NearStep ==
    ASSUME IInv, [Next]_vars
    PROVE  Near'
<1> USE MigrationsAssumption DEF IInv, TypeOK, Holders, OnTrack, CleanIsTrue, Near, Goes, Exit, Unlocks, database, mark, runner
<1>1. CASE UNCHANGED vars
  BY <1>1 DEF vars
<1>2. ASSUME NEW r \in Runners,
             Usage(r) \/ LockTimeout(r) \/ RefuseDirty(r)
               \/ FileFails(r) \/ TooFew(r) \/ Crash(r)
      PROVE  Near'
  BY <1>2, FailureExits
<1>3. ASSUME NEW r \in Runners, Invoke(r) \/ Open(r) \/ TakeLock(r) \/ ReadVersion(r) \/ Finish(r) \/ Report(r)
      PROVE  Near'
  BY <1>3 DEF Invoke, Open, TakeLock, ReadVersion, Finish, Report
<1>4. ASSUME NEW r \in Runners, MarkDirty(r)
      PROVE  Near'
  BY <1>4 DEF MarkDirty, Target, Last
<1>5. ASSUME NEW r \in Runners, ApplyFile(r)
      PROVE  Near'
  <2>1. objs' = SchemaOf(version) /\ version \in 0..Last
    BY <1>5, FileTurns DEF ApplyFile
  <2> QED BY <1>5, <2>1 DEF ApplyFile, Last
<1>6. ASSUME NEW r \in Runners, ClearDirty(r)
      PROVE  Near'
  BY <1>6 DEF ClearDirty
<1>7. CASE ForceVersion
  BY <1>7 DEF ForceVersion, Last
<1>8. CASE Register \/ CreateEntry
  BY <1>8 DEF Register, CreateEntry
<1> QED BY <1>1, <1>2, <1>3, <1>4, <1>5, <1>6, <1>7, <1>8 DEF Next, Step

\* A note keeps an owner that exists.
LEMMA OwnersStep ==
    ASSUME IInv, [Next]_vars
    PROVE  NotesOwned'
<1> USE MigrationsAssumption DEF IInv, TypeOK, NotesOwned, Goes, Exit, Unlocks, database, mark, runner
<1>1. CASE UNCHANGED vars
  BY <1>1 DEF vars
<1>2. ASSUME NEW r \in Runners,
             Usage(r) \/ LockTimeout(r) \/ RefuseDirty(r)
               \/ FileFails(r) \/ TooFew(r) \/ Crash(r)
      PROVE  NotesOwned'
  BY <1>2, FailureExits
<1>3. ASSUME NEW r \in Runners, Invoke(r) \/ Open(r) \/ TakeLock(r) \/ ReadVersion(r) \/ Finish(r) \/ Report(r)
      PROVE  NotesOwned'
  BY <1>3 DEF Invoke, Open, TakeLock, ReadVersion, Finish, Report
<1>4. ASSUME NEW r \in Runners, MarkDirty(r) \/ ClearDirty(r)
      PROVE  NotesOwned'
  BY <1>4 DEF MarkDirty, ClearDirty
<1>5. ASSUME NEW r \in Runners, ApplyFile(r)
      PROVE  NotesOwned'
  BY <1>5, FileKeepsOwners DEF ApplyFile
<1>6. CASE ForceVersion
  BY <1>6 DEF ForceVersion, Last
<1>7. CASE Register
  BY <1>7 DEF Register
<1>8. CASE CreateEntry
  BY <1>8 DEF CreateEntry
<1> QED BY <1>1, <1>2, <1>3, <1>4, <1>5, <1>6, <1>7, <1>8 DEF Next, Step

\* The inductive invariant of the migrations.
THEOREM MigrationsInvariant == Spec => []IInv
<1>1. IInv /\ [Next]_vars => IInv'
  BY TypesStep, HoldersStep, OnTrackStep, CleanStep, NearStep, OwnersStep DEF IInv
<1> QED BY InitIInv, <1>1, PTL DEF Spec

\* The schema is always that of some version, and everything has its type.
THEOREM MigrationsTyped == Spec => []TypeOK
<1>1. IInv => TypeOK
  BY DEF IInv
<1> QED BY <1>1, MigrationsInvariant, PTL

\* A clean version is the truth about the schema, whoever migrates, however
\* many at once, and wherever they stop.
THEOREM CleanVersionsAreTrue == Spec => []CleanIsTrue
<1>1. IInv => CleanIsTrue
  BY DEF IInv
<1> QED BY <1>1, MigrationsInvariant, PTL

\* A dirty version is at most one file away from the schema.
THEOREM DirtyVersionsAreNear == Spec => []DirtyIsNear
<1>1. IInv => DirtyIsNear
  BY LevelIs DEF IInv, Near, DirtyIsNear
<1> QED BY <1>1, MigrationsInvariant, PTL

\* Notes have owners that exist, down to 000001 and up again.
THEOREM NotesKeepOwners == Spec => []NotesOwned
<1>1. IInv => NotesOwned
  BY DEF IInv
<1> QED BY <1>1, MigrationsInvariant, PTL

\* A run that succeeds has done all it was asked for, and left it confirmed.
THEOREM SuccessesAreComplete == Spec => SuccessIsComplete
<1>1. ASSUME IInv, [Next]_vars, NEW r \in Runners,
             pc[r] \notin {"parse", "report"}, pc'[r] = "report"
      PROVE  /\ objs = SchemaOf(version) /\ ~dirty
             /\ cmd[r].op = "down" => left[r] = 0
             /\ cmd[r].op = "up" => version = Last
  <2> USE <1>1 DEF IInv, TypeOK, Goes, Exit
  <2>1. pc[r] = "next" /\ ~More(r) /\ left[r] = 0
    <3>1. CASE UNCHANGED vars
      BY <3>1 DEF vars
    <3>2. CASE ForceVersion \/ Register \/ CreateEntry
      BY <3>2 DEF ForceVersion, Register, CreateEntry
    <3>3. ASSUME NEW q \in Runners,
                 Usage(q) \/ LockTimeout(q) \/ RefuseDirty(q) \/ FileFails(q)
                   \/ TooFew(q) \/ Crash(q) \/ Report(q)
          PROVE  FALSE
      BY <3>3 DEF Usage, LockTimeout, RefuseDirty, FileFails, TooFew, Crash, Report
    <3>4. ASSUME NEW q \in Runners,
                 Invoke(q) \/ Open(q) \/ TakeLock(q) \/ ReadVersion(q)
                   \/ MarkDirty(q) \/ ApplyFile(q) \/ ClearDirty(q)
          PROVE  FALSE
      BY <3>4 DEF Invoke, Open, TakeLock, ReadVersion, MarkDirty, ApplyFile, ClearDirty
    <3>5. ASSUME NEW q \in Runners, Finish(q)
          PROVE  pc[r] = "next" /\ ~More(r) /\ left[r] = 0
      BY <3>5 DEF Finish
    <3> QED BY <3>1, <3>2, <3>3, <3>4, <3>5 DEF Next, Step
  <2>2. ~dirty /\ version = cur[r] /\ objs = SchemaOf(version)
    BY <2>1 DEF OnTrack, CleanIsTrue
  <2>3. cmd[r].op = "up" => version = Last
    BY <2>1, <2>2 DEF More, Last
  <2> QED BY <2>1, <2>2, <2>3
<1>2. IInv /\ [Next]_vars =>
        [\A r \in Runners : pc[r] \notin {"parse", "report"} /\ pc'[r] = "report" =>
        /\ objs = SchemaOf(version) /\ ~dirty
        /\ cmd[r].op = "down" => left[r] = 0
        /\ cmd[r].op = "up" => version = Last]_vars
  BY <1>1
<1> QED BY <1>2, MigrationsInvariant, PTL DEF Spec, SuccessIsComplete

\* What a step does to the mark, the schema and the process at work is a step of
\* the ladder, or nothing.
LEMMA Climbs ==
    ASSUME IInv, IInv', [Next]_vars
    PROVE  [SchemaLadder!Next]_(SchemaLadder!vars)
<1> USE DEF SchemaLadder!Next, SchemaLadder!vars, SchemaLadder!Passes
<1> DEFINE At(s) == \E r \in Runners : pc[r] = s
<1>1. \A q, r \in Runners : pc[q] \in {"marked", "applied"}
                              /\ pc[r] \in {"locked", "next", "marked", "applied"} => q = r
  BY DEF IInv, Holders
<1>2. \A r \in Runners : pc[r] \in {"marked", "applied"} => dirty
  BY DEF IInv, OnTrack
<1>3. objs' = objs => Level' = Level
  BY DEF Level, SchemaOf
<1>4. ASSUME objs' = objs, dirty' = dirty,
             \A r \in Runners : pc[r] # pc'[r] => {pc[r], pc'[r]} \cap {"marked", "applied"} = {}
      PROVE  UNCHANGED <<Level, Status>>
  <2>1. \A r \in Runners : (pc[r] = "marked" <=> pc'[r] = "marked")
                           /\ (pc[r] = "applied" <=> pc'[r] = "applied")
    BY <1>4
  <2> QED BY <1>3, <1>4, <2>1 DEF Status
<1> USE DEF IInv, TypeOK, Goes, Exit, database, mark, runner
<1>5. CASE UNCHANGED vars
  BY <1>4, <1>5 DEF vars
<1>6. CASE Register \/ CreateEntry
  BY <1>4, <1>6 DEF Register, CreateEntry
<1>7. ASSUME NEW r \in Runners,
             Invoke(r) \/ Open(r) \/ TakeLock(r) \/ ReadVersion(r) \/ Finish(r)
      PROVE  UNCHANGED <<Level, Status>>
  BY <1>4, <1>7 DEF Invoke, Open, TakeLock, ReadVersion, Finish
<1>8. ASSUME NEW r \in Runners,
             Usage(r) \/ LockTimeout(r) \/ RefuseDirty(r) \/ TooFew(r) \/ Report(r)
      PROVE  UNCHANGED <<Level, Status>>
  BY <1>4, <1>8 DEF Usage, LockTimeout, RefuseDirty, TooFew, Report
<1>9. ASSUME NEW r \in Runners, FileFails(r) \/ Crash(r)
      PROVE  UNCHANGED <<Level, Status>> \/ SchemaLadder!Abandon
  <2>1. objs' = objs /\ dirty' = dirty /\ pc' = [pc EXCEPT ![r] = "exit"]
    BY <1>9 DEF FileFails, Crash
  <2>2. CASE pc[r] \in {"marked", "applied"}
    <3>1. Status \in {"moving", "moved"}
      BY <1>2, <2>2 DEF Status
    <3>2. \A q \in Runners : pc'[q] \notin {"marked", "applied"}
      BY <1>1, <2>1, <2>2
    <3>3. Status' = "broken"
      BY <1>2, <2>1, <2>2, <3>2 DEF Status
    <3> QED BY <1>3, <2>1, <3>1, <3>3 DEF SchemaLadder!Abandon
  <2>3. CASE pc[r] \notin {"marked", "applied"}
    BY <1>4, <2>1, <2>3
  <2> QED BY <2>2, <2>3
<1>10. ASSUME NEW r \in Runners, MarkDirty(r)
       PROVE  SchemaLadder!Announce
  <2>1. ~dirty /\ dirty' /\ pc'[r] = "marked" /\ objs' = objs
    BY <1>10 DEF MarkDirty, OnTrack
  <2> QED BY <1>3, <2>1 DEF Status, SchemaLadder!Announce
<1>11. ASSUME NEW r \in Runners, ApplyFile(r)
       PROVE  SchemaLadder!Move
  <2>1. /\ dirty /\ dirty' /\ pc[r] = "marked" /\ pc' = [pc EXCEPT ![r] = "applied"]
        /\ objs = SchemaOf(cur[r]) /\ version = Target(r) /\ version' = version
    BY <1>11 DEF ApplyFile, OnTrack
  <2>2. objs' = SchemaOf(version) /\ (version = cur[r] + 1 \/ version = cur[r] - 1)
    BY <1>11, <2>1, FileTurns DEF ApplyFile
  <2>3. Level = cur[r] /\ Level' = version
    <3>1. Level = cur[r]
      BY <2>1, LevelIs
    <3>2. \A n \in 0..Last : objs' = SchemaOf(n) => Level' = n
      BY VersionsDiffer DEF Level
    <3> QED BY <2>2, <3>1, <3>2
  <2>4. Status = "moving"
    BY <2>1 DEF Status
  <2>5. \A q \in Runners : pc'[q] # "marked"
    BY <1>1, <2>1
  <2>6. Status' = "moved"
    BY <2>1, <2>5 DEF Status
  <2> QED BY <2>2, <2>3, <2>4, <2>6 DEF SchemaLadder!Move
<1>12. ASSUME NEW r \in Runners, ClearDirty(r)
       PROVE  SchemaLadder!Confirm
  <2>1. dirty /\ ~dirty' /\ pc[r] = "applied" /\ objs' = objs
    BY <1>12 DEF ClearDirty, OnTrack
  <2>2. \A q \in Runners : pc[q] # "marked"
    BY <1>1, <2>1
  <2> QED BY <1>3, <2>1, <2>2 DEF Status, SchemaLadder!Confirm
<1>13. CASE ForceVersion
  <2>1. dirty /\ ~dirty' /\ lock = None /\ objs' = objs
    BY <1>13 DEF ForceVersion
  <2>2. \A q \in Runners : pc[q] \notin {"marked", "applied"}
    BY <2>1, MigrationsAssumption DEF Holders
  <2> QED BY <1>3, <2>1, <2>2 DEF Status, SchemaLadder!Declare
<1> QED BY <1>5, <1>6, <1>7, <1>8, <1>9, <1>10, <1>11, <1>12, <1>13 DEF Next, Step

\* The migrations implement the ladder: one version at a time, each announced and
\* confirmed, and after a run that stopped half-way no other until the version is
\* declared by hand.
THEOREM MigrationsClimb == Spec => SchemaClimbs
<1>1. Init => SchemaLadder!Init
  <2>1. Init => objs = SchemaOf(0) /\ 0 \in 0..Last
    BY DEF Init, SchemaOf, Last
  <2> QED BY <2>1, LevelIs DEF Init, Status, SchemaLadder!Init
<1>2. IInv /\ IInv' /\ [Next]_vars => [SchemaLadder!Next]_(SchemaLadder!vars)
  BY Climbs
<1> QED BY <1>1, <1>2, MigrationsInvariant, PTL
        DEF Spec, SchemaClimbs, SchemaLadder!Spec

=============================================================================
