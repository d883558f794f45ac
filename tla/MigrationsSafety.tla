-------------------------- MODULE MigrationsSafety --------------------------
(***************************************************************************)
(* What life-migrate keeps true of the database.                           *)
(***************************************************************************)
EXTENDS Migrations

\* A version marked dirty by a run that is no longer there.
Abandoned == dirty /\ \A r \in Runners : pc[r] \notin {"marked", "applied"}

\* The version the schema is at, if it is at one.
Level ==
    IF \E n \in 0..Last : objs = SchemaOf(n)
    THEN CHOOSE n \in 0..Last : objs = SchemaOf(n)
    ELSE -1

Status ==
    IF ~dirty THEN "still"
    ELSE IF \E r \in Runners : pc[r] = "marked" THEN "moving"
    ELSE IF \E r \in Runners : pc[r] = "applied" THEN "moved"
    ELSE "broken"

\* One type invariant: the schema is always that of some version, because a
\* file is applied as a whole.
TypeOK ==
    /\ \E n \in 0..Last : objs = SchemaOf(n)
    /\ notes \subseteq Ids \cup {NULL} /\ people \subseteq Ids
    /\ version \in 0..Last /\ dirty \in BOOLEAN /\ lock \in Runners \cup {None}
    /\ pc \in [Runners -> {"idle", "parse", "opened", "locked", "next", "marked",
                           "applied", "report", "exit"}]
    /\ cmd \in [Runners -> Commands \cup {[op |-> "none"]}]
    /\ cur \in [Runners -> 0..Last] /\ left \in [Runners -> Int]
    /\ out \in [Runners -> [applied : BOOLEAN, v : 0..Last, dirty : BOOLEAN]]
    /\ code \in [Runners -> 0..2]

\* A clean version is the truth, however many processes migrate at once and
\* wherever they stop (db/migrate.go: Up, Down; the advisory lock).
CleanIsTrue == ~dirty => objs = SchemaOf(version)

\* A dirty version is at most one file away from the truth, so that the one who
\* mends it has one file to look at (db/migrate.go: Version).
DirtyIsNear == dirty => Level \in {version - 1, version, version + 1}

\* Where the foreign key exists every note has an existing owner or none, and
\* from 000003 on every note has one: going down past 000002 and up again does
\* not let a note survive its user (migrations 000002, 000003).
NotesOwned ==
    /\ "user_id_fkey" \in objs => notes \subseteq people \cup {NULL}
    /\ "user_id_not_null" \in objs => NULL \notin notes

\* Whoever is between taking the lock and giving it back has it.
Holders == \A r \in Runners :
    pc[r] \in {"locked", "next", "marked", "applied"} => lock = r

\* The mark says what its owner is doing, and the schema is where that leaves it.
OnTrack == \A r \in Runners :
    /\ pc[r] = "next" => ~dirty /\ version = cur[r]
    /\ pc[r] = "marked" => dirty /\ version = Target(r) /\ objs = SchemaOf(cur[r])
    /\ pc[r] = "applied" => dirty /\ version = Target(r) /\ objs = SchemaOf(version)

Near == dirty =>
    \E n \in 0..Last : objs = SchemaOf(n) /\ n \in {version - 1, version, version + 1}

\* The inductive invariant: one lock, one mark and one schema, and the mark is
\* always of the file its owner is at (db/migrate.go: Up, Down).
IInv == TypeOK /\ Holders /\ OnTrack /\ CleanIsTrue /\ Near /\ NotesOwned

\* An up or a down that goes on to report a version, and so succeeds, has left a clean
\* one that is true of the schema: the newest after an up, and a down has undone as
\* many files as it was asked to, whatever the others did (db/migrate.go: Up, Down;
\* cmd/life-migrate: main).
SuccessIsComplete ==
    [][\A r \in Runners : pc[r] \notin {"parse", "report"} /\ pc'[r] = "report" =>
        /\ objs = SchemaOf(version) /\ ~dirty
        /\ cmd[r].op = "down" => left[r] = 0
        /\ cmd[r].op = "up" => version = Last]_vars

\* Whatever life-migrate was started with, it ends: nobody waits for its own
\* lock, or for one whose holder waits (cmd/life-migrate: main).
EveryRunEnds == \A r \in Runners : pc[r] # "idle" ~> pc[r] = "exit"

SchemaLadder == INSTANCE Ladder WITH level <- Level, status <- Status

\* However processes interleave and stop, the schema moves one version at a
\* time under a mark of its own, and a dirty version stops every later up and
\* down until it is declared by hand (db/migrate.go: Version; README).
SchemaClimbs == SchemaLadder!Spec

\* What the comment on Version says: `applied` is false when not one migration
\* is applied (db/migrate.go: Version).
UnappliedIsEmpty ==
    [][\A r \in Runners : pc[r] = "report" /\ pc'[r] = "exit" /\ code'[r] = 0 =>
        (~out'[r].applied => objs = {} /\ ~dirty)]_vars

=============================================================================
