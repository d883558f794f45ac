----------------------------- MODULE Migrations -----------------------------
(***************************************************************************)
(* life-migrate (cmd/life-migrate, db/migrate.go) and the files of         *)
(* db/migrations, run by several processes that may stop anywhere.         *)
(*                                                                         *)
(* golang-migrate is outside the repository.  As db/migrate.go uses it:    *)
(* opening it creates schema_migrations under an advisory lock; up and     *)
(* down take the lock, refuse a dirty version, and then, file by file,     *)
(* write the target version as dirty, run the file (one simple query, so   *)
(* one implicit transaction) and write it as clean.                        *)
(***************************************************************************)
EXTENDS Integers, FiniteSets

CONSTANTS
    Runners,   \* processes that run life-migrate
    Counts,    \* values of -n
    Ids,       \* ids of users
    NULL,      \* the owner of a note from before there were users
    None       \* nobody holds the lock

ASSUME MigrationsAssumption ==
    Counts \subseteq Int /\ NULL \notin Ids /\ None \notin Runners

Last == 4

VARIABLES
    objs,     \* tables, constraints and indexes that exist
    notes,    \* owners of the rows of entries
    people,   \* ids in users
    version,  \* schema_migrations.version, 0 for the nil version
    dirty,    \* schema_migrations.dirty
    lock,     \* who holds the advisory lock
    cmd,      \* the command line of each runner
    pc,       \* where it is
    cur,      \* the version it has reached
    left,     \* files it still has to run down
    out,      \* what Version told it
    code      \* its exit code

database == <<objs, notes, people>>
mark     == <<version, dirty>>
runner   == <<cmd, cur, left, out>>
vars     == <<database, mark, lock, runner, pc, code>>

\* The schema after the first n files.
SchemaOf(n) ==
    (IF n >= 1 THEN {"entries"} ELSE {})
    \cup (IF n \in 1..2 THEN {"entry_date_idx"} ELSE {})
    \cup (IF n >= 2 THEN {"users", "user_id_fkey"} ELSE {})
    \cup (IF n >= 3 THEN {"user_id_not_null", "user_id_entry_date_idx"} ELSE {})
    \cup (IF n >= 4 THEN {"tags", "entry_tags"} ELSE {})

-----------------------------------------------------------------------------
(* The files. *)

Alters(needs, drops, adds) ==
    /\ needs \subseteq objs /\ drops \subseteq objs /\ adds \cap objs = {}
    /\ objs' = (objs \ drops) \cup adds

CreateEntries ==
    Alters({}, {}, {"entries", "entry_date_idx"}) /\ UNCHANGED <<notes, people>>

DropEntries ==
    /\ Alters({}, {"entries", "entry_date_idx"}, {})
    /\ notes' = {} /\ UNCHANGED people

\* Mutant: the foreign key is added NOT VALID.
CreateUsers_NotValid ==
    /\ Alters({"entries"}, {}, {"users", "user_id_fkey"})
    /\ UNCHANGED <<notes, people>>

\* The new users is empty, so the foreign key accepts only NULL.
CreateUsers ==
    /\ Alters({"entries"}, {}, {"users", "user_id_fkey"})
    /\ notes \subseteq {NULL} /\ UNCHANGED <<notes, people>>

\* The rows of entries keep their user_id.
DropUsers ==
    /\ Alters({}, {"users", "user_id_fkey"}, {})
    /\ people' = {} /\ UNCHANGED notes

\* Mutant: the file forgets DROP INDEX.
ScopeEntries_KeepsIndex ==
    /\ Alters({}, {}, {"user_id_not_null", "user_id_entry_date_idx"})
    /\ notes' = notes \ {NULL} /\ UNCHANGED people

ScopeEntries ==
    /\ Alters({}, {"entry_date_idx"}, {"user_id_not_null", "user_id_entry_date_idx"})
    /\ notes' = notes \ {NULL} /\ UNCHANGED people

\* Mutant: the file forgets DROP INDEX.
UnscopeEntries_KeepsIndex ==
    /\ Alters({}, {"user_id_not_null"}, {"entry_date_idx"})
    /\ UNCHANGED <<notes, people>>

UnscopeEntries ==
    /\ Alters({}, {"user_id_not_null", "user_id_entry_date_idx"}, {"entry_date_idx"})
    /\ UNCHANGED <<notes, people>>

CreateTags ==
    Alters({"entries", "users"}, {}, {"tags", "entry_tags"}) /\ UNCHANGED <<notes, people>>

DropTags == Alters({}, {"tags", "entry_tags"}, {}) /\ UNCHANGED <<notes, people>>

\* The file between two versions next to each other.
RunFile(from, to) ==
    \/ from = 0 /\ to = 1 /\ CreateEntries
    \/ from = 1 /\ to = 0 /\ DropEntries
    \/ from = 1 /\ to = 2 /\ CreateUsers
    \/ from = 2 /\ to = 1 /\ DropUsers
    \/ from = 2 /\ to = 3 /\ ScopeEntries
    \/ from = 3 /\ to = 2 /\ UnscopeEntries
    \/ from = 3 /\ to = 4 /\ CreateTags
    \/ from = 4 /\ to = 3 /\ DropTags

-----------------------------------------------------------------------------
(* life-migrate. *)

Commands == [op : {"up", "version", "other"}] \cup [op : {"down"}, n : Counts]

Init ==
    /\ objs = {} /\ notes = {} /\ people = {}
    /\ version = 0 /\ dirty = FALSE /\ lock = None
    /\ cmd = [r \in Runners |-> [op |-> "none"]]
    /\ pc = [r \in Runners |-> "idle"]
    /\ cur = [r \in Runners |-> 0] /\ left = [r \in Runners |-> 0]
    /\ out = [r \in Runners |-> [applied |-> FALSE, v |-> 0, dirty |-> FALSE]]
    /\ code = [r \in Runners |-> 0]

Goes(r, from, to) == pc[r] = from /\ pc' = [pc EXCEPT ![r] = to]
Unlocks(r) == lock' = IF lock = r THEN None ELSE lock

\* The process ends, and with it its session and its lock.
Exit(r, n) ==
    /\ pc' = [pc EXCEPT ![r] = "exit"]
    /\ code' = [code EXCEPT ![r] = n]
    /\ Unlocks(r)

Invoke(r) ==
    \E c \in Commands :
        /\ Goes(r, "idle", "parse")
        /\ cmd' = [cmd EXCEPT ![r] = c]
        /\ UNCHANGED <<database, mark, lock, cur, left, out, code>>

\* An unknown command or argument (2); no database, or -n below 1 (1).
Usage(r) ==
    /\ pc[r] = "parse"
    /\ \/ Exit(r, 2)
       \/ Exit(r, 1)
    /\ UNCHANGED <<database, mark, runner>>

\* newMigrate: ensureVersionTable takes the lock and releases it.
Open(r) ==
    /\ cmd[r].op # "other" /\ (cmd[r].op = "down" => cmd[r].n >= 1)
    /\ lock = None
    /\ Goes(r, "parse", IF cmd[r].op = "version" THEN "report" ELSE "opened")
    /\ UNCHANGED <<database, mark, lock, runner, code>>

\* Mutant: the driver takes no lock.
TakeLock_Shared(r) ==
    /\ Goes(r, "opened", "locked") /\ lock' = r
    /\ UNCHANGED <<database, mark, runner, code>>

TakeLock(r) ==
    /\ lock = None /\ lock' = r
    /\ Goes(r, "opened", "locked")
    /\ UNCHANGED <<database, mark, runner, code>>

\* DefaultLockTimeout, 15 s.
LockTimeout(r) ==
    /\ pc[r] = "opened" /\ lock # None
    /\ Exit(r, 1) /\ UNCHANGED <<database, mark, runner>>

\* Mutant: ErrDirty is not returned.
ReadVersion_Dirty(r) ==
    /\ Goes(r, "locked", "next")
    /\ cur' = [cur EXCEPT ![r] = version]
    /\ left' = [left EXCEPT ![r] = IF cmd[r].op = "down" THEN cmd[r].n ELSE 0]
    /\ UNCHANGED <<database, mark, lock, cmd, out, code>>

ReadVersion(r) ==
    /\ Goes(r, "locked", "next") /\ ~dirty
    /\ cur' = [cur EXCEPT ![r] = version]
    /\ left' = [left EXCEPT ![r] = IF cmd[r].op = "down" THEN cmd[r].n ELSE 0]
    /\ UNCHANGED <<database, mark, lock, cmd, out, code>>

\* Mutant: main goes on to printVersion whatever Up and Down return.
RefuseDirty_Ignored(r) ==
    /\ Goes(r, "locked", "report") /\ dirty
    /\ Unlocks(r)
    /\ UNCHANGED <<database, mark, runner, code>>

\* ErrDirty.
RefuseDirty(r) ==
    /\ pc[r] = "locked" /\ dirty
    /\ Exit(r, 1) /\ UNCHANGED <<database, mark, runner>>

Target(r) == IF cmd[r].op = "up" THEN cur[r] + 1 ELSE cur[r] - 1
More(r)   == IF cmd[r].op = "up" THEN cur[r] < Last ELSE left[r] > 0 /\ cur[r] > 0

\* SetVersion(target, true).
MarkDirty(r) ==
    /\ Goes(r, "next", "marked") /\ More(r)
    /\ version' = Target(r) /\ dirty' = TRUE
    /\ UNCHANGED <<database, lock, runner, code>>

ApplyFile(r) ==
    /\ Goes(r, "marked", "applied")
    /\ RunFile(cur[r], Target(r))
    /\ UNCHANGED <<mark, lock, runner, code>>

\* The file is refused, or the connection is lost; the mark stays.
FileFails(r) ==
    /\ pc[r] = "marked"
    /\ Exit(r, 1) /\ UNCHANGED <<database, mark, runner>>

\* SetVersion(target, false).
ClearDirty(r) ==
    /\ Goes(r, "applied", "next")
    /\ version' = Target(r) /\ dirty' = FALSE
    /\ cur' = [cur EXCEPT ![r] = Target(r)]
    /\ left' = [left EXCEPT ![r] = IF cmd[r].op = "down" THEN @ - 1 ELSE @]
    /\ UNCHANGED <<database, lock, cmd, out, code>>

\* Mutant: the lock is kept until the process ends.
Finish_Locked(r) ==
    /\ Goes(r, "next", "report") /\ ~More(r) /\ left[r] = 0
    /\ UNCHANGED <<database, mark, lock, runner, code>>

\* Everything asked for is done, or there was nothing to do: ErrNoChange is no
\* error.  The lock is released before printVersion opens the database again.
Finish(r) ==
    /\ Goes(r, "next", "report") /\ ~More(r) /\ left[r] = 0
    /\ Unlocks(r)
    /\ UNCHANGED <<database, mark, runner, code>>

\* ErrShortLimit: fewer files than -n; those there were are rolled back.
TooFew(r) ==
    /\ pc[r] = "next" /\ ~More(r) /\ left[r] > 0
    /\ Exit(r, 1) /\ UNCHANGED <<database, mark, runner>>

\* printVersion.  The nil version is reported as not applied and never dirty.
Report(r) ==
    /\ pc[r] = "report" /\ lock = None
    /\ out' = [out EXCEPT ![r] =
        IF version = 0 THEN [applied |-> FALSE, v |-> 0, dirty |-> FALSE]
                       ELSE [applied |-> TRUE, v |-> version, dirty |-> dirty]]
    /\ Exit(r, 0)
    /\ UNCHANGED <<database, mark, cmd, cur, left>>

\* The process is killed or loses its connection, anywhere.
Crash(r) ==
    /\ pc[r] \notin {"idle", "exit"}
    /\ Exit(r, 1) /\ UNCHANGED <<database, mark, runner>>

-----------------------------------------------------------------------------
(* Everybody else. *)

\* The operator mends the database and declares the version it is at (force).
ForceVersion ==
    /\ dirty /\ lock = None
    /\ dirty' = FALSE
    /\ \E n \in 0..Last : objs = SchemaOf(n) /\ version' = n
    /\ UNCHANGED <<database, lock, runner, pc, code>>

Register ==
    /\ "users" \in objs
    /\ \E u \in Ids : people' = people \cup {u}
    /\ UNCHANGED <<objs, notes, mark, lock, runner, pc, code>>

\* A note, by a user where there are users and by nobody before.
CreateEntry ==
    /\ "entries" \in objs
    /\ \E o \in (IF "user_id_fkey" \in objs THEN people ELSE {})
                \cup (IF "user_id_not_null" \in objs THEN {} ELSE {NULL}) :
        notes' = notes \cup {o}
    /\ UNCHANGED <<objs, people, mark, lock, runner, pc, code>>

Step(r) ==
    \/ Usage(r) \/ Open(r) \/ TakeLock(r) \/ LockTimeout(r) \/ ReadVersion(r)
    \/ RefuseDirty(r) \/ MarkDirty(r) \/ ApplyFile(r) \/ FileFails(r)
    \/ ClearDirty(r) \/ Finish(r) \/ TooFew(r) \/ Report(r)

Next ==
    \/ \E r \in Runners : Invoke(r) \/ Step(r) \/ Crash(r)
    \/ ForceVersion \/ Register \/ CreateEntry

Spec == Init /\ [][Next]_vars

\* A process that has been started goes on.
FairSpec == Spec /\ \A r \in Runners : WF_vars(Step(r))

=============================================================================
