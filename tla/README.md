# life-api: a verification project in TLA+

life-api keeps a journal: notes (`entries`) with tags, for several users. It is a
Go service on PostgreSQL; several tasks may serve requests at once, and all
state that outlives a request is in the database. This directory holds a model
of its core, the properties that make it correct, the TLC runs that check them
on small instances, and TLAPS proofs for all instances.

## 1. The system

| component | source | state | operations |
|---|---|---|---|
| entries service | `entries.go` | tables `entries`, `tags`, `entry_tags`; one transaction per create/update | Create, List, Get, Update, Delete; `setTags`, `uniqueTags`, `scanJournal`, `likePattern` |
| tags service | `tags.go` | the same tables | List, Update (rename), Delete |
| API design | `design/design.go` | none | what each method takes, returns and refuses |
| schema | `db/migrations/*.sql` | keys, unique indexes, cascades, IDENTITY sequences | constraints act within the statements |
| users service | `users.go` | table `users` | Register, Login, Me |
| authentication | `auth.go` | secret, clock; the user id in the request context | Issue, Verify, JWTAuth |
| request log | `reqlog.go` | a request scope shared by pointer, the status writer | RequestLog, setLogUserID |
| health check | `health.go` | none; uses a pool connection | Check |
| database connection | `db/db.go` | the connection pool | Connect |
| migrations | `db/migrate.go`, `cmd/life-migrate` | version and dirty flag in the database | Up, Down, Version |
| server lifecycle | `cmd/life/main.go`, `cmd/life/http.go` | `errc`, context, wait group, http.Server, pool | start, signal, shutdown |
| generated transport | `gen/` | none | routing, decoding, validation, security, encoding, on the server and on the client |
| command line client | `cmd/life-cli`, `gen/http/cli` | none | one command: flags, payload, request, answer |
| infrastructure | `terraform`, `scripts`, `compose.yaml` | none of the program's | |

How they interact. A request passes `http.MaxBytesHandler`, `RequestLog`, the
generated decoder and `JWTAuth`, which puts the user id of the token into the
context; the service method reads it there and talks to PostgreSQL through the
shared pool. The services share no memory: they meet only in the database, in
row locks, unique indexes and cascades. `health.Check` competes for the same
pool. `main` starts the server, waits on `errc`, cancels the context, waits for
`Shutdown` and closes the pool. `life-migrate` changes the schema from a process
of its own.

What is hard, and what makes each component correct:

- **entries and tags** (concurrency, partial failure, ordering). A create or an
  update is six statements or so in one transaction at READ COMMITTED; what
  protects it from the others is the locks each statement happens to take. Correct means:
  every call takes effect at one instant or not at all; an answered
  write has stored its answer; no link dangles or crosses users; names are
  unique per user; every request is answered though tag rows are locked in
  request order and may deadlock.
- **users, authentication**: one account per email whatever the case; a token
  authenticates the user it was issued to until it expires and no other.
- **request log**: one line per request, with the user of that request.
- **health, pool**: no deadlock on the pool (a handler holds at most one
  connection); when the check may say 503 though the database works.
- **migrations**: versions applied in order; a crash leaves the dirty mark, and
  nothing goes on before it is cleared; down and up again.
- **search** (pages of separate requests, patterns): a page has exactly the notes sought, in order; what other
  requests write between the pages may repeat a note or hide one, but only as OFFSET explains it.
- **transport and client** (two implementations of one contract, lost answers): methods see only payloads the design
  allows; nothing is lost or swapped on the way; a command is told what the method did, and when it is refused,
  nothing was done.
- **lifecycle**: after a signal the process ends; the pool is closed after the
  handlers, or with `Shutdown` having given up after 30 s.

`PROJECT.json` lists the hazards line by line.

## 2. Modules

| module | what it is |
|---|---|
| `EntryStore` | the entries and tags services on PostgreSQL, one action per statement, split where a statement may wait for a row |
| `EntryStoreSafety` | the type invariant, safety and liveness properties, the inductive invariants `IInv` and, for the answers, `PInv`; the refinement mapping and the instance of `Journal` |
| `Journal` | the abstract specification: what the API promises its clients |
| `MCEntryStore` | the calls of each TLC run |
| `EntryStoreProofs`, `JournalProofs` | its theorems: the invariants, and that it implements `Journal` |
| `Server` | the life of the process: start, signal, shutdown, exit; the requests in progress and the connection pool they share with the health check |
| `ServerSafety` | its type invariant, safety and liveness properties, the inductive invariant `GraceInv` |
| `MCServer` | the symmetry of a run |
| `ServerProofs` | its theorems |
| `Accounts` | registration, login, tokens and `me`, on the table `users`; restarts, deletions, a table built anew |
| `AccountsSafety`, `MCAccounts`, `AccountsProofs` | its properties and inductive invariant, its instances, its theorems |
| `Migrations` | `life-migrate` run by several processes, the files of `db/migrations`, the lock and the dirty mark, crashes |
| `Ladder` | the abstract specification of the migrations |
| `MigrationsSafety`, `MCMigrations`, `MigrationsProofs` | its properties, inductive invariant and refinement mapping, its instances, its theorems |
| `Search` | `List` with its conditions, order and pages, while notes are written and tags renamed |
| `SearchSafety`, `MCSearch`, `SearchProofs` | what a search promises, without the query's means, and the inductive invariant; its instances; its theorems |
| `Wire` | values, requests, decoding and errors as all the generated code has them |
| `EntriesWire`, `TagsWire`, `UsersWire` | the generated code of each service (`UsersWire` has `health` too), as operators: what the command line builds and sends, what the server decodes, what it answers, what the client hears |
| `Exchange` | one request from the command line or another client to a method and back: `ParseEndpoint`, the mux, `RequestLog`, the handlers, `JWTAuth`; it composes the four modules above |
| `Rpc` | the abstract specification of an exchange |
| `ExchangeSafety`, `MCExchange` | its properties, inductive invariant and refinement mapping; the requests of its runs |
| `WireProofs`, `ExchangeProofs` | the lemmas about the generated code; the theorems about an exchange |

The modules meet at narrow places. `Accounts` says whose token a call has, and `EntryStore` takes the user of a call as
given. `Exchange` says with which payload and user a method is entered, and which outcome becomes which answer;
what the methods do is the other modules'. `Migrations` says which schema there is, and the services run on the newest.
`Search` relies on names being unique for a user, which `EntryStore` shows (`UniqueNames`).
`EntryStore` and `Server` meet in what a request does with its connection: `EntryStore` has all of it, statement by
statement; `Server` keeps that the request holds one connection from its first statement to its last and
that a write may wait for another write.

### EntryStore and the code

A request is served by a process `p`. `pc[p]` is the statement its handler is at,
`call[p]` the decoded, authenticated request, `start[p]` the time of its BEGIN.
Committed tables are `entries`, `tags`, `links`. What a transaction has written
and not committed is its write set: `mine` (entry row), `hit` (tag rows written in
place), `made` (new `(user, name)` keys), `cut` (links deleted). A written row stays
locked until the end of its transaction, so the write sets are the lock table.

| code | actions |
|---|---|
| `Create`: BEGIN, INSERT entries, setTags, journalSelect, COMMIT | `Begin`, `InsertEntry`, `CutLink`*, (`TakeTag`, `MakeTag`)*, `ReadBack`, `Commit` |
| `Update`: BEGIN, UPDATE entries, setTags, journalSelect, COMMIT | `Begin`, `UpdateEntry` or `EntryMissing`, then as above |
| `entries.Delete`: one DELETE with its cascade | `EraseEntry` or `EntryMissing`, `CutLink`*, `Commit` |
| `tags.Update`: one UPDATE with its unique index | `LookAtTag`, `RelabelTag`, `KeepName`, `ClaimName`, `NameConflict`, `TagMissing`, `Commit` |
| `tags.Delete`: one DELETE with its cascade | `DetachTag` or `TagMissing`, `CutLink`*, `Commit` |
| `Get`, `entries.List`, `tags.List`: one SELECT | `GetEntry`, `ListEntries`, `ListTags` |
| `defer tx.Rollback` and every error return | `Refuse`, in `Fail`, `DeadlockAbort` and the not-found and conflict answers |
| error of `tx.Commit` after the commit took place | `CommitLost` |

What is assumed of PostgreSQL (marked external in the map, modelled as the code
relies on it):

- a statement that writes a row waits until no other open transaction has
  written it, then looks again at its WHERE clause on the row it finds;
- an insertion or a rename into a unique index waits for an open transaction
  that has inserted the key or is changing or deleting the row that carries it;
  ON CONFLICT then takes the row it finds or inserts its own;
- a cascade deletes the links of a row after locking the row; a link insertion
  locks the rows it names;
- every statement reads one snapshot, plus the writes of its own transaction;
  `now()` is the time of BEGIN; a rollback does not give back sequence values;
- a cycle of waiting transactions is broken by failing a member of it.

Data kept abstract: date, kind, title and body of a note are one value of `Texts`;
names are model strings; times are ticks. `ListEntries` returns the set of the
user's notes: filters, order and pages are not in this module. The call's user is
that of a verified token, so `userFromContext` never fails.

### Journal

Notes carry the *names* of their tags; there are no links, transactions or locks.
Renaming or dropping a tag changes all notes of the user in one step, and
every call has one step between `Ask` and its answer. A call answered with an error has
happened wholly or not at all (`Done`, `Break`). A note is dated at some instant within
its call (`Date`). The count in the answer of a rename is not promised (section 4).

### Server and the code

| code | actions |
|---|---|
| `main`: `db.Connect`, `NewAuth` and the `log.Fatal`s | `Connects`, `ConnectFails`, `Starts`, `ConfigFails` |
| `main`: `<-errc`, `cancel()`, `wg.Wait()`, deferred `pool.Close()` | `Receive`, `Joins`, `Exits` |
| signal goroutine: `signal.Notify`, `errc <- <-c` | `Notify`, `Signal` (it then is `"sending"` until `Receive`) |
| `handleHTTPServer` goroutine: `<-ctx.Done()`, `Shutdown` with 30 s, `wg.Done` | `ShutterStarts`, `ShutdownBegins`, `ShutdownReturns`, `GraceOver` |
| listener goroutine: `errc <- srv.ListenAndServe()` | `Listens`, `ListenFails`, `ListenEnds` |
| a connection of a client, header timeout, refusal before any query | `Accept`, `ReadRequest`, `DropSilent`, `RefuseEarly` |
| `db.Begin`, `db.Query`, `Ping`: a connection of the pool | `NeedsConn`, `AcquireIdle`, `AcquireDial`, `Dialled`, `DialFails`, `AcquireClosed` |
| statements, end of the transaction, answer | `WaitsForRow`, `GetsRow`, `Finishes`, `Replies` |
| an error or a client that leaves, with `defer tx.Rollback` | `GivesUp` |
| `health.Check`: `context.WithTimeout` of 2 s | `PingTimeout` |

`late` records that `Shutdown` gave up. Time limits are events that may happen, never durations: a timer
is enabled when what it limits has not happened.

What is assumed of the libraries: `Shutdown` closes the listener before anything else, and returns nil only
when no connection is active; a connection without a request for long is closed by `ReadHeaderTimeout`; `pgxpool`
hands out at most `MaxConns` connections, opens one when none is idle, finishes
opening one whose handler has given up and keeps it (`OrphanEnds`), refuses an acquisition after `Close`, and
`Close` returns when all connections are back. A waiting write waits for one that does not wait itself;
longer chains and cycles are `EntryStore`'s.

### Accounts and the code

| code | actions |
|---|---|
| `Register`: GenerateFromPassword, INSERT, `isUniqueViolation` | `RefuseLong`, `HashPassword`, `InsertUser`, `Conflict`, `Stored`, `NotStored` |
| `Login`: SELECT by `lower(email)`, one comparison, `Issue` | `Lookup`, `BadCredentials`, `Login` |
| `JWTAuth`, `Verify`; `Me`: SELECT by id | `RejectToken`, `JWTAuth`, `Me`, `MeGone` |
| an error of a statement | `StatementFails`, `NotStored` |
| outside the requests | `Tick`, `Restart` (perhaps with another `JWT_SECRET`), `DeleteUser` (by hand), `Rebuild` (000002 down and up) |

An insert is open between `InsertUser` and `Stored` or `NotStored`, and the unique index makes the next insert of the key wait (`KeyFree`).
A password is a value whose first 72 bytes (`Head`) are what bcrypt sees; `LongOnes` are those it refuses to hash. A token
carries `sub`, `iss`, `exp` and its key, and as history for whom and when it was issued. `Foreign` are tokens that another program made
with the same secret. `row`, `ever`, `authAt` and `compares` record what a property compares with later.

### Migrations and the code

| code | actions |
|---|---|
| `main`: flags, arguments, `-n` below 1 | `Invoke`, `Usage` |
| `newMigrate` (makes `schema_migrations`), of the command and of `printVersion` | `Open`, the guard of `Report` |
| `m.Up`, `m.Steps(-n)` | `TakeLock`, `LockTimeout`, `ReadVersion`, `RefuseDirty`, then per file `MarkDirty`, `ApplyFile` or `FileFails`, `ClearDirty`; `Finish`, `TooFew` |
| each file of `db/migrations` | `CreateEntries`, `DropEntries`, `CreateUsers`, ..., `RunFile` |
| `db.Version`, `printVersion` | `Report` |
| the process is killed; the operator | `Crash`, `ForceVersion` |
| the api, meanwhile | `Register`, `CreateEntry` |

The schema is a set of tables, constraints and indexes; of the rows there are the owners of notes (`notes`) and the ids of users.
golang-migrate is external, as `db/migrate.go` and its comments use it: an advisory lock of the session, the target written as dirty before
a file and as clean after it, a file as one implicit transaction. The operator forces only a version that the schema is really at.

`Ladder` keeps a level and what is known of a move: announced, made, confirmed, or abandoned until somebody declares the version.
The mapping takes the level from the schema, not from the version row.

### Search and the code

`List` is one page: `Where` (user, `HasTags`, `HasText`, period), `Orders` (every order the `ORDER BY` allows), `Limited`.
`likePattern` makes a pattern out of characters and `ILike` reads it as PostgreSQL does, because the escaping is what could go wrong.
`Create`, `Update`, `Delete` and `Rename` are the committed effects of the other requests. `seen` is the client's list
of ids over all pages, `atStart` what one big page would have shown at the beginning, `writes` the kinds of writes since.

### Exchange and the code

| code | actions |
|---|---|
| `life-cli`: `ParseEndpoint`, `Build*Payload`, `Encode*Request` | `Command` |
| another HTTP client | `OtherClient` |
| `RequestLog` up to `next.ServeHTTP`, and its deferred function | `Begin`, `Log`, `LogPanic` |
| the mux | `Route`, `NoRoute` |
| generated handler: decode, endpoint, encode | `Decode`, `DecodeFails`, `JWTAuth`, `RejectToken`, `Run`, `Encode` |
| `Decode*Response`, `http.Client.Timeout` | `Hear`, `HearNothing` |

A text is its length and form (`Text`), a header the sequence of its words, a body the record of its fields or what keeps it from being one;
the operators of the `*Wire` modules have the names of the generated functions. The method answers with any of its results, any of
its declared errors, another error or a panic. The server goes on when the client has left. `ParseEndpoint` refuses a command that is not
there, a flag that its flag set does not have (`FlagsOf`) and a value that `Build*Payload` refuses.

The two sides read a body differently. `Build*Payload` unmarshals a `--body` of any length (`FromFlag`); the server reads at most 1 MiB
(`maxRequestBody`) and answers 400 `decode_payload` beyond (`FromBody`). `Oversized` is the set of bodies whose JSON is longer. Nothing in the design
bounds the title and the text of a note, and a login's fields have no maximum either, so such a command is accepted, sent and refused by the server: that is one of the three
exceptions that `CommandsAgree` states (`Unbounded`), beside a body that the client does not send and an empty `--limit`.

`Rpc` has two variables for each exchange: what the method did, and what the client knows of it. A client is told the result or the named error;
or that the method failed, which says nothing of what it stored; or that it was refused, and then the method has not run and will not;
or it hears nothing.

## 3. Runs

Each run uses the `MC` module of its part. A run asks everything it can of one instance, safety,
refinement and liveness alike; the ones that end in a violation ask one thing.

| run | instance | checks |
|---|---|---|
| `race` | `EntryStore`, 1 user, 2 processes, 11 calls that cover every operation, 4 of them at most, 1 tick; symmetric processes | `ForeignKeys`, `UniqueNames`, `PInv`, `AnswerIsStored`, `JournalSpec`: `EntryStore` implements `Journal` |
| `tenants` | `EntryStore`, 2 users with each other's ids and names, 3 calls, 1 tick, fairness | `LinksSameOwner`, `OtherUsersUntouched`, `EntryIdentityFixed`, `EveryCallAnswered` |
| `updated_at` | 1 user, 3 calls, 2 ticks | `UpdatedAtAdvances`, violated |
| `rename_count` | 1 user, 3 calls | `RenameCountIsCurrent`, violated |
| `stop` | `Server`, 2 writes, 1 health check, 2 connections, 1 outage, fairness | `GracefulStop`, `GraceInv`, `StartDecides`, `CheckAnswered`, `EveryRequestEnds`, `StopEnds` |
| `signal` | 2 writes, 2 connections, 1 outage | `SignalIsGraceful`, violated |
| `tokens` | `Accounts`, 2 registrations, a login and a secured call, 2 spellings of an address, 3 passwords around 72 bytes, 2 secrets, 1 tick, and one of a restart, a deletion and a rebuild | `OnePerAddress`, `RegisterHonest`, `LoginProof`, `LoginUniform`, `TokenSound`, `MeOwner`, `IInv` |
| `stranger` | the same with 2 addresses, 1 password, 1 secret | `MeNeverStranger`, violated |
| `steps` | `Migrations`, 3 processes, `-n` of 0 and 3, one user id, fairness | `CleanIsTrue`, `DirtyIsNear`, `NotesOwned`, `IInv`, `SuccessIsComplete`, `SchemaClimbs`: `Migrations` implements `Ladder`, `EveryRunEnds` |
| `unapplied` | 3 processes | `UnappliedIsEmpty`, violated |
| `contract` | `Exchange`, one of about 330 requests for every method, and one of another user at the same time, fairness | `IInv`, `ServiceSeesDesign`, `AsAsked`, `CommandsAgree`, `StatusContract`, `OneLine`, `RpcSpec`: `Exchange` implements `Rpc`, `EveryRequestLogged` |
| `pages` | `Search`, 3 notes of 2 users on 2 dates, 8 searches, 2 writes between the pages | `IInv`, `PagesOnlyShift`, `PageIsRight` |

The runs check the inductive invariants (`IInv`, `PInv`, `GraceInv`) because the proofs rest on them. The type invariants of
`EntryStore`, `Server`, `Accounts`, `Migrations` and `Search` are conjuncts of them, that of `Exchange` follows from its `IInv`; `PInv` has
`EntryStore`'s `IInv` as a conjunct.

`EntryStore`. Two processes are enough for every pairwise race, which is where locks, cascades and
snapshots of this code meet; four calls let a third and a fourth act on what two racing calls left
behind. Entry 1 and tags 1 and 2 are the first ids drawn: calls name them before they exist, while they do, and after
their deletion. `race` covers both deadlocks of the code (upserts in opposite orders; an
update against a tag deletion), repeated and empty tag lists, renames onto a used and a free name. With three processes
the cycle of three upserts is reached too; it was explored and adds only states, so no run keeps
it. In `tenants` three calls, two of one user and one of the other in any order, are enough for one to touch what another has
made, and the third to see it. `MaxCalls` and `MaxClock` bound only how long a behaviour is. When the calls are used up nothing is
left to do, so the configurations switch deadlock checking off; that no request gets stuck is what
`EveryCallAnswered` says.

The refinement maps `notes` to the entries with the names of their tags
(`NotesView`), `catalog` to `tags`, `stamp` to the time of BEGIN, and shows an answer
once the request is over (`AnswerView`). Every read must then be the state of one instant,
and every write one step. With the rename's count in the answer it would fail.

`Server`. There is one request more than connections, so that two writes, one behind the other, can hold
the whole pool while the health check waits, and a handler that needed a second connection would have none. The
database may be down at the start and go down once more. The process ends, so this configuration and those of the other
modules, whose requests and processes come to an end too, switch deadlock checking off.

`Accounts`. `MayAsk` says which operation each request may be: two registrations that race for an address or follow
one another, a login, and a secured call with any token there is. `MaxEvents` lets one thing happen around
them: a restart, perhaps with another secret, a row deleted by hand, or the table built anew; the theorems have no such limit.
Registrations, spellings and secrets are interchangeable, since `lower()` maps both spellings to one value.

`Migrations`. Three processes are one that migrates, one that waits for the lock and one that takes it after a crash or works on
what is left. From the newest version `-n` of 3 goes past 000002, and a second time past the
first file; 0 is refused. Four files are what the repository has. A process runs one command; what a later
command would see is another process's.

`Exchange`. A request changes one field at a time to each side of each limit of the design (0, 1, 20, 21 tags; 50, 51
characters; 8, 72, 73; 100, 101; 254, 255; texts whose JSON is over 1 MiB, and a body that is over it by blanks), because the validations merge their errors and do not look
at two fields together. The second request, `GET /users/me` of another user, is there for the log, whose scope is a pointer,
and for what acts as a user.

`Search`. The contents of notes have the characters that ILIKE treats specially, upper and lower case, and one and both of the
tags; the other user's notes hold every text that is searched. Three notes on two dates have a
first, a middle and a last place; before a search there may be any notes, and two writes come between the pages.

Every property has a mutant in `PROJECT.json`: a plausible bug (a lock not waited for, a missing
`user_id` condition, a missing cascade, a deferred rollback forgotten, ...), defined
next to what it replaces, under which the run reports the property violated.

**Fairness.** `EveryCallAnswered` assumes weak fairness of each handler's next statement and of
deadlock detection: the database executes a statement that need not wait, and
`deadlock_timeout` ends a cycle. Weak fairness is enough because the calls are bounded: a
row cannot be taken away for ever. No fairness is assumed of clients, of failures or of the clock.
In `Server`, `ProcessFairness` is weak fairness of `main`, of each goroutine and of each handler, timers
included: the Go scheduler runs what can run, and timers fire. Nothing is assumed of signals, of clients or of
listener errors. The database owes nothing for `StartDecides` and `CheckAnswered`; `EveryRequestEnds` and `StopEnds` are
promised when an outage ends (`OutagesEnd`, their hypothesis), without which a handler in a query may wait as long as its client does:
the queries have no time limit of their own, and `Exits` waits for them.
In `Migrations`, `FairSpec` is weak fairness of each process that has been started; a holder of the lock that is killed gives it up with its session, and
the wait for the lock has a limit. In `Exchange` it is weak fairness of the goroutine of each request, that is, that a method returns or panics, which
`Server` is about, and of the client's waiting, which `http.Client.Timeout` ends. `Accounts` and `Search` state no liveness of their own: their requests wait for
nothing but an open insert.

## 4. Five places where code and documentation differ

- **`updated_at` can go back.** `entries.go:336-337` and `README.md:237` say an update only
  advances it. It is set to `now()`, the time of BEGIN, and the row is waited for
  afterwards. Run `updated_at`: update A begins, the clock advances, update B begins, writes and
  commits; A then writes its earlier time.
- **The `entry_count` of a rename can be stale.** `design.go:376,382` call it the number of entries carrying
  the tag. It is counted in the snapshot from before the UPDATE waits for the row. Run
  `rename_count`: a create is attaching the tag, the rename begins and waits, the create commits; the
  rename takes effect after it and answers the count without it.
- **A signal can kill a serving process.** `main.go:114-115` says SIGINT and SIGTERM stop the services gracefully.
  `signal.Notify` is called in a goroutine of its own, which nothing orders before the listener's. Run `signal`: the
  server accepts a request, the signal arrives before `Notify`, and the process is killed.
- **A token can stand for somebody else.** `users.go:159-160` says that when the user of a valid token is gone the answer is 401. `Me` looks for the
  id alone, and rolling 000002 back and applying it again starts the ids at 1. Run `stranger`: a user logs in, the table is built anew, another user registers, and
  the first one's token is answered with the second one's account. `MeOwner` shows that nothing short of that does it: a deleted user's id is not given again.
- **A half-way rollback can look like an empty database.** `db/migrate.go:92` says `applied` is false when no migration is applied. The nil version
  is reported so even when it is marked dirty. Run `unapplied`: `down` announces the rollback of 000001 and is killed; `version` then says that nothing is
  applied, although `entries` is there and every `up` is refused.

## 5. Proofs

`EntryStoreProofs` proves, for any set of requests, users, names, texts and calls and any bounds,
from `CallsAssumption` (calls have the fields of a request) and `BoundsAssumption`:

| theorem | statement |
|---|---|
| `Invariant` | `Spec => []IInv` |
| `TypeCorrect` | `Spec => []TypeOK` |
| `NoDanglingLinks` | `Spec => []ForeignKeys` |
| `OwnersAgree` | `Spec => []LinksSameOwner` |
| `NamesAreUnique` | `Spec => []UniqueNames` |
| `IdentityIsFixed` | `Spec => EntryIdentityFixed` |
| `UsersAreIsolated` | `Spec => OtherUsersUntouched` |

The argument. None of the safety invariants is inductive: a commit installs a write set, so one
must know that the write set is sound *at the time of the commit*, although other
transactions have committed since its rows were written. `IInv` says what a
transaction may rely on until it ends: the rows it wrote are there and owned by its user
(`EntryLockOK`, `TagLockOK`), the keys it made are in no table (`NameLockOK`), the
links it cut are those it has to cut (`LinkLockOK`), and no two transactions hold the same row or the same
key (`Exclusive`). The proof has one lemma per action. An action that commits nothing changes one
write set only (`LocalStep`: check that set and its exclusiveness); a commit changes the tables
(`InstallEntries`, `InstallTags`), which keeps the safety invariants (`InstallSafety`) and
the write sets of the others (`InstallOthers`) because `Exclusive` keeps them apart. The two
action properties follow from `IInv` and from the fact that only a commit writes tables (`OnlyInstallWrites`).

`JournalProofs` goes on from there, from the same assumptions:

| theorem | statement |
|---|---|
| `Promise` | `Spec => []PInv` |
| `AnswersAreStored` | `Spec => AnswerIsStored` |
| `ImplementsJournal` | `Spec => JournalSpec`, the refinement of `Journal` |

`IInv` knows nothing of answers. An answer is read back before the commit and must be what the commit stores although others commit
in between: `PInv` adds that the names upserted so far are those no longer in `todo`, each upserted once (`UpsertsOK`, which rests on `UniqueTags` leaving no name twice), that the prepared answer is the note
or tag the write set will leave (`ReplyOK`), and that the tables are finite, without which links cannot be counted (`Finite`). It is
stable because the rows an answer is made of are locked. For the refinement, every step that commits nothing leaves `NotesView`,
`catalog` and `AnswerView` alone or is `Ask`, `Begin`, a read or a refusal of `Journal`; a read and the entry count agree because links and notes with the name
correspond one to one (`CountIs`). A commit is one step of `Journal`: `CreateUpdateIs`, `DeleteIs`, `RenameIs` and `DropIs` show for each
operation that the installed write set is exactly the step's change to the notes of that user, names included, and
`OtherNotes` that no other note changes. The refinement of an update needed one more conjunct of `EntryLockOK`, that the row written is the row called
for; without it `IInv` would allow a handler that updates another note of the same user.

`ServerProofs` proves, for any set of requests and any pool size, from `PoolAssumption`:

| theorem | statement |
|---|---|
| `GraceInvariant` | `Spec => []GraceInv` |
| `StopsGracefully` | `Spec => []GracefulStop` |

`GracefulStop` is not inductive: that no request is in progress when `main` closes the pool was established
earlier, by `Shutdown`, and must not be undone since. `GraceInv` says that `main` gets there only after `Shutdown` has
returned, and that from then on nothing is in progress or the limit was reached: a request can only start before
`Shutdown` (`Accept`) and the steps of a request need one in progress (`ReqStepBusy`).

`AccountsProofs` proves, from `AccountsAssumption` (long passwords are passwords, bcrypt reads all of a password that is not long, a token lives for some time, the bounds
are numbers):

| theorem | statement |
|---|---|
| `AccountsInvariant`, `AccountsTyped` | `Spec => []IInv`, `Spec => []TypeOK` |
| `AddressesUnique` | `Spec => []OnePerAddress` |
| `RegisterIsHonest` | `Spec => []RegisterHonest` |
| `LoginIsProved` | `Spec => []LoginProof` |
| `LoginsAreUniform` | `Spec => []LoginUniform` |
| `TokensAreSound` | `Spec => []TokenSound` |
| `MeIsTheOwner` | `Spec => []MeOwner` |

`MeOwner` needs the whole history of an id: that it was drawn once in its era of the table (`IdsOnce`), that what a
token names was a row (`Issued`) and that what a call reads was one too (`ReadRows`). `OnePerAddress` needs the keys of open inserts to differ from
those of the table and from each other (`KeysOnce`). The proof has one lemma for each conjunct of `IInv`, with one step per action.

`MigrationsProofs` proves, for any number of processes and any `-n`, from `MigrationsAssumption`:

| theorem | statement |
|---|---|
| `MigrationsInvariant`, `MigrationsTyped` | `Spec => []IInv`, `Spec => []TypeOK` |
| `CleanVersionsAreTrue` | `Spec => []CleanIsTrue` |
| `DirtyVersionsAreNear` | `Spec => []DirtyIsNear` |
| `NotesKeepOwners` | `Spec => []NotesOwned` |
| `SuccessesAreComplete` | `Spec => SuccessIsComplete` |
| `MigrationsClimb` | `Spec => SchemaClimbs`, the refinement of `Ladder` |

`CleanIsTrue` is not inductive: a file applied by a process whose mark another has cleared would break it. `Holders` says that whoever is between taking the lock
and giving it back has it, and `OnTrack` where the mark and the schema are at each of its stages. `FileTurns` says once what each
of the eight files makes of the schema. For the refinement, `LevelIs` computes the level of a schema, and each action is a step of `Ladder` or leaves level and status alone.

`WireProofs` has the lemmas about the generated code, for any payload and any request, of which a reader should know `RoutedAsSent`, `DecodedIsDesigned` and
`HearsResult` (below); `ExchangeProofs` proves, for
any number of exchanges, the properties of `Exchange`:

| theorem | statement |
|---|---|
| `Invariant`, `Typing` | `Spec => []IInv`, `Spec => []TypeOK` |
| `OneLineEach` | `Spec => []OneLine` |
| `StatusIsDesigned` | `Spec => []StatusContract` |
| `ServiceIsProtected` | `Spec => []ServiceSeesDesign` |
| `FlagsArrive` | `Spec => []AsAsked` |
| `ValidationsAgree` | `Spec => []CommandsAgree` |
| `TellsWhatRan` | `Spec => RpcSpec`, the refinement of `Rpc` |

The argument. None of the properties speaks of the stages in between, so none is inductive. What a stage leaves behind is a function of the stage before it:
`Stage` says so for each value of `pc` (`Asked`, `OnRoute`, `Taken`, `Admitted`, `Finished`, and the five ways to end), `Line` for the log, `Informed` for the
client. Given that, the properties are statements about the generated code of two sides, and these are lemmas: what a command sends is routed to its method and no other
(`RoutedAsSent`), every method is mounted once (`OnePlaceEach`), what the server decodes is what the command built (`CommandTravels`, with one lemma for
each kind of request), what it decodes satisfies the design (`DecodedIsDesigned`), and what it encodes is read back as that result or error
(`HearsResult`, `HearsError`, `HearsFault`, `HearsRefusal`).

The assumptions, which TLC evaluates on the run's instance: `StoredAssumption`, the stored notes are ones that a create or an update has
let through, with a list of tags (`scanJournal` never answers with nil); `AsksAssumption`, what a shell can give a command, that is, a body is JSON
that Go reads into the structure of that command, an id is a number or not one, and a token, when there is one, is made of words and becomes a
header; `OversizedAssumption`, a tag name or a registration within the design's limits is not over 1 MiB (it has at most 326 characters);
`NilAssumption` and `PassedAssumption`, the model value that stands for Go's nil is different from everything that is passed. They say nothing about a
request of another client but that it is not nil.

`SearchProofs` proves, for any notes, users, dates and patterns, from `SearchAssumption` (a limit is between 1 and 100, as the design has it, the bounds are numbers,
and "no search" is not a search):

| theorem | statement |
|---|---|
| `Invariant`, `Typing` | `Spec => []IInv`, `Spec => []TypeOK` |
| `WritesOnlyShift` | `Spec => []PagesOnlyShift` |
| `PageIsItsWindow` | a page has the rows at the places from its offset to its limit, each at its place, and no others |

The place of a row is the number of rows before it (`Rank`), which is its index in every order the `ORDER BY` allows (`PlaceIsRank`). A note made raises places
and one deleted lowers them (`RankGrows`, `RankBelow`). So, while notes are only made, what was there at the start is ahead or was seen (`NotHidden`);
while they are only deleted, what was seen is behind (`NotAhead`). `Shifted` joins the two, and a short page ends the search only when no row
is left.

Only model-checked:

- the liveness properties `EveryCallAnswered`, `StartDecides`, `CheckAnswered`, `EveryRequestEnds`, `StopEnds`, `EveryRunEnds` and `EveryRequestLogged`:
  fairness and ENABLED are out of the prover's reach;
- `PageIsRight`. `PageIsItsWindow` is its half about order and place. The other half, that the rows `WHERE` lets through are the notes sought, compares
  a pattern with a text character by character, and needs an induction over characters that the prover cannot do.

No module uses a RECURSIVE operator.

## 6. Not modelled, and what is left

Not modelled for good: infrastructure (descriptions of a deployment); the OpenAPI files, examples and usage texts that Goa generates;
CHECK constraints that repeat the design's validation; request ids, durations and client addresses in the log; wording of logs and errors;
the debug handler. What PostgreSQL refuses of a text beyond the design's validation (the year 0000, NUL characters) is one of
the failures that any statement may have.

What could still be proved, and is only model-checked now:

1. **The other half of `PageIsRight`**: the part of `WHERE` that has no pattern in it (user, tags, period) equals the part of `Sought`
   that has none, whatever is repeated in the tags; what remains for TLC is then `ILike` of `likePattern` alone.
2. **Safety behind the liveness of `Server`**: a handler holds at most one connection and what it waits for is held by one that can go on, so the
   pool never holds itself up; once nothing is in progress the exit is all that is left.
3. **Locks behind `EveryCallAnswered`**: whoever waits in `EntryStore` waits for a row or a key that another open transaction holds.
