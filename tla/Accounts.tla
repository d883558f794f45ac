------------------------------ MODULE Accounts ------------------------------
(***************************************************************************)
(* Accounts and tokens: the users service (users.go) and the               *)
(* authentication that every secured method goes through (auth.go), on the *)
(* table users of migration 000002.                                        *)
(*                                                                         *)
(* A call is one request; calls run concurrently, each statement of one is *)
(* a step.  A secured call is modelled by `me`, the one that reads users;  *)
(* what the others do once JWTAuth has passed is EntryStore's.  The API    *)
(* never deletes a user; an operator may, with SQL or with life-migrate.   *)
(***************************************************************************)
EXTENDS Naturals, FiniteSets

CONSTANTS
    Calls,       \* requests that may arrive
    MayAsk,      \* bound on what each may ask for
    Emails,      \* spellings of email addresses
    Lower,       \* lower(): what the unique index and the login compare
    Passwords,
    LongOnes,    \* those over 72 bytes, though not over 72 characters
    Head,        \* the 72 bytes of a password that bcrypt reads
    Secrets,     \* values of JWT_SECRET
    TTL,         \* tokenTTL
    MaxTime,     \* bound on the clock
    MaxEvents,   \* bound on restarts, rebuilds and deletions together
    None         \* no row, no token

UserRows == [id : Nat, email : Emails, hash : {Head[p] : p \in Passwords},
             acct : Calls, era : Nat]

ASSUME AccountsAssumption ==
    /\ LongOnes \subseteq Passwords
    /\ \A p \in Passwords \ LongOnes : Head[p] = p
    /\ TTL \in Nat \ {0}
    /\ {MaxTime, MaxEvents} \subseteq Nat
    /\ None \notin UserRows

VARIABLES
    users,     \* committed rows of users
    nextId,    \* the identity sequence of users.id
    secret,    \* the key of the running api
    now,       \* the clock, in seconds
    restarts,  \* how often the api has restarted
    rebuilds,  \* how often users has been dropped and created again
    deletes,   \* how many rows have been deleted
    call,      \* what each request asks
    pc,        \* where its handler is
    row,       \* the row it has read or written
    ans,       \* its answer
    tokens,    \* tokens login has answered with
    ever,      \* history: rows that have been committed
    authAt,    \* history: when JWTAuth let the call through
    compares   \* history: bcrypt comparisons the call has made

table   == <<users, nextId, rebuilds, deletes, ever>>
process == <<secret, restarts>>
vars    == <<table, process, now, call, pc, row, ans, tokens, authAt, compares>>

User(id, email, hash, c) ==
    [id |-> id, email |-> email, hash |-> hash, acct |-> c, era |-> rebuilds]

Same(e, f) == Lower[e] = Lower[f]

NoCall == [op |-> "none"]

Init ==
    /\ users = {} /\ nextId = 1 /\ rebuilds = 0 /\ deletes = 0 /\ ever = {}
    /\ secret \in Secrets /\ restarts = 0 /\ now = 0
    /\ call = [c \in Calls |-> NoCall]
    /\ pc = [c \in Calls |-> "absent"]
    /\ row = [c \in Calls |-> None]
    /\ ans = [c \in Calls |-> None]
    /\ tokens = {}
    /\ authAt = [c \in Calls |-> 0]
    /\ compares = [c \in Calls |-> 0]

Goes(c, from, to) == pc[c] = from /\ pc' = [pc EXCEPT ![c] = to]
Answer(c, a)      == ans' = [ans EXCEPT ![c] = a]
Keeps(c, r)       == row' = [row EXCEPT ![c] = r]

Error(name)  == [kind |-> name]
Unauthorized == Error("unauthorized")

\* Done without touching what outlives the call.
Refuse(c, from, name) ==
    /\ Goes(c, from, "done") /\ Answer(c, Error(name))
    /\ UNCHANGED <<table, process, now, call, row, tokens, authAt>>

-----------------------------------------------------------------------------
(* Tokens. *)

\* Issue: sub, iss, exp, signed with the secret of the process.  acct, era and
\* iat say for whom and when, and are not in the token.
Issue(u) ==
    [sub |-> u.id, iss |-> "life-api", exp |-> now + TTL, expires |-> TRUE,
     key |-> secret, acct |-> u.acct, era |-> u.era, iat |-> now]

\* Tokens of another program that was given the same secret.
Foreign ==
    LET T(i, x) == [sub |-> 1, iss |-> i, exp |-> now + 1, expires |-> x,
                    key |-> secret, acct |-> None, era |-> 0, iat |-> now]
    IN {T("other", TRUE), T("life-api", FALSE)}

\* Mutant: no jwt.WithExpirationRequired.
Verify_ExpOptional(t) ==
    t.key = secret /\ t.iss = "life-api" /\ (t.expires => now < t.exp)

Verify(t) == t.key = secret /\ t.iss = "life-api" /\ t.expires /\ now < t.exp

-----------------------------------------------------------------------------
(* Requests. *)

Requests ==
    [op : {"register", "login"}, email : Emails, pw : Passwords]
    \cup [op : {"me"}, token : tokens \cup Foreign \cup {None}]

Arrive(c) ==
    \E r \in Requests :
        /\ pc[c] = "absent" /\ r.op \in MayAsk[c]
        /\ pc' = [pc EXCEPT ![c] = r.op]
        /\ call' = [call EXCEPT ![c] = r]
        /\ UNCHANGED <<table, process, now, row, ans, tokens, authAt, compares>>

\* GenerateFromPassword refuses more than 72 bytes.
RefuseLong(c) ==
    /\ pc[c] = "register" /\ call[c].pw \in LongOnes
    /\ Refuse(c, "register", "password_too_long") /\ UNCHANGED compares

HashPassword(c) ==
    /\ Goes(c, "register", "insert") /\ call[c].pw \notin LongOnes
    /\ UNCHANGED <<table, process, now, call, row, ans, tokens, authAt, compares>>

Open(d) == pc[d] = "written"

\* The unique index on lower(email): an open insert of the key is waited for.
KeyFree(e) == \A d \in Calls : Open(d) => ~Same(row[d].email, e)

Insert(c, id, key) ==
    /\ Goes(c, "insert", "written") /\ key
    /\ Keeps(c, User(id, call[c].email, Head[call[c].pw], c))
    /\ nextId' = nextId + 1
    /\ UNCHANGED <<users, rebuilds, deletes, ever, process, now, call, ans, tokens,
                   authAt, compares>>

Unclaimed(e) == KeyFree(e) /\ \A u \in users : ~Same(u.email, e)

\* Mutant: the index is on email, not on lower(email).
InsertUser_ExactIndex(c) ==
    Insert(c, nextId, /\ \A d \in Calls : Open(d) => row[d].email # call[c].email
                      /\ \A u \in users : u.email # call[c].email)

\* Mutant: the id is max(id) + 1, not the identity column's.
InsertUser_MaxId(c) ==
    \E id \in 1..nextId :
        /\ \A u \in users : u.id < id
        /\ id = 1 \/ \E u \in users : u.id + 1 = id
        /\ Insert(c, id, Unclaimed(call[c].email))

InsertUser(c) == Insert(c, nextId, Unclaimed(call[c].email))

\* isUniqueViolation.  The id the sequence gave is lost.
Conflict(c) ==
    /\ pc[c] = "insert" /\ KeyFree(call[c].email)
    /\ \E u \in users : Same(u.email, call[c].email)
    /\ Goes(c, "insert", "done") /\ Answer(c, Error("conflict"))
    /\ nextId' = nextId + 1
    /\ UNCHANGED <<users, rebuilds, deletes, ever, process, now, call, row, tokens,
                   authAt, compares>>

\* The statement ends and the row is there; the answer may be lost on its way.
Stored(c) ==
    /\ Goes(c, "written", "done")
    /\ users' = users \cup {row[c]} /\ ever' = ever \cup {row[c]}
    /\ Answer(c, [kind |-> "created", user |-> row[c]]) \/ Answer(c, Error("error"))
    /\ UNCHANGED <<nextId, rebuilds, deletes, process, now, call, row, tokens, authAt,
                   compares>>

\* Mutant: the error of Scan is not looked at.
NotStored_Ignored(c) ==
    /\ Goes(c, "written", "done")
    /\ Answer(c, [kind |-> "created", user |-> row[c]])
    /\ UNCHANGED <<table, process, now, call, row, tokens, authAt, compares>>

\* The connection is lost first.
NotStored(c) == Refuse(c, "written", "error") /\ UNCHANGED compares

\* Mutant: an email nobody registered is answered without a comparison.
Lookup_NoDummy(c) ==
    LET found == {u \in users : Same(u.email, call[c].email)} IN
    IF found = {} THEN Refuse(c, "login", "unauthorized") /\ UNCHANGED compares
    ELSE /\ Goes(c, "login", "compare")
         /\ \E u \in found : Keeps(c, u)
         /\ UNCHANGED <<table, process, now, call, ans, tokens, authAt, compares>>

\* SELECT id, password_hash WHERE lower(email) = lower($1).
Lookup(c) ==
    LET found == {u \in users : Same(u.email, call[c].email)} IN
    /\ Goes(c, "login", "compare")
    /\ IF found = {} THEN Keeps(c, None) ELSE \E u \in found : Keeps(c, u)
    /\ UNCHANGED <<table, process, now, call, ans, tokens, authAt, compares>>

Compares(c) == compares' = [compares EXCEPT ![c] = @ + 1]

\* CompareHashAndPassword reads 72 bytes of any password.
Matches(c) == row[c] # None /\ row[c].hash = Head[call[c].pw]

\* Against dummyHash when there is no row, whatever the outcome.
BadCredentials(c) ==
    /\ pc[c] = "compare" /\ ~Matches(c)
    /\ Refuse(c, "compare", "unauthorized") /\ Compares(c)

\* Mutant: the comparison's result is not looked at.
Login_AnyPassword(c) ==
    /\ Goes(c, "compare", "done") /\ row[c] # None
    /\ Compares(c)
    /\ tokens' = tokens \cup {Issue(row[c])}
    /\ Answer(c, [kind |-> "token", token |-> Issue(row[c])])
    /\ UNCHANGED <<table, process, now, call, row, authAt>>

\* The token is issued from the row as it was read.
Login(c) ==
    /\ Goes(c, "compare", "done") /\ Matches(c)
    /\ Compares(c)
    /\ tokens' = tokens \cup {Issue(row[c])}
    /\ Answer(c, [kind |-> "token", token |-> Issue(row[c])])
    /\ UNCHANGED <<table, process, now, call, row, authAt>>

Accepted(c) == call[c].token # None /\ Verify(call[c].token)

\* JWTAuth: no token, or one that Verify refuses.
RejectToken(c) ==
    /\ pc[c] = "me" /\ ~Accepted(c)
    /\ Refuse(c, "me", "unauthorized") /\ UNCHANGED compares

JWTAuth(c) ==
    /\ Goes(c, "me", "select")
    /\ Accepted(c)
    /\ authAt' = [authAt EXCEPT ![c] = now]
    /\ UNCHANGED <<table, process, now, call, row, ans, tokens, compares>>

\* SELECT WHERE id = $1, with the id of the token.
Me(c) ==
    /\ Goes(c, "select", "done")
    /\ \E u \in users :
        /\ u.id = call[c].token.sub
        /\ Answer(c, [kind |-> "user", user |-> u]) /\ Keeps(c, u)
    /\ UNCHANGED <<table, process, now, call, tokens, authAt, compares>>

\* The user of a valid token is gone.
MeGone(c) ==
    /\ pc[c] = "select" /\ \A u \in users : u.id # call[c].token.sub
    /\ Refuse(c, "select", "unauthorized") /\ UNCHANGED compares

\* A statement fails: the database is away, or the client has left.
StatementFails(c) ==
    /\ \E at \in {"insert", "login", "select"} : Refuse(c, at, "error")
    /\ UNCHANGED compares

-----------------------------------------------------------------------------
(* Around the requests. *)

MayHappen == restarts + rebuilds + deletes < MaxEvents

Tick ==
    /\ now < MaxTime /\ now' = now + 1
    /\ UNCHANGED <<table, process, call, pc, row, ans, tokens, authAt, compares>>

\* A new process, whose JWT_SECRET may be another one.  What was being served
\* gets no answer; an insert under way may have been committed.
Restart ==
    /\ MayHappen /\ restarts' = restarts + 1
    /\ secret' \in Secrets
    /\ pc' = [c \in Calls |-> IF pc[c] = "absent" THEN "absent" ELSE "done"]
    /\ \E kept \in SUBSET {c \in Calls : Open(c)} :
        /\ users' = users \cup {row[c] : c \in kept}
        /\ ever' = ever \cup {row[c] : c \in kept}
    /\ UNCHANGED <<nextId, rebuilds, deletes, now, call, row, ans, tokens, authAt,
                   compares>>

\* DELETE FROM users by hand.
DeleteUser ==
    /\ MayHappen /\ deletes' = deletes + 1
    /\ \E u \in users : users' = users \ {u}
    /\ UNCHANGED <<nextId, rebuilds, ever, process, now, call, pc, row, ans, tokens,
                   authAt, compares>>

\* life-migrate down to 000001 and up: the ids begin at 1 again.  DROP TABLE
\* waits for the open inserts.
Rebuild ==
    /\ MayHappen /\ \A c \in Calls : ~Open(c)
    /\ rebuilds' = rebuilds + 1
    /\ users' = {} /\ nextId' = 1
    /\ UNCHANGED <<deletes, ever, process, now, call, pc, row, ans, tokens, authAt,
                   compares>>

-----------------------------------------------------------------------------

Serve(c) ==
    \/ RefuseLong(c) \/ HashPassword(c) \/ InsertUser(c) \/ Conflict(c)
    \/ Stored(c) \/ NotStored(c)
    \/ Lookup(c) \/ BadCredentials(c) \/ Login(c)
    \/ RejectToken(c) \/ JWTAuth(c) \/ Me(c) \/ MeGone(c)

Next ==
    \/ \E c \in Calls : Arrive(c) \/ Serve(c) \/ StatementFails(c)
    \/ Tick \/ Restart \/ DeleteUser \/ Rebuild

Spec == Init /\ [][Next]_vars

=============================================================================
