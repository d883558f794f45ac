--------------------------- MODULE AccountsSafety ---------------------------
(***************************************************************************)
(* What the accounts and their tokens promise.                             *)
(***************************************************************************)
EXTENDS Accounts

Kind(c) == IF ans[c] = None THEN "none" ELSE ans[c].kind

\* A request that JWTAuth has let through.
Passed(c) == pc[c] = "select" \/ Kind(c) = "user"

\* One type invariant: rows, requests and answers are what users.go makes.
TypeOK ==
    /\ users \subseteq ever /\ ever \subseteq UserRows
    /\ nextId \in Nat /\ rebuilds \in Nat /\ deletes \in Nat
    /\ secret \in Secrets /\ restarts \in Nat /\ now \in Nat
    /\ pc \in [Calls -> {"absent", "register", "insert", "written", "login",
                         "compare", "me", "select", "done"}]
    /\ row \in [Calls -> UserRows \cup {None}]
    /\ authAt \in [Calls -> Nat] /\ compares \in [Calls -> Nat]
    /\ \A c \in Calls :
        /\ pc[c] \in {"register", "insert", "written"} => call[c].op = "register"
        /\ pc[c] \in {"login", "compare"} => call[c].op = "login"
        /\ pc[c] \in {"me", "select"} => call[c].op = "me"
        /\ Open(c) => row[c] # None

\* Foo@example.com and foo@example.com are one person, however two
\* registrations interleave and whoever is deleted meanwhile, and one id is
\* one person (users.go: Register; users_email_lower_idx; migration 000002).
OnePerAddress ==
    LET rows == users \cup {row[c] : c \in {d \in Calls : Open(d)}} IN
    \A u, v \in rows : (u.id = v.id \/ Same(u.email, v.email)) => u = v

\* 201 means that the row is there, with the email and the whole password asked
\* for, not only the part of it that bcrypt reads; 409, that somebody else has had
\* that address; and a refused registration leaves nothing (users.go: Register).
RegisterHonest ==
    \A c \in Calls :
        /\ Kind(c) = "created" =>
            \E u \in ever : /\ u = ans[c].user /\ u.acct = c
                            /\ u.email = call[c].email /\ u.hash = call[c].pw
        /\ Kind(c) = "conflict" =>
            \E u \in ever : u.acct # c /\ Same(u.email, call[c].email)
        /\ Kind(c) \in {"conflict", "password_too_long"} =>
            \A u \in ever : u.acct # c

\* The token a login answers with names an account that has that address, in
\* any spelling, and that password, whatever happened to the row between the
\* SELECT and the answer (users.go: Login).
LoginProof ==
    \A c \in Calls : Kind(c) = "token" =>
        \E u \in ever : /\ u.acct = ans[c].token.acct /\ u.era = ans[c].token.era
                        /\ u.id = ans[c].token.sub
                        /\ Same(u.email, call[c].email) /\ u.hash = Head[call[c].pw]

\* A secured call runs only with a token that a login of this api issued less
\* than TTL before, and that its process's secret signed: not with another
\* program's, and not with one from before JWT_SECRET changed (auth.go).
TokenSound ==
    \A c \in Calls : Passed(c) =>
        LET t == call[c].token IN
        /\ t \in tokens
        /\ t.iat <= authAt[c] /\ authAt[c] < t.iat + TTL
        /\ pc[c] = "select" => t.key = secret

\* The user a secured call acts as is the one whose login issued its token, as
\* long as the table users is the one the login read: a deleted user's id is
\* never given to another (users.go: Me; migration 000002: IDENTITY).
MeOwner ==
    \A c \in Calls : Kind(c) = "user" /\ ans[c].user.era = call[c].token.era =>
        ans[c].user.acct = call[c].token.acct

\* What the comment in Me says: when the user of a token is gone the answer is
\* 401, so no token ever stands for somebody else (users.go: Me).
MeNeverStranger ==
    \A c \in Calls : Kind(c) = "user" => ans[c].user.acct = call[c].token.acct

\* An unknown address and a wrong password are the same to the client: the
\* answer, and the time of one bcrypt comparison (users.go: dummyHash).
LoginUniform ==
    \A c \in Calls : call[c].op = "login" /\ Kind(c) \in {"unauthorized", "token"}
        => compares[c] = 1

-----------------------------------------------------------------------------
(* The inductive invariant from which AccountsProofs proves the above. *)

\* A handler is where its request leads it, and has compared when it must.
Stages ==
    /\ DOMAIN ans = Calls /\ DOMAIN call = Calls
    /\ \A c \in Calls :
        /\ pc[c] # "done" => ans[c] = None /\ compares[c] = 0
        /\ pc[c] \in {"register", "insert", "written", "login", "compare"} =>
            call[c].email \in Emails /\ call[c].pw \in Passwords
        /\ pc[c] \in {"insert", "written"} => call[c].pw \notin LongOnes
        /\ Kind(c) \in {"created", "conflict", "password_too_long"} =>
            call[c].op = "register"
        /\ Kind(c) = "token" => call[c].op = "login"

\* The row of an open insert is the caller's own.
OpenRows ==
    \A c \in Calls : Open(c) =>
        /\ row[c].acct = c /\ row[c].era = rebuilds
        /\ row[c].id < nextId
        /\ row[c].email = call[c].email /\ row[c].hash = call[c].pw

\* Who is in `ever` has been answered, but never with a refusal.
Registered ==
    \A u \in ever : pc[u.acct] = "done" /\ Kind(u.acct) \in {"created", "error", "none"}

\* In one era of the table an id is given once, in order.
IdsOnce ==
    /\ \A u \in ever : u.era <= rebuilds /\ (u.era = rebuilds => u.id < nextId)
    /\ \A u \in users : u.era = rebuilds
    /\ \A u, v \in ever : u.id = v.id /\ u.era = v.era => u = v
    /\ \A c \in Calls, u \in ever : Open(c) /\ u.era = rebuilds => row[c].id # u.id
    /\ \A c, d \in Calls : Open(c) /\ Open(d) /\ c # d => row[c].id # row[d].id

\* So is an address, as long as the row is there or being inserted.
KeysOnce ==
    /\ \A u, v \in users : Same(u.email, v.email) => u = v
    /\ \A c \in Calls, u \in users : Open(c) => ~Same(row[c].email, u.email)
    /\ \A c, d \in Calls : Open(c) /\ Open(d) /\ c # d => ~Same(row[c].email, row[d].email)

\* A token of this api names a row that was read, and its time of issue; what
\* else may be presented is not signed as one of its tokens.
Issued ==
    /\ \A t \in tokens :
        /\ t.iat \in Nat /\ t.iat <= now /\ t.exp = t.iat + TTL
        /\ \E u \in ever : u.acct = t.acct /\ u.era = t.era /\ u.id = t.sub
    /\ \A c \in Calls : pc[c] = "me" =>
        \/ call[c].token \in tokens \cup {None}
        \/ call[c].token.iss # "life-api" \/ call[c].token.expires = FALSE

\* What a login compares and what a secured call reads are rows of users.
ReadRows ==
    \A c \in Calls :
        /\ pc[c] = "compare" /\ row[c] # None =>
            row[c] \in ever /\ Same(row[c].email, call[c].email)
        /\ Kind(c) = "user" => ans[c].user \in ever /\ ans[c].user.id = call[c].token.sub

IInv ==
    /\ TypeOK /\ Stages /\ OpenRows /\ Registered /\ IdsOnce /\ KeysOnce
    /\ Issued /\ ReadRows
    /\ RegisterHonest /\ LoginProof /\ TokenSound /\ LoginUniform

=============================================================================
