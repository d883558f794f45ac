--------------------------- MODULE AccountsProofs ---------------------------
(***************************************************************************)
(* Theorems about Accounts, for every set of requests, addresses,          *)
(* passwords and secrets, and for every bound.  IInv is inductive; one     *)
(* lemma for each of its conjuncts says that a step preserves it.          *)
(***************************************************************************)
EXTENDS AccountsSafety, TLAPS

\* Rows, requests and answers keep their types.
LEMMA TypeOKStep ==
    ASSUME IInv, [Next]_vars
    PROVE  TypeOK'
<1> USE AccountsAssumption
    DEF IInv, TypeOK, Stages, table, process, Goes, Answer, Open
<1>1. CASE UNCHANGED vars
  BY <1>1 DEF vars
<1>2. ASSUME NEW c \in Calls,
             RefuseLong(c) \/ NotStored(c) \/ BadCredentials(c)
               \/ RejectToken(c) \/ MeGone(c) \/ StatementFails(c)
      PROVE  TypeOK'
  BY <1>2 DEF RefuseLong, NotStored, BadCredentials, RejectToken,
              MeGone, StatementFails, Refuse, Error, Unauthorized, Compares, Matches
<1>3. ASSUME NEW c \in Calls, HashPassword(c)
      PROVE  TypeOK'
  BY <1>3 DEF HashPassword
<1>4. ASSUME NEW c \in Calls, InsertUser(c)
      PROVE  TypeOK'
  <2>1. User(nextId, call[c].email, Head[call[c].pw], c) \in UserRows
    BY <1>4 DEF User, UserRows, InsertUser, Insert
  <2> QED BY <1>4, <2>1 DEF Insert, Keeps, InsertUser
<1>5. ASSUME NEW c \in Calls, Conflict(c)
      PROVE  TypeOK'
  BY <1>5 DEF KeyFree, Error, Conflict
<1>6. ASSUME NEW c \in Calls, Stored(c)
      PROVE  TypeOK'
  BY <1>6 DEF Error, Stored
<1>7. ASSUME NEW c \in Calls, Lookup(c)
      PROVE  TypeOK'
  BY <1>7 DEF Keeps, Lookup
<1>8. ASSUME NEW c \in Calls, Login(c)
      PROVE  TypeOK'
  BY <1>8 DEF Compares, Matches, Issue, Login
<1>9. ASSUME NEW c \in Calls, JWTAuth(c)
      PROVE  TypeOK'
  BY <1>9 DEF Accepted, Verify, JWTAuth
<1>10. ASSUME NEW c \in Calls, Me(c)
      PROVE  TypeOK'
  BY <1>10 DEF Keeps, Me
<1>11. ASSUME NEW c \in Calls, Arrive(c)
      PROVE  TypeOK'
  BY <1>11 DEF Requests, Arrive
<1>12. CASE Tick \/ DeleteUser \/ Rebuild
  BY <1>12 DEF Tick, DeleteUser, Rebuild
<1>13. CASE Restart
  BY <1>13 DEF Restart
<1> QED BY <1>1, <1>2, <1>3, <1>4, <1>5, <1>6, <1>7, <1>8, <1>9, <1>10,
           <1>11, <1>12, <1>13 DEF Next, Serve

\* A handler stays where its request leads it.
LEMMA StagesStep ==
    ASSUME IInv, [Next]_vars
    PROVE  Stages'
<1> USE AccountsAssumption
    DEF IInv, TypeOK, Stages, table, process, Goes, Answer, Kind
<1>1. CASE UNCHANGED vars
  BY <1>1 DEF vars
<1>2. ASSUME NEW c \in Calls,
             RefuseLong(c) \/ NotStored(c) \/ BadCredentials(c)
               \/ RejectToken(c) \/ MeGone(c) \/ StatementFails(c)
      PROVE  Stages'
  BY <1>2 DEF RefuseLong, NotStored, BadCredentials, RejectToken,
              MeGone, StatementFails, Refuse, Error, Unauthorized, Compares, Matches
<1>3. ASSUME NEW c \in Calls, HashPassword(c)
      PROVE  Stages'
  BY <1>3 DEF HashPassword
<1>4. ASSUME NEW c \in Calls, InsertUser(c)
      PROVE  Stages'
  BY <1>4 DEF Insert, Unclaimed, KeyFree, User, Keeps, InsertUser
<1>5. ASSUME NEW c \in Calls, Conflict(c)
      PROVE  Stages'
  BY <1>5 DEF KeyFree, Error, Conflict
<1>6. ASSUME NEW c \in Calls, Stored(c)
      PROVE  Stages'
  BY <1>6 DEF Error, Stored
<1>7. ASSUME NEW c \in Calls, Lookup(c)
      PROVE  Stages'
  BY <1>7 DEF Keeps, Lookup
<1>8. ASSUME NEW c \in Calls, Login(c)
      PROVE  Stages'
  BY <1>8 DEF Compares, Matches, Issue, Login
<1>9. ASSUME NEW c \in Calls, JWTAuth(c)
      PROVE  Stages'
  BY <1>9 DEF Accepted, Verify, JWTAuth
<1>10. ASSUME NEW c \in Calls, Me(c)
      PROVE  Stages'
  BY <1>10 DEF Keeps, Me
<1>11. ASSUME NEW c \in Calls, Arrive(c)
      PROVE  Stages'
  BY <1>11 DEF Requests, Arrive
<1>12. CASE Tick \/ DeleteUser \/ Rebuild
  BY <1>12 DEF Tick, DeleteUser, Rebuild
<1>13. CASE Restart
  BY <1>13 DEF Restart
<1> QED BY <1>1, <1>2, <1>3, <1>4, <1>5, <1>6, <1>7, <1>8, <1>9, <1>10,
           <1>11, <1>12, <1>13 DEF Next, Serve

\* An open insert stays the caller's own row.
LEMMA OpenRowsStep ==
    ASSUME IInv, [Next]_vars
    PROVE  OpenRows'
<1> USE AccountsAssumption
    DEF IInv, TypeOK, Stages, table, process,
             Goes, Answer, OpenRows, Open
<1>1. CASE UNCHANGED vars
  BY <1>1 DEF vars
<1>2. ASSUME NEW c \in Calls,
             RefuseLong(c) \/ NotStored(c) \/ BadCredentials(c)
               \/ RejectToken(c) \/ MeGone(c) \/ StatementFails(c)
      PROVE  OpenRows'
  BY <1>2 DEF RefuseLong, NotStored, BadCredentials, RejectToken,
              MeGone, StatementFails, Refuse, Error, Unauthorized, Compares, Matches
<1>3. ASSUME NEW c \in Calls, HashPassword(c)
      PROVE  OpenRows'
  BY <1>3 DEF HashPassword
<1>4. ASSUME NEW c \in Calls, InsertUser(c)
      PROVE  OpenRows'
  <2>1. \A d \in Calls : Open(d) => row[d].id \in Nat
    BY DEF UserRows
  <2> QED BY <1>4, <2>1 DEF Insert, Keeps, InsertUser, User
<1>5. ASSUME NEW c \in Calls, Conflict(c)
      PROVE  OpenRows'
  <2>1. \A d \in Calls : Open(d) => row[d].id \in Nat
    BY DEF UserRows
  <2> QED BY <1>5, <2>1 DEF Conflict
<1>6. ASSUME NEW c \in Calls, Stored(c)
      PROVE  OpenRows'
  BY <1>6 DEF Error, Stored
<1>7. ASSUME NEW c \in Calls, Lookup(c)
      PROVE  OpenRows'
  BY <1>7 DEF Keeps, Lookup
<1>8. ASSUME NEW c \in Calls, Login(c)
      PROVE  OpenRows'
  BY <1>8 DEF Compares, Matches, Issue, Login
<1>9. ASSUME NEW c \in Calls, JWTAuth(c)
      PROVE  OpenRows'
  BY <1>9 DEF Accepted, Verify, JWTAuth
<1>10. ASSUME NEW c \in Calls, Me(c)
      PROVE  OpenRows'
  BY <1>10 DEF Keeps, Me
<1>11. ASSUME NEW c \in Calls, Arrive(c)
      PROVE  OpenRows'
  BY <1>11 DEF Requests, Arrive
<1>12. CASE Tick \/ DeleteUser \/ Rebuild
  BY <1>12 DEF Tick, DeleteUser, Rebuild
<1>13. CASE Restart
  BY <1>13 DEF Restart
<1> QED BY <1>1, <1>2, <1>3, <1>4, <1>5, <1>6, <1>7, <1>8, <1>9, <1>10,
           <1>11, <1>12, <1>13 DEF Next, Serve

\* Nobody who is refused is in `ever`.
LEMMA RegisteredStep ==
    ASSUME IInv, [Next]_vars
    PROVE  Registered'
<1> USE AccountsAssumption
    DEF IInv, TypeOK, Stages, table, process,
             Goes, Answer, Registered, Kind, UserRows
<1>1. CASE UNCHANGED vars
  BY <1>1 DEF vars
<1>2. ASSUME NEW c \in Calls,
             RefuseLong(c) \/ NotStored(c) \/ BadCredentials(c)
               \/ RejectToken(c) \/ MeGone(c) \/ StatementFails(c)
      PROVE  Registered'
  BY <1>2 DEF RefuseLong, NotStored, BadCredentials, RejectToken,
              MeGone, StatementFails, Refuse, Error, Unauthorized, Compares, Matches
<1>3. ASSUME NEW c \in Calls, HashPassword(c)
      PROVE  Registered'
  BY <1>3 DEF HashPassword
<1>4. ASSUME NEW c \in Calls, InsertUser(c)
      PROVE  Registered'
  BY <1>4 DEF Insert, Unclaimed, KeyFree, User, Keeps, InsertUser
<1>5. ASSUME NEW c \in Calls, Conflict(c)
      PROVE  Registered'
  BY <1>5 DEF KeyFree, Error, Conflict
<1>6. ASSUME NEW c \in Calls, Stored(c)
      PROVE  Registered'
  <2>1. \A u \in ever : u.acct \in Calls
    BY DEF UserRows
  <2>2. \/ ans'[c] = [kind |-> "created", user |-> row[c]]
        \/ ans'[c] = [kind |-> "error"]
    BY <1>6 DEF Stored, Error
  <2>3. Kind(c)' \in {"created", "error", "none"}
    BY <2>2
  <2>4. row[c].acct = c
    BY <1>6 DEF Stored, OpenRows, Open
  <2> QED BY <1>6, <2>1, <2>3, <2>4 DEF Stored
<1>7. ASSUME NEW c \in Calls, Lookup(c)
      PROVE  Registered'
  BY <1>7 DEF Keeps, Lookup
<1>8. ASSUME NEW c \in Calls, Login(c)
      PROVE  Registered'
  BY <1>8 DEF Compares, Matches, Issue, Login
<1>9. ASSUME NEW c \in Calls, JWTAuth(c)
      PROVE  Registered'
  BY <1>9 DEF Accepted, Verify, JWTAuth
<1>10. ASSUME NEW c \in Calls, Me(c)
      PROVE  Registered'
  BY <1>10 DEF Keeps, Me
<1>11. ASSUME NEW c \in Calls, Arrive(c)
      PROVE  Registered'
  BY <1>11 DEF Requests, Arrive
<1>12. CASE Tick \/ DeleteUser \/ Rebuild
  BY <1>12 DEF Tick, DeleteUser, Rebuild
<1>13. CASE Restart
  <2>1. \A u \in ever : u.acct \in Calls
    BY DEF UserRows
  <2>2. PICK kept \in SUBSET {c \in Calls : Open(c)} : ever' = ever \cup {row[c] : c \in kept}
    BY <1>13 DEF Restart
  <2>3. \A c \in kept : row[c].acct = c /\ Kind(c) = "none"
    BY DEF OpenRows, Open
  <2> QED BY <1>13, <2>1, <2>2, <2>3 DEF Restart, Open
<1> QED BY <1>1, <1>2, <1>3, <1>4, <1>5, <1>6, <1>7, <1>8, <1>9, <1>10,
           <1>11, <1>12, <1>13 DEF Next, Serve

\* The identity column never gives an id twice in one era.
LEMMA IdsOnceStep ==
    ASSUME IInv, [Next]_vars
    PROVE  IdsOnce'
<1> USE AccountsAssumption
    DEF IInv, TypeOK, Stages, table, process,
             Goes, Answer, IdsOnce, Open
<1>1. CASE UNCHANGED vars
  BY <1>1 DEF vars
<1>2. ASSUME NEW c \in Calls,
             RefuseLong(c) \/ NotStored(c) \/ BadCredentials(c)
               \/ RejectToken(c) \/ MeGone(c) \/ StatementFails(c)
      PROVE  IdsOnce'
  BY <1>2 DEF RefuseLong, NotStored, BadCredentials, RejectToken,
              MeGone, StatementFails, Refuse, Error, Unauthorized, Compares, Matches
<1>3. ASSUME NEW c \in Calls, HashPassword(c)
      PROVE  IdsOnce'
  BY <1>3 DEF HashPassword
<1>4. ASSUME NEW c \in Calls, InsertUser(c)
      PROVE  IdsOnce'
  <2>1. /\ \A d \in Calls : Open(d) => row[d].id \in Nat /\ row[d].id < nextId
        /\ \A u \in ever : u.id \in Nat /\ u.era \in Nat
    BY DEF UserRows, OpenRows
  <2>2. row'[c].id = nextId /\ \A d \in Calls \ {c} : row'[d] = row[d]
    BY <1>4 DEF Insert, Keeps, InsertUser, User
  <2>3. \A d \in Calls : Open(d)' <=> (Open(d) \/ d = c)
    BY <1>4 DEF Insert, InsertUser
  <2> QED BY <1>4, <2>1, <2>2, <2>3 DEF Insert, InsertUser
<1>5. ASSUME NEW c \in Calls, Conflict(c)
      PROVE  IdsOnce'
  <2>1. /\ \A d \in Calls : Open(d) => row[d].id \in Nat
        /\ \A u \in ever : u.id \in Nat /\ u.era \in Nat
    BY DEF UserRows
  <2> QED BY <1>5, <2>1 DEF Conflict
<1>6. ASSUME NEW c \in Calls, Stored(c)
      PROVE  IdsOnce'
  <2>1. /\ row[c].era = rebuilds /\ row[c].id < nextId
        /\ \A u \in ever : u.era = rebuilds => u.id # row[c].id
    BY <1>6 DEF Stored, OpenRows
  <2>2. /\ users' = users \cup {row[c]} /\ ever' = ever \cup {row[c]}
        /\ UNCHANGED <<rebuilds, nextId, row>>
    BY <1>6 DEF Stored
  <2>3. \A d \in Calls : Open(d)' <=> (Open(d) /\ d # c)
    BY <1>6 DEF Stored
  <2> QED BY <1>6, <2>1, <2>2, <2>3 DEF Stored
<1>7. ASSUME NEW c \in Calls, Lookup(c)
      PROVE  IdsOnce'
  BY <1>7 DEF Keeps, Lookup
<1>8. ASSUME NEW c \in Calls, Login(c)
      PROVE  IdsOnce'
  BY <1>8 DEF Compares, Matches, Issue, Login
<1>9. ASSUME NEW c \in Calls, JWTAuth(c)
      PROVE  IdsOnce'
  BY <1>9 DEF Accepted, Verify, JWTAuth
<1>10. ASSUME NEW c \in Calls, Me(c)
      PROVE  IdsOnce'
  BY <1>10 DEF Keeps, Me
<1>11. ASSUME NEW c \in Calls, Arrive(c)
      PROVE  IdsOnce'
  BY <1>11 DEF Requests, Arrive
<1>12. CASE Tick \/ DeleteUser
  BY <1>12 DEF Tick, DeleteUser
<1>13. CASE Restart
  <2>1. PICK kept \in SUBSET {c \in Calls : Open(c)} :
          /\ ever' = ever \cup {row[c] : c \in kept}
          /\ users' = users \cup {row[c] : c \in kept}
    BY <1>13 DEF Restart
  <2>2. (\A c \in Calls : ~Open(c)') /\ UNCHANGED <<rebuilds, nextId>>
    BY <1>13 DEF Restart
  <2>3. \A c \in kept : row[c].era = rebuilds /\ row[c].id < nextId
    BY DEF OpenRows
  <2>4. \A u, v \in ever' : u.id = v.id /\ u.era = v.era => u = v
    BY <2>1, <2>3
  <2> QED BY <2>1, <2>2, <2>3, <2>4
<1>14. CASE Rebuild
  <2>1. \A u \in ever : u.id \in Nat /\ u.era \in Nat
    BY DEF UserRows
  <2> QED BY <1>14, <2>1 DEF Rebuild
<1> QED BY <1>1, <1>2, <1>3, <1>4, <1>5, <1>6, <1>7, <1>8, <1>9, <1>10,
           <1>11, <1>12, <1>13, <1>14 DEF Next, Serve

\* The unique index lets no address in twice.
LEMMA KeysOnceStep ==
    ASSUME IInv, [Next]_vars
    PROVE  KeysOnce'
<1> USE AccountsAssumption
    DEF IInv, TypeOK, Stages, table, process,
             Goes, Answer, KeysOnce, Open, Same
<1>1. CASE UNCHANGED vars
  BY <1>1 DEF vars
<1>2. ASSUME NEW c \in Calls,
             RefuseLong(c) \/ NotStored(c) \/ BadCredentials(c)
               \/ RejectToken(c) \/ MeGone(c) \/ StatementFails(c)
      PROVE  KeysOnce'
  BY <1>2 DEF RefuseLong, NotStored, BadCredentials, RejectToken,
              MeGone, StatementFails, Refuse, Error, Unauthorized, Compares, Matches
<1>3. ASSUME NEW c \in Calls, HashPassword(c)
      PROVE  KeysOnce'
  BY <1>3 DEF HashPassword
<1>4. ASSUME NEW c \in Calls, InsertUser(c)
      PROVE  KeysOnce'
  BY <1>4 DEF Insert, Unclaimed, KeyFree, User, Keeps, InsertUser
<1>5. ASSUME NEW c \in Calls, Conflict(c)
      PROVE  KeysOnce'
  BY <1>5 DEF KeyFree, Error, Conflict
<1>6. ASSUME NEW c \in Calls, Stored(c)
      PROVE  KeysOnce'
  BY <1>6 DEF Error, Stored
<1>7. ASSUME NEW c \in Calls, Lookup(c)
      PROVE  KeysOnce'
  BY <1>7 DEF Keeps, Lookup
<1>8. ASSUME NEW c \in Calls, Login(c)
      PROVE  KeysOnce'
  BY <1>8 DEF Compares, Matches, Issue, Login
<1>9. ASSUME NEW c \in Calls, JWTAuth(c)
      PROVE  KeysOnce'
  BY <1>9 DEF Accepted, Verify, JWTAuth
<1>10. ASSUME NEW c \in Calls, Me(c)
      PROVE  KeysOnce'
  BY <1>10 DEF Keeps, Me
<1>11. ASSUME NEW c \in Calls, Arrive(c)
      PROVE  KeysOnce'
  BY <1>11 DEF Requests, Arrive
<1>12. CASE Tick \/ DeleteUser \/ Rebuild
  BY <1>12 DEF Tick, DeleteUser, Rebuild
<1>13. CASE Restart
  BY <1>13 DEF Restart
<1> QED BY <1>1, <1>2, <1>3, <1>4, <1>5, <1>6, <1>7, <1>8, <1>9, <1>10,
           <1>11, <1>12, <1>13 DEF Next, Serve

\* Tokens stay bound to a row that was read.
LEMMA IssuedStep ==
    ASSUME IInv, [Next]_vars
    PROVE  Issued'
<1> USE AccountsAssumption
    DEF IInv, TypeOK, Stages, table, process, Goes, Answer, Issued
<1>1. CASE UNCHANGED vars
  BY <1>1 DEF vars
<1>2. ASSUME NEW c \in Calls,
             RefuseLong(c) \/ NotStored(c) \/ BadCredentials(c)
               \/ RejectToken(c) \/ MeGone(c) \/ StatementFails(c)
      PROVE  Issued'
  BY <1>2 DEF RefuseLong, NotStored, BadCredentials, RejectToken,
              MeGone, StatementFails, Refuse, Error, Unauthorized, Compares, Matches
<1>3. ASSUME NEW c \in Calls, HashPassword(c)
      PROVE  Issued'
  BY <1>3 DEF HashPassword
<1>4. ASSUME NEW c \in Calls, InsertUser(c)
      PROVE  Issued'
  BY <1>4 DEF Insert, Unclaimed, KeyFree, User, Keeps, InsertUser
<1>5. ASSUME NEW c \in Calls, Conflict(c)
      PROVE  Issued'
  BY <1>5 DEF KeyFree, Error, Conflict
<1>6. ASSUME NEW c \in Calls, Stored(c)
      PROVE  Issued'
  BY <1>6 DEF Error, Stored
<1>7. ASSUME NEW c \in Calls, Lookup(c)
      PROVE  Issued'
  BY <1>7 DEF Keeps, Lookup
<1>8. ASSUME NEW c \in Calls, Login(c)
      PROVE  Issued'
  <2>1. row[c] \in ever
    BY <1>8 DEF Login, Matches, ReadRows
  <2>2. /\ Issue(row[c]).iat = now /\ Issue(row[c]).exp = now + TTL
        /\ Issue(row[c]).acct = row[c].acct /\ Issue(row[c]).era = row[c].era
        /\ Issue(row[c]).sub = row[c].id
    BY DEF Issue
  <2>3. tokens' = tokens \cup {Issue(row[c])} /\ UNCHANGED <<ever, now, call>>
    BY <1>8 DEF Login
  <2>4. ASSUME NEW t \in tokens'
        PROVE  /\ t.iat \in Nat /\ t.iat <= now' /\ t.exp = t.iat + TTL
               /\ \E u \in ever' : u.acct = t.acct /\ u.era = t.era /\ u.id = t.sub
    BY <2>1, <2>2, <2>3
  <2>5. \A d \in Calls : pc'[d] = "me" => pc[d] = "me"
    BY <1>8 DEF Login
  <2> QED BY <2>3, <2>4, <2>5
<1>9. ASSUME NEW c \in Calls, JWTAuth(c)
      PROVE  Issued'
  BY <1>9 DEF Accepted, Verify, JWTAuth
<1>10. ASSUME NEW c \in Calls, Me(c)
      PROVE  Issued'
  BY <1>10 DEF Keeps, Me
<1>11. ASSUME NEW c \in Calls, Arrive(c)
      PROVE  Issued'
  <2>1. PICK r \in Requests :
          call' = [call EXCEPT ![c] = r] /\ pc' = [pc EXCEPT ![c] = r.op]
    BY <1>11 DEF Arrive
  <2>2. r.op = "me" => r.token \in tokens \cup Foreign \cup {None}
    BY DEF Requests
  <2>3. \A t \in Foreign : t.iss # "life-api" \/ t.expires = FALSE
    BY DEF Foreign
  <2> QED BY <1>11, <2>1, <2>2, <2>3 DEF Arrive
<1>12. CASE Tick \/ DeleteUser \/ Rebuild
  BY <1>12 DEF Tick, DeleteUser, Rebuild
<1>13. CASE Restart
  BY <1>13 DEF Restart
<1> QED BY <1>1, <1>2, <1>3, <1>4, <1>5, <1>6, <1>7, <1>8, <1>9, <1>10,
           <1>11, <1>12, <1>13 DEF Next, Serve

\* What is read is a row that was committed.
LEMMA ReadRowsStep ==
    ASSUME IInv, [Next]_vars
    PROVE  ReadRows'
<1> USE AccountsAssumption
    DEF IInv, TypeOK, Stages, table, process,
             Goes, Answer, ReadRows, Kind, Same
<1>1. CASE UNCHANGED vars
  BY <1>1 DEF vars
<1>2. ASSUME NEW c \in Calls,
             RefuseLong(c) \/ NotStored(c) \/ BadCredentials(c)
               \/ RejectToken(c) \/ MeGone(c) \/ StatementFails(c)
      PROVE  ReadRows'
  BY <1>2 DEF RefuseLong, NotStored, BadCredentials, RejectToken,
              MeGone, StatementFails, Refuse, Error, Unauthorized, Compares, Matches
<1>3. ASSUME NEW c \in Calls, HashPassword(c)
      PROVE  ReadRows'
  BY <1>3 DEF HashPassword
<1>4. ASSUME NEW c \in Calls, InsertUser(c)
      PROVE  ReadRows'
  BY <1>4 DEF Insert, Unclaimed, KeyFree, User, Keeps, InsertUser
<1>5. ASSUME NEW c \in Calls, Conflict(c)
      PROVE  ReadRows'
  BY <1>5 DEF KeyFree, Error, Conflict
<1>6. ASSUME NEW c \in Calls, Stored(c)
      PROVE  ReadRows'
  BY <1>6 DEF Error, Stored
<1>7. ASSUME NEW c \in Calls, Lookup(c)
      PROVE  ReadRows'
  BY <1>7 DEF Keeps, Lookup
<1>8. ASSUME NEW c \in Calls, Login(c)
      PROVE  ReadRows'
  BY <1>8 DEF Compares, Matches, Issue, Login
<1>9. ASSUME NEW c \in Calls, JWTAuth(c)
      PROVE  ReadRows'
  BY <1>9 DEF Accepted, Verify, JWTAuth
<1>10. ASSUME NEW c \in Calls, Me(c)
      PROVE  ReadRows'
  BY <1>10 DEF Keeps, Me
<1>11. ASSUME NEW c \in Calls, Arrive(c)
      PROVE  ReadRows'
  BY <1>11 DEF Requests, Arrive
<1>12. CASE Tick \/ DeleteUser \/ Rebuild
  BY <1>12 DEF Tick, DeleteUser, Rebuild
<1>13. CASE Restart
  BY <1>13 DEF Restart
<1> QED BY <1>1, <1>2, <1>3, <1>4, <1>5, <1>6, <1>7, <1>8, <1>9, <1>10,
           <1>11, <1>12, <1>13 DEF Next, Serve

\* The answers of register stay true.
LEMMA RegisterHonestStep ==
    ASSUME IInv, [Next]_vars
    PROVE  RegisterHonest'
<1> USE AccountsAssumption
    DEF IInv, TypeOK, Stages, table, process,
             Goes, Answer, RegisterHonest, Kind, Same
<1>1. CASE UNCHANGED vars
  BY <1>1 DEF vars
<1>2. ASSUME NEW c \in Calls,
             NotStored(c) \/ BadCredentials(c) \/ RejectToken(c)
               \/ MeGone(c) \/ StatementFails(c)
      PROVE  RegisterHonest'
  BY <1>2 DEF NotStored, BadCredentials, RejectToken, MeGone,
              StatementFails, Refuse, Error, Unauthorized, Compares, Matches
<1>3. ASSUME NEW c \in Calls, RefuseLong(c)
      PROVE  RegisterHonest'
  <2>1. \A u \in ever : u.acct # c
    BY <1>3 DEF UserRows, RefuseLong, Registered
  <2> QED BY <1>3, <2>1 DEF RefuseLong, Refuse, Error
<1>4. ASSUME NEW c \in Calls, HashPassword(c)
      PROVE  RegisterHonest'
  BY <1>4 DEF HashPassword
<1>5. ASSUME NEW c \in Calls, InsertUser(c)
      PROVE  RegisterHonest'
  BY <1>5 DEF Insert, Unclaimed, KeyFree, User, Keeps, InsertUser
<1>6. ASSUME NEW c \in Calls, Conflict(c)
      PROVE  RegisterHonest'
  <2>1. \A u \in ever : u.acct # c
    BY <1>6 DEF UserRows, Conflict, Registered
  <2>2. \E u \in ever : u.acct # c /\ Same(u.email, call[c].email)
    BY <1>6, <2>1 DEF Conflict
  <2> QED BY <1>6, <2>1, <2>2 DEF Conflict, Error
<1>7. ASSUME NEW c \in Calls, Stored(c)
      PROVE  RegisterHonest'
  <2>1. /\ row[c].acct = c /\ row[c].email = call[c].email
        /\ row[c].hash = call[c].pw
    BY <1>7 DEF Stored, Open, OpenRows
  <2>2. /\ ever' = ever \cup {row[c]} /\ call' = call
        /\ \A d \in Calls \ {c} : ans'[d] = ans[d]
    BY <1>7 DEF Stored
  <2>3. /\ Kind(c)' \in {"created", "error", "none"}
        /\ Kind(c)' = "created" => ans'[c].user = row[c]
    BY <1>7 DEF Stored, Error
  <2>4. \A d \in Calls \ {c} : Kind(d)' = Kind(d)
    BY <2>2
  <2> QED BY <2>1, <2>2, <2>3, <2>4
<1>8. ASSUME NEW c \in Calls, Lookup(c)
      PROVE  RegisterHonest'
  BY <1>8 DEF Keeps, Lookup
<1>9. ASSUME NEW c \in Calls, Login(c)
      PROVE  RegisterHonest'
  BY <1>9 DEF Compares, Matches, Issue, Login
<1>10. ASSUME NEW c \in Calls, JWTAuth(c)
      PROVE  RegisterHonest'
  BY <1>10 DEF Accepted, Verify, JWTAuth
<1>11. ASSUME NEW c \in Calls, Me(c)
      PROVE  RegisterHonest'
  BY <1>11 DEF Keeps, Me
<1>12. ASSUME NEW c \in Calls, Arrive(c)
      PROVE  RegisterHonest'
  BY <1>12 DEF Requests, Arrive
<1>13. CASE Tick \/ DeleteUser \/ Rebuild
  BY <1>13 DEF Tick, DeleteUser, Rebuild
<1>14. CASE Restart
  <2>1. PICK kept \in SUBSET {c \in Calls : Open(c)} : ever' = ever \cup {row[c] : c \in kept}
    BY <1>14 DEF Restart
  <2>2. \A c \in kept : row[c].acct = c /\ Kind(c) = "none"
    BY DEF OpenRows, Open
  <2>3. UNCHANGED <<ans, call>>
    BY <1>14 DEF Restart
  <2> QED BY <2>1, <2>2, <2>3
<1> QED BY <1>1, <1>2, <1>3, <1>4, <1>5, <1>6, <1>7, <1>8, <1>9, <1>10,
           <1>11, <1>12, <1>13, <1>14 DEF Next, Serve

\* The tokens of login stay proved.
LEMMA LoginProofStep ==
    ASSUME IInv, [Next]_vars
    PROVE  LoginProof'
<1> USE AccountsAssumption
    DEF IInv, TypeOK, Stages, table, process,
             Goes, Answer, LoginProof, Kind, Same
<1>1. CASE UNCHANGED vars
  BY <1>1 DEF vars
<1>2. ASSUME NEW c \in Calls,
             RefuseLong(c) \/ NotStored(c) \/ BadCredentials(c)
               \/ RejectToken(c) \/ MeGone(c) \/ StatementFails(c)
      PROVE  LoginProof'
  BY <1>2 DEF RefuseLong, NotStored, BadCredentials, RejectToken,
              MeGone, StatementFails, Refuse, Error, Unauthorized, Compares, Matches
<1>3. ASSUME NEW c \in Calls, HashPassword(c)
      PROVE  LoginProof'
  BY <1>3 DEF HashPassword
<1>4. ASSUME NEW c \in Calls, InsertUser(c)
      PROVE  LoginProof'
  BY <1>4 DEF Insert, Unclaimed, KeyFree, User, Keeps, InsertUser
<1>5. ASSUME NEW c \in Calls, Conflict(c)
      PROVE  LoginProof'
  BY <1>5 DEF KeyFree, Error, Conflict
<1>6. ASSUME NEW c \in Calls, Stored(c)
      PROVE  LoginProof'
  BY <1>6 DEF Error, Stored
<1>7. ASSUME NEW c \in Calls, Lookup(c)
      PROVE  LoginProof'
  BY <1>7 DEF Keeps, Lookup
<1>8. ASSUME NEW c \in Calls, Login(c)
      PROVE  LoginProof'
  <2>1. /\ row[c] \in ever /\ Same(row[c].email, call[c].email)
        /\ row[c].hash = Head[call[c].pw]
    BY <1>8 DEF Login, Matches, ReadRows
  <2>2. /\ Issue(row[c]).acct = row[c].acct /\ Issue(row[c]).era = row[c].era
        /\ Issue(row[c]).sub = row[c].id
    BY DEF Issue
  <2>3. /\ ans' = [ans EXCEPT ![c] = [kind |-> "token", token |-> Issue(row[c])]]
        /\ UNCHANGED <<ever, call>>
    BY <1>8 DEF Login
  <2>4. ans'[c].token = Issue(row[c]) /\ \A d \in Calls \ {c} : ans'[d] = ans[d]
    BY <2>3
  <2> QED BY <2>1, <2>2, <2>3, <2>4
<1>9. ASSUME NEW c \in Calls, JWTAuth(c)
      PROVE  LoginProof'
  BY <1>9 DEF Accepted, Verify, JWTAuth
<1>10. ASSUME NEW c \in Calls, Me(c)
      PROVE  LoginProof'
  BY <1>10 DEF Keeps, Me
<1>11. ASSUME NEW c \in Calls, Arrive(c)
      PROVE  LoginProof'
  BY <1>11 DEF Requests, Arrive
<1>12. CASE Tick \/ DeleteUser \/ Rebuild
  BY <1>12 DEF Tick, DeleteUser, Rebuild
<1>13. CASE Restart
  BY <1>13 DEF Restart
<1> QED BY <1>1, <1>2, <1>3, <1>4, <1>5, <1>6, <1>7, <1>8, <1>9, <1>10,
           <1>11, <1>12, <1>13 DEF Next, Serve

\* Secured calls run with tokens of this api.
LEMMA TokenSoundStep ==
    ASSUME IInv, [Next]_vars
    PROVE  TokenSound'
<1> USE AccountsAssumption
    DEF IInv, TypeOK, Stages, table, process,
             Goes, Answer, TokenSound, Kind, Passed
<1>1. CASE UNCHANGED vars
  BY <1>1 DEF vars
<1>2. ASSUME NEW c \in Calls,
             RefuseLong(c) \/ NotStored(c) \/ BadCredentials(c)
               \/ RejectToken(c) \/ MeGone(c) \/ StatementFails(c)
      PROVE  TokenSound'
  BY <1>2 DEF RefuseLong, NotStored, BadCredentials, RejectToken,
              MeGone, StatementFails, Refuse, Error, Unauthorized, Compares, Matches
<1>3. ASSUME NEW c \in Calls, HashPassword(c)
      PROVE  TokenSound'
  BY <1>3 DEF HashPassword
<1>4. ASSUME NEW c \in Calls, InsertUser(c)
      PROVE  TokenSound'
  BY <1>4 DEF Insert, Unclaimed, KeyFree, User, Keeps, InsertUser
<1>5. ASSUME NEW c \in Calls, Conflict(c)
      PROVE  TokenSound'
  BY <1>5 DEF KeyFree, Error, Conflict
<1>6. ASSUME NEW c \in Calls, Stored(c)
      PROVE  TokenSound'
  BY <1>6 DEF Error, Stored
<1>7. ASSUME NEW c \in Calls, Lookup(c)
      PROVE  TokenSound'
  BY <1>7 DEF Keeps, Lookup
<1>8. ASSUME NEW c \in Calls, Login(c)
      PROVE  TokenSound'
  BY <1>8 DEF Compares, Matches, Issue, Login
<1>9. ASSUME NEW c \in Calls, JWTAuth(c)
      PROVE  TokenSound'
  <2>1. /\ call[c].token \in tokens /\ call[c].token.key = secret
        /\ now < call[c].token.exp
    BY <1>9 DEF JWTAuth, Accepted, Verify, Issued
  <2>2. /\ call[c].token.iat \in Nat /\ call[c].token.iat <= now
        /\ now < call[c].token.iat + TTL
    BY <2>1 DEF Issued
  <2>3. /\ authAt'[c] = now
        /\ \A d \in Calls \ {c} : authAt'[d] = authAt[d] /\ pc'[d] = pc[d]
        /\ UNCHANGED <<tokens, call, ans, secret>>
    BY <1>9 DEF JWTAuth
  <2> QED BY <2>1, <2>2, <2>3
<1>10. ASSUME NEW c \in Calls, Me(c)
      PROVE  TokenSound'
  BY <1>10 DEF Keeps, Me
<1>11. ASSUME NEW c \in Calls, Arrive(c)
      PROVE  TokenSound'
  BY <1>11 DEF Requests, Arrive
<1>12. CASE Tick \/ DeleteUser \/ Rebuild
  BY <1>12 DEF Tick, DeleteUser, Rebuild
<1>13. CASE Restart
  BY <1>13 DEF Restart
<1> QED BY <1>1, <1>2, <1>3, <1>4, <1>5, <1>6, <1>7, <1>8, <1>9, <1>10,
           <1>11, <1>12, <1>13 DEF Next, Serve

\* A login compares once.
LEMMA LoginUniformStep ==
    ASSUME IInv, [Next]_vars
    PROVE  LoginUniform'
<1> USE AccountsAssumption
    DEF IInv, TypeOK, Stages, table, process,
             Goes, Answer, LoginUniform, Kind
<1>1. CASE UNCHANGED vars
  BY <1>1 DEF vars
<1>2. ASSUME NEW c \in Calls,
             RefuseLong(c) \/ NotStored(c) \/ BadCredentials(c)
               \/ RejectToken(c) \/ MeGone(c) \/ StatementFails(c)
      PROVE  LoginUniform'
  BY <1>2 DEF RefuseLong, NotStored, BadCredentials, RejectToken,
              MeGone, StatementFails, Refuse, Error, Unauthorized, Compares, Matches
<1>3. ASSUME NEW c \in Calls, HashPassword(c)
      PROVE  LoginUniform'
  BY <1>3 DEF HashPassword
<1>4. ASSUME NEW c \in Calls, InsertUser(c)
      PROVE  LoginUniform'
  BY <1>4 DEF Insert, Unclaimed, KeyFree, User, Keeps, InsertUser
<1>5. ASSUME NEW c \in Calls, Conflict(c)
      PROVE  LoginUniform'
  BY <1>5 DEF KeyFree, Error, Conflict
<1>6. ASSUME NEW c \in Calls, Stored(c)
      PROVE  LoginUniform'
  BY <1>6 DEF Error, Stored
<1>7. ASSUME NEW c \in Calls, Lookup(c)
      PROVE  LoginUniform'
  BY <1>7 DEF Keeps, Lookup
<1>8. ASSUME NEW c \in Calls, Login(c)
      PROVE  LoginUniform'
  BY <1>8 DEF Compares, Matches, Issue, Login
<1>9. ASSUME NEW c \in Calls, JWTAuth(c)
      PROVE  LoginUniform'
  BY <1>9 DEF Accepted, Verify, JWTAuth
<1>10. ASSUME NEW c \in Calls, Me(c)
      PROVE  LoginUniform'
  BY <1>10 DEF Keeps, Me
<1>11. ASSUME NEW c \in Calls, Arrive(c)
      PROVE  LoginUniform'
  BY <1>11 DEF Requests, Arrive
<1>12. CASE Tick \/ DeleteUser \/ Rebuild
  BY <1>12 DEF Tick, DeleteUser, Rebuild
<1>13. CASE Restart
  BY <1>13 DEF Restart
<1> QED BY <1>1, <1>2, <1>3, <1>4, <1>5, <1>6, <1>7, <1>8, <1>9, <1>10,
           <1>11, <1>12, <1>13 DEF Next, Serve

\* The start has no rows, no requests and no tokens.
LEMMA InitIInv == Init => IInv
<1> SUFFICES ASSUME Init
             PROVE  IInv
  OBVIOUS
<1> USE AccountsAssumption DEF Init, Kind, Open
<1>1. TypeOK
  BY DEF TypeOK
<1>2. Stages /\ OpenRows /\ Registered /\ IdsOnce /\ KeysOnce
  BY DEF Stages, OpenRows, Registered, IdsOnce, KeysOnce
<1>3. Issued /\ ReadRows
  BY DEF Issued, ReadRows
<1>4. RegisterHonest /\ LoginProof /\ TokenSound /\ LoginUniform
  BY DEF RegisterHonest, LoginProof, TokenSound, LoginUniform, Passed, NoCall
<1> QED BY <1>1, <1>2, <1>3, <1>4 DEF IInv

\* The inductive invariant holds in every state of every behaviour.
THEOREM AccountsInvariant == Spec => []IInv
<1>1. IInv /\ [Next]_vars => IInv'
  BY TypeOKStep, StagesStep, OpenRowsStep, RegisteredStep, IdsOnceStep,
     KeysOnceStep, IssuedStep, ReadRowsStep, RegisterHonestStep,
     LoginProofStep, TokenSoundStep, LoginUniformStep DEF IInv
<1> QED BY InitIInv, <1>1, PTL DEF Spec

\* Rows, requests and answers have their types.
THEOREM AccountsTyped == Spec => []TypeOK
<1>1. IInv => TypeOK
  BY DEF IInv
<1> QED BY <1>1, AccountsInvariant, PTL

\* Two rows of users, committed or being inserted, are never one address in
\* two spellings nor one id, however registrations, deletions and restarts
\* interleave.
THEOREM AddressesUnique == Spec => []OnePerAddress
<1>1. IInv => OnePerAddress
  <2> SUFFICES ASSUME IInv,
                      NEW u \in users \cup {row[c] : c \in {d \in Calls : Open(d)}},
                      NEW v \in users \cup {row[c] : c \in {d \in Calls : Open(d)}},
                      u.id = v.id \/ Same(u.email, v.email)
               PROVE  u = v
    BY DEF OnePerAddress
  <2> USE DEF IInv, IdsOnce, KeysOnce, Same
  <2>1. CASE u \in users /\ v \in users
    BY <2>1 DEF TypeOK
  <2>2. CASE u \in users /\ v \notin users
    BY <2>2 DEF TypeOK
  <2>3. CASE u \notin users /\ v \in users
    BY <2>3 DEF TypeOK
  <2>4. CASE u \notin users /\ v \notin users
    BY <2>4
  <2> QED BY <2>1, <2>2, <2>3, <2>4
<1> QED BY <1>1, AccountsInvariant, PTL

\* What register answers is true of what has been stored.
THEOREM RegisterIsHonest == Spec => []RegisterHonest
<1>1. IInv => RegisterHonest
  BY DEF IInv
<1> QED BY <1>1, AccountsInvariant, PTL

\* A login's token names an account with the address and the password given.
THEOREM LoginIsProved == Spec => []LoginProof
<1>1. IInv => LoginProof
  BY DEF IInv
<1> QED BY <1>1, AccountsInvariant, PTL

\* Secured calls run only with tokens that this api issued, in their time.
THEOREM TokensAreSound == Spec => []TokenSound
<1>1. IInv => TokenSound
  BY DEF IInv
<1> QED BY <1>1, AccountsInvariant, PTL

\* A secured call acts as the account that logged in, unless the table has been
\* dropped and created again in between.
THEOREM MeIsTheOwner == Spec => []MeOwner
<1>1. ASSUME IInv, NEW c \in Calls, Kind(c) = "user",
             ans[c].user.era = call[c].token.era
      PROVE  ans[c].user.acct = call[c].token.acct
  <2>1. ans[c].user \in ever /\ ans[c].user.id = call[c].token.sub
    BY <1>1 DEF IInv, ReadRows
  <2>2. call[c].token \in tokens
    BY <1>1 DEF IInv, TokenSound, Passed
  <2>3. Issued /\ IdsOnce
    BY <1>1 DEF IInv
  <2>4. PICK u \in ever : /\ u.acct = call[c].token.acct /\ u.era = call[c].token.era
                          /\ u.id = call[c].token.sub
    BY <2>2, <2>3 DEF Issued
  <2> QED BY <1>1, <2>1, <2>3, <2>4 DEF IdsOnce
<1>2. IInv => MeOwner
  BY <1>1 DEF MeOwner
<1> QED BY <1>2, AccountsInvariant, PTL

\* Unknown addresses and wrong passwords cost one comparison alike.
THEOREM LoginsAreUniform == Spec => []LoginUniform
<1>1. IInv => LoginUniform
  BY DEF IInv
<1> QED BY <1>1, AccountsInvariant, PTL

=============================================================================
