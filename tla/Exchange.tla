------------------------------- MODULE Exchange -------------------------------
(***************************************************************************)
(* One request and its answer, from the command line (cmd/life-cli) or any *)
(* other HTTP client to a method of a service and back: the handler chain  *)
(* of cmd/life/http.go, the request log (reqlog.go), the generated         *)
(* handlers, endpoints and clients, and JWTAuth where it is called.        *)
(*                                                                         *)
(* What a method does is not modelled here: it answers with any of its     *)
(* results, an error of its own or of the database, or panics.  Tokens are *)
(* good or bad here; Accounts has what makes them so.                      *)
(***************************************************************************)
EXTENDS Wire

CONSTANTS
    Calls,          \* exchanges
    Asks,           \* what each may ask: commands, and requests of other clients
    TokenOf,        \* the user of each good token
    Row,            \* what the database adds to a row it inserts
    Stored          \* notes that may be stored already

E == INSTANCE EntriesWire
T == INSTANCE TagsWire
U == INSTANCE UsersWire

VARIABLES
    ask,       \* what is asked
    pc,        \* where the server is
    request,   \* the HTTP request
    method,    \* the method that is routed to: <<service, name>>
    payload,   \* what the decoder has made of the request
    scope,     \* requestScope: the user of the log line
    acting,    \* the user in the context of the method
    ran,       \* history: what the method has done
    response,  \* the answer that is written
    lines,     \* lines of the request log
    told       \* what the client has been told

vars == <<ask, pc, request, method, payload, scope, acting, ran, response, lines, told>>

Everywhere(v) == [c \in Calls |-> v]

Init ==
    /\ ask = Everywhere(Nil) /\ pc = Everywhere("idle")
    /\ request = Everywhere(Nil) /\ method = Everywhere(Nil)
    /\ payload = Everywhere(Nil) /\ scope = Everywhere(Nil)
    /\ acting = Everywhere(Nil) /\ ran = Everywhere(Nil)
    /\ response = Everywhere(Nil) /\ lines = Everywhere(<<>>)
    /\ told = Everywhere(Nil)

Goes(c, from, to) == pc[c] = from /\ pc' = [pc EXCEPT ![c] = to]
Sets(f, c, v) == f' = [f EXCEPT ![c] = v]

-----------------------------------------------------------------------------
(* The services by name. *)

Mounts ==
    {<<"entries", p>> : p \in E!Mounts} \cup {<<"tags", p>> : p \in T!Mounts}
    \cup {<<"users", p>> : p \in U!Mounts} \cup {<<"health", p>> : p \in U!HealthMounts}

Secured(m) == m[1] \in {"entries", "tags"} \/ m = <<"users", "me">>

Decodes(m, r) ==
    CASE m[1] = "entries" -> E!Decodes(m[2], r)
      [] m[1] = "tags"    -> T!Decodes(m[2], r)
      [] OTHER            -> U!Decodes(m[2], r)

Answers(m, v) ==
    CASE m[1] = "entries" -> E!Answers(m[2], v)
      [] m[1] = "tags"    -> T!Answers(m[2], v)
      [] OTHER            -> U!Answers(m[2], v)

Fails(m, out) ==
    CASE m[1] = "entries" -> E!Fails(m[2], out)
      [] m[1] = "tags"    -> T!Fails(m[2], out)
      [] OTHER            -> U!Fails(m[2], out)

Builds(m, f) ==
    CASE m[1] = "entries" -> E!Builds(m[2], f)
      [] m[1] = "tags"    -> T!Builds(m[2], f)
      [] OTHER            -> U!Builds(m[2], f)

Sends(m, p) ==
    CASE m[1] = "entries" -> E!Sends(m[2], p)
      [] m[1] = "tags"    -> T!Sends(m[2], p)
      [] OTHER            -> U!Sends(m[2], p)

Hears(m, r) ==
    CASE m[1] = "entries" -> E!Hears(m[2], r)
      [] m[1] = "tags"    -> T!Hears(m[2], r)
      [] OTHER            -> U!Hears(m[2], r)

-----------------------------------------------------------------------------
(* The methods of the services, as the endpoints see them. *)

Entry(p) ==
    [row |-> Row, entry_date |-> p.entry_date, kind |-> p.kind, title |-> p.title,
     body |-> p.body, tags |-> E!ListOf(p.tags)]

TagsStored == UNION {{[id |-> 1, name |-> j.tags[i], entry_count |-> 1] :
                        i \in DOMAIN j.tags} : j \in Stored}

Results(m, p) ==
    CASE m = <<"entries", "create">> -> {[row |-> Row, entry_date |-> p.entry_date,
                                          kind |-> p.kind, title |-> p.title,
                                          body |-> p.body, tags |-> E!ListOf(p.tags),
                                          location |-> Row]}
      [] m = <<"entries", "list">>   -> {<<>>} \cup {<<j>> : j \in Stored}
      [] m = <<"entries", "get">>    -> Stored
      [] m = <<"entries", "update">> -> {Entry(p)}
      [] m = <<"tags", "list">>      -> {<<>>} \cup {<<t>> : t \in TagsStored}
      [] m = <<"tags", "update">>    -> {[id |-> p.id, name |-> p.name, entry_count |-> 0]}
      [] m = <<"users", "register">> -> {[row |-> Row, email |-> p.email]}
      [] m = <<"users", "login">>    -> {[access_token |-> Row, token_type |-> "Bearer"]}
      [] m = <<"users", "me">>       -> {[row |-> Row, email |-> Text(9, "email")]}
      [] m[2] = "delete"             -> {Nil}
      [] m = <<"health", "check">>   -> {"OK"}

\* The errors its code answers with by name.
Errors(m) ==
    CASE m[2] \in {"get", "delete"}  -> {"not_found"}
      [] m = <<"entries", "update">> -> {"not_found"}
      [] m = <<"tags", "update">>    -> {"not_found", "conflict"}
      [] m = <<"users", "register">> -> {"conflict", "password_too_long"}
      [] m[2] \in {"login", "me"}    -> {"unauthorized"}
      [] m = <<"health", "check">>   -> {"service_unavailable"}
      [] OTHER                       -> {}

Outcomes(m, p) ==
    {Result(v) : v \in Results(m, p)} \cup {ServiceError(n) : n \in Errors(m)}
    \cup {OtherError, Panic}

\* encodeResponse or encodeError.
Answer(m, out) == IF out.is = "result" THEN Answers(m, out.value) ELSE Fails(m, out)

\* The rows are ones that a create or an update has let through.
ASSUME StoredAssumption ==
    \A j \in Stored :
        /\ j = [row |-> j.row, entry_date |-> j.entry_date, kind |-> j.kind,
                title |-> j.title, body |-> j.body, tags |-> j.tags]
        /\ j.tags # Nil /\ E!ValidNote(j) /\ \A i \in DOMAIN j.tags : j.tags[i] # Nil

\* maxRequestBody is far above what the design bounds: a body is over it by a text
\* without a maximum, or beyond its maximum.  (The objects are what the encoder of
\* the client writes; blanks and other fields make [is |-> "padded"].)
ASSUME OversizedAssumption ==
    \A b \in Oversized :
        /\ "name" \in DOMAIN b => ~T!TagName(b.name)
        /\ "email" \in DOMAIN b => ~U!Acceptable(b)

-----------------------------------------------------------------------------
(* The command line. *)

Flags == [body |-> [is |-> "text"], id |-> NaN, token |-> Nil, limit |-> 10,
          offset |-> Nil, tag |-> <<>>, q |-> Nil, from |-> Nil, to |-> Nil]

Known(m) ==
    \/ m[1] = "entries" /\ m[2] \in E!Methods
    \/ m[1] = "tags" /\ m[2] \in T!Methods
    \/ m[1] = "users" /\ m[2] \in U!Methods \ {"check"}
    \/ m = <<"health", "check">>

FlagsOf(m) ==
    CASE m = <<"entries", "list">> -> {"limit", "offset", "tag", "q", "from", "to", "token"}
      [] m[2] = "create"              -> {"body", "token"}
      [] m[2] = "update"              -> {"body", "id", "token"}
      [] m[2] \in {"get", "delete"}   -> {"id", "token"}
      [] m \in {<<"tags", "list">>, <<"users", "me">>} -> {"token"}
      [] m[2] \in {"register", "login"} -> {"body"}
      [] m[2] = "check"               -> {}

\* The flags that are given, the others at their defaults: REQUIRED for a body
\* and an id, which is neither JSON nor a number.
Given(flags) == [f \in DOMAIN Flags |-> IF f \in DOMAIN flags THEN flags[f] ELSE Flags[f]]

\* No such command, a flag that it does not have, or a value it refuses.
ParseEndpoint(a) ==
    IF Known(a.method) /\ DOMAIN a.flags \subseteq FlagsOf(a.method)
    THEN Builds(a.method, Given(a.flags)) ELSE Rejected("unknown")

Sent(a)      == a.by = "cli" => ParseEndpoint(a).ok
RequestOf(a) ==
    IF a.by = "cli" THEN Sends(a.method, ParseEndpoint(a).payload) ELSE a.request

\* The handlers that the mux finds for a request.
Routes(r) == {m \in Mounts : m[2][2] = r.verb /\ m[2][3] = r.path}

BodyFields(m) ==
    CASE m[1] = "entries" -> {"is", "entry_date", "kind", "title", "body", "tags"}
      [] m[1] = "tags"    -> {"is", "name"}
      [] m[1] = "users"   -> {"is", "email", "password"}

\* What a shell can give to a command: JSON is read into the structure of the
\* command's body, a number is one or not, and a token that is there has words.
ASSUME AsksAssumption ==
    \A c \in Calls : \A a \in Asks[c] :
        /\ a.by \in {"cli", "other"}
        /\ a.by = "cli" =>
            LET g == Given(a.flags) IN
            /\ a.method \in STRING \X STRING
            /\ Known(a.method) /\ g.body.is = "object" =>
                g.body = [f \in BodyFields(a.method) |-> g.body[f]]
            /\ g.id \in Int \cup {NaN}
            /\ g.token # Nil =>
                /\ g.token # <<>> /\ g.token \in Seq({g.token[i] : i \in DOMAIN g.token})
                /\ Authorization(g.token) # Nil

\* nil and what is not a number are none of the other values,
ASSUME NilAssumption ==
    /\ Nil # NaN /\ Nil \notin Int /\ NaN \notin Int
    /\ Nil \notin {<<>>, Empty, Text(9, "email"), Row, [is |-> "lost"], Panic}
    /\ \A n \in {400, 401, 404, 405} :
        /\ Response(n, Nil) # Nil
        /\ \A e \in {"missing_payload", "decode_payload", "invalid", "unauthorized"} :
            Response(n, ErrorBody(e)) # Nil

\* and nothing that is passed about is nil.
ASSUME PassedAssumption ==
    \A c \in Calls : \A a \in Asks[c] :
        /\ a # Nil
        /\ Sent(a) =>
            /\ RequestOf(a) # Nil
            /\ \A x \in Routes(RequestOf(a)) :
                LET m == <<x[1], x[2][1]>>
                    d == Decodes(m, RequestOf(a))
                IN d.ok =>
                    /\ Secured(m) => d.payload # Nil
                    /\ \A out \in Outcomes(m, d.payload) :
                        out # Nil /\ (out # Panic => Answer(m, out) # Nil)

Command(c) ==
    \E a \in {x \in Asks[c] : x.by = "cli"} :
        /\ Goes(c, "idle", IF Sent(a) THEN "sent" ELSE "unsent")
        /\ Sets(ask, c, a)
        /\ Sets(request, c, IF Sent(a) THEN RequestOf(a) ELSE Nil)
        /\ Sets(told, c, IF Sent(a) THEN Nil ELSE [is |-> "usage"])
        /\ UNCHANGED <<method, payload, scope, acting, ran, response, lines>>

\* curl, a browser, the smoke test.
OtherClient(c) ==
    \E a \in {x \in Asks[c] : x.by = "other"} :
        /\ Goes(c, "idle", "sent")
        /\ Sets(ask, c, a) /\ Sets(request, c, RequestOf(a))
        /\ UNCHANGED <<method, payload, scope, acting, ran, response, lines, told>>

Waiting(c) == request[c] # Nil /\ told[c] = Nil

\* The answer arrives: the command reads it, another client takes it as it is.
Hear(c) ==
    /\ Waiting(c) /\ response[c] # Nil
    /\ Sets(told, c, IF ask[c].by = "cli" THEN Hears(ask[c].method, response[c])
                     ELSE [is |-> "response", response |-> response[c]])
    /\ UNCHANGED <<ask, pc, request, method, payload, scope, acting, ran, response, lines>>

\* --timeout is over, or the connection is closed.
HearNothing(c) ==
    /\ Waiting(c)
    /\ Sets(told, c, [is |-> "lost"])
    /\ UNCHANGED <<ask, pc, request, method, payload, scope, acting, ran, response, lines>>

-----------------------------------------------------------------------------
(* The server. *)

\* RequestLog: a scope of the request's own.
Begin(c) ==
    /\ Goes(c, "sent", "begun")
    /\ Sets(scope, c, Nil)
    /\ UNCHANGED <<ask, request, method, payload, acting, ran, response, lines, told>>

Write(c, from, r) == Goes(c, from, "written") /\ Sets(response, c, r)

Route(c) ==
    /\ Goes(c, "begun", "routed")
    /\ \E m \in Routes(request[c]) : Sets(method, c, <<m[1], m[2][1]>>)
    /\ UNCHANGED <<ask, request, payload, scope, acting, ran, response, lines, told>>

\* The mux: no such path, or another verb.
NoRoute(c) ==
    /\ pc[c] = "begun" /\ Routes(request[c]) = {}
    /\ Write(c, "begun",
             Response(IF \E m \in Mounts : m[2][3] = request[c].path THEN 405 ELSE 404, Nil))
    /\ UNCHANGED <<ask, request, method, payload, scope, acting, ran, lines, told>>

\* decodeRequest.
Decode(c) ==
    LET d == Decodes(method[c], request[c]) IN
    /\ pc[c] = "routed" /\ d.ok
    /\ Goes(c, "routed", IF Secured(method[c]) THEN "decoded" ELSE "entered")
    /\ Sets(payload, c, d.payload)
    /\ UNCHANGED <<ask, request, method, scope, acting, ran, response, lines, told>>

ReadsBody(m) == m[2] \in {"create", "update", "register", "login"}

\* Mutant: the handler does not return after the error.
DecodeFails_GoesOn(c) ==
    LET d == Decodes(method[c], request[c]) IN
    /\ pc[c] = "routed" /\ ~d.ok
    /\ Goes(c, "routed", "decoded")
    /\ Sets(response, c, Fails(method[c], ServiceError(d.error)))
    /\ UNCHANGED <<ask, request, method, payload, scope, acting, ran, lines, told>>

\* The body is cut short when the client has left.
DecodeFails(c) ==
    LET d == Decodes(method[c], request[c]) IN
    /\ pc[c] = "routed"
    /\ \/ ~d.ok /\ Write(c, "routed", Fails(method[c], ServiceError(d.error)))
       \/ /\ told[c] # Nil /\ ReadsBody(method[c])
          /\ Write(c, "routed", Fails(method[c], ServiceError("decode_payload")))
    /\ UNCHANGED <<ask, request, method, payload, scope, acting, ran, lines, told>>

Good(token) == token # Nil /\ token \in DOMAIN TokenOf

\* Mutant: one scope for all requests of the middleware.
JWTAuth_SharedScope(c) ==
    LET u == TokenOf[payload[c].token] IN
    /\ Goes(c, "decoded", "entered")
    /\ Good(payload[c].token)
    /\ scope' = Everywhere(u) /\ Sets(acting, c, u)
    /\ UNCHANGED <<ask, request, method, payload, ran, response, lines, told>>

\* The endpoint calls JWTAuth, and ContextWithUserID tells the log.
JWTAuth(c) ==
    LET u == TokenOf[payload[c].token] IN
    /\ Goes(c, "decoded", "entered")
    /\ Good(payload[c].token)
    /\ Sets(scope, c, u) /\ Sets(acting, c, u)
    /\ UNCHANGED <<ask, request, method, payload, ran, response, lines, told>>

RejectToken(c) ==
    /\ pc[c] = "decoded" /\ ~Good(payload[c].token)
    /\ Write(c, "decoded", Fails(method[c], ServiceError("unauthorized")))
    /\ UNCHANGED <<ask, request, method, payload, scope, acting, ran, lines, told>>

\* The method, whether or not somebody still waits for its answer.
Run(c) ==
    /\ Goes(c, "entered", "ran")
    /\ \E out \in Outcomes(method[c], payload[c]) : Sets(ran, c, out)
    /\ UNCHANGED <<ask, request, method, payload, scope, acting, response, lines, told>>

Encode(c) ==
    /\ pc[c] = "ran" /\ ran[c] # Panic
    /\ Write(c, "ran", Answer(method[c], ran[c]))
    /\ UNCHANGED <<ask, request, method, payload, scope, acting, ran, lines, told>>

LogLine(c, status, panic) ==
    Sets(lines, c, Append(lines[c], [status |-> status, user |-> scope[c], panic |-> panic]))

\* The deferred function of RequestLog.
Log(c) ==
    /\ Goes(c, "written", "logged")
    /\ LogLine(c, response[c].status, FALSE)
    /\ UNCHANGED <<ask, request, method, payload, scope, acting, ran, response, told>>

\* Mutant: the line is not deferred.
LogPanic_None(c) ==
    /\ Goes(c, "ran", "logged") /\ ran[c] = Panic
    /\ UNCHANGED <<ask, request, method, payload, scope, acting, ran, response, lines, told>>

\* The panic passes through: the line says 500, and net/http closes the
\* connection without an answer.
LogPanic(c) ==
    /\ Goes(c, "ran", "logged") /\ ran[c] = Panic
    /\ LogLine(c, 500, TRUE)
    /\ UNCHANGED <<ask, request, method, payload, scope, acting, ran, response, told>>

-----------------------------------------------------------------------------

Serve(c) ==
    \/ Route(c) \/ NoRoute(c) \/ Decode(c) \/ DecodeFails(c)
    \/ JWTAuth(c) \/ RejectToken(c) \/ Run(c) \/ Encode(c) \/ Log(c) \/ LogPanic(c)

Next ==
    \E c \in Calls :
        Command(c) \/ OtherClient(c) \/ Hear(c) \/ HearNothing(c) \/ Begin(c) \/ Serve(c)

Spec == Init /\ [][Next]_vars

\* The goroutine of a request goes on; that a method returns is Server's
\* subject.  net/http's client gives up in the end.
FairSpec ==
    /\ Spec
    /\ \A c \in Calls : WF_vars(Serve(c)) /\ WF_vars(Hear(c) \/ HearNothing(c))

=============================================================================
