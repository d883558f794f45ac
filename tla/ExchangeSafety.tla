--------------------------- MODULE ExchangeSafety ---------------------------
(***************************************************************************)
(* What the wire promises on both ends.  Left out of a comparison: a nil   *)
(* list of tags, which means the same to the services as an empty one.     *)
(***************************************************************************)
EXTENDS Exchange

ByCommand(c) == ask[c] # Nil /\ ask[c].by = "cli"

\* One type invariant: each stage leaves what the next one needs.
TypeOK ==
    /\ pc \in [Calls -> {"idle", "unsent", "sent", "begun", "routed", "decoded",
                         "entered", "ran", "written", "logged"}]
    /\ DOMAIN ask = Calls
    /\ \A c \in Calls :
        /\ ask[c] \in Asks[c] \cup {Nil}
        /\ (pc[c] = "idle") = (ask[c] = Nil)
        /\ pc[c] \notin {"idle", "unsent"} => request[c] # Nil
        /\ pc[c] \in {"routed", "decoded", "entered", "ran"} => Known(method[c])
        /\ pc[c] \in {"decoded", "entered"} => response[c] = Nil /\ ran[c] = Nil
        /\ pc[c] = "written" => response[c] # Nil

-----------------------------------------------------------------------------
(* What design/design.go says of a payload. *)

DesignNote(p) ==
    /\ p.entry_date # Nil /\ p.entry_date.form = "date"
    /\ p.kind # Nil /\ p.kind.form \in {"til", "diary"}
    /\ p.title # Nil /\ p.title.chars >= 1
    /\ p.tags # Nil =>
        /\ Len(p.tags) <= 20
        /\ \A i \in DOMAIN p.tags :
            p.tags[i].chars \in 1..50 /\ p.tags[i].form # "loose"

Design(m, p) ==
    CASE m[1] = "entries" /\ m[2] \in {"create", "update"} -> DesignNote(p)
      [] m = <<"entries", "list">> ->
            /\ p.limit \in 1..100 /\ p.offset >= 0 /\ Len(p.tag) <= 20
            /\ \A i \in DOMAIN p.tag : p.tag[i].chars \in 1..50 /\ p.tag[i].form # "loose"
            /\ p.q # Nil => p.q.chars \in 1..100
            /\ \A d \in {p.from, p.to} : d # Nil => d.form = "date"
      [] m = <<"tags", "update">> -> p.name.chars \in 1..50 /\ p.name.form # "loose"
      [] m = <<"users", "register">> ->
            /\ p.email.form = "email" /\ p.email.chars <= 254
            /\ p.password.chars \in 8..72
      [] OTHER -> TRUE

\* A method is entered only with a payload that the design allows, and a secured
\* one only as the user of the token that came with this very request, whoever
\* else is served at the same time (generated decoders and endpoints, JWTAuth).
ServiceSeesDesign ==
    \A c \in Calls : pc[c] \in {"entered", "ran"} =>
        /\ Design(method[c], payload[c])
        /\ Secured(method[c]) =>
            acting[c] = TokenOf[Credential(request[c].auth)]

-----------------------------------------------------------------------------

\* What a flag of the command means for a field of the payload.
Meant(a, f) ==
    LET g == Given(a.flags)
        b == g.body
    IN CASE f = "token" -> Credential(g.token)
         [] f # "token" /\ b.is = "object" /\ f \in DOMAIN b -> b[f]
         [] f # "token" /\ ~(b.is = "object" /\ f \in DOMAIN b) -> g[f]

SameField(f, is, meant) ==
    \/ is = meant
    \/ f = "tags" /\ E!ListOf(is) = E!ListOf(meant)
    \/ f = "offset" /\ meant = Nil /\ is = 0
    \/ f \in {"email", "password"} /\ meant = Nil /\ is = Empty

\* What a method receives is what the flags of the command said, field by field,
\* after five structures, a URL, a header and JSON (generated Build*Payload,
\* Encode*Request, Decode*Request, New*).
AsAsked ==
    \A c \in Calls : ByCommand(c) /\ payload[c] # Nil =>
        \A f \in DOMAIN payload[c] : SameField(f, payload[c][f], Meant(ask[c], f))

\* Methods whose body has a text without a maximum.
Unbounded == {<<"entries", "create">>, <<"entries", "update">>, <<"users", "login">>}

\* The two validations agree: the decoder refuses no command that the command
\* line accepts, unless its body did not arrive, its --limit was empty, or its body
\* is over the 1 MiB of the server, which only a note and a login can be: their
\* texts have no maximum on the command line (generated Build*Payload and
\* Validate*RequestBody; maxRequestBody).
CommandsAgree ==
    \A c \in Calls :
        ByCommand(c) /\ pc[c] \in {"written", "logged"} /\ response[c] # Nil
          /\ ran[c] = Nil /\ told[c] # [is |-> "lost"]
        => \/ response[c].status = 401
           \/ ask[c].method = <<"entries", "list">> /\ Given(ask[c].flags).limit = Nil
           \/ ask[c].method \in Unbounded /\ request[c].body \in Oversized

-----------------------------------------------------------------------------

Success(m) == CASE m[2] \in {"create", "register"} -> 201
                [] m[2] = "delete"                 -> 204
                [] OTHER                           -> 200

StatusOf == [unauthorized |-> 401, not_found |-> 404, conflict |-> 409,
             password_too_long |-> 400, service_unavailable |-> 503]

\* The status of every answer is the one the design gives to what happened: the
\* method's result, its declared error under that name, 500 without the cause
\* for any other, and no success for what did not run (Encode*Response,
\* Encode*Error, errorFormatter).
StatusContract ==
    \A c \in Calls : response[c] # Nil =>
        IF ran[c] = Nil THEN
            \/ payload[c] = Nil /\ response[c].status \in {400, 404, 405}
            \/ payload[c] # Nil /\ response[c].status = 401
        ELSE CASE ran[c].is = "result" ->
                    /\ response[c].status = Success(method[c])
                    /\ method[c] = <<"entries", "create">> =>
                        response[c].location = ran[c].value.location
               [] ran[c].is = "error" ->
                    /\ response[c].status = StatusOf[ran[c].name]
                    /\ response[c].body["name"] = ran[c].name
               [] ran[c].is = "failure" ->
                    response[c].status = 500 /\ response[c].body["name"] = "fault"

-----------------------------------------------------------------------------

WhoAsked(c) ==
    IF payload[c] # Nil /\ Secured(method[c]) /\ Good(payload[c].token)
    THEN TokenOf[payload[c].token] ELSE Nil

\* Every request has one line in the log, with the status of its own answer, and
\* with the user of its own token exactly when that token was accepted, whatever
\* other requests do meanwhile; a panic has its line too (reqlog.go).
OneLine ==
    \A c \in Calls :
        IF pc[c] # "logged" THEN lines[c] = <<>>
        ELSE lines[c] = << [status |-> IF ran[c] = Panic THEN 500 ELSE response[c].status,
                            user   |-> WhoAsked(c),
                            panic  |-> ran[c] = Panic] >>

\* A request that has begun gets its line, whatever the method does and whether
\* or not the client waits for it (reqlog.go: the deferred line).
EveryRequestLogged == \A c \in Calls : pc[c] = "begun" ~> lines[c] # <<>>

-----------------------------------------------------------------------------

Meaning(c) ==
    IF told[c] = Nil THEN Nil
    ELSE IF ask[c].by = "cli" THEN
        CASE told[c].is \in {"usage", "lost"} ->
                [is |-> IF told[c].is = "usage" THEN "refused" ELSE "lost"]
          [] told[c].is = "error" /\ ran[c] = Nil      -> [is |-> "refused"]
          [] told[c].is = "unexpected" /\ ran[c] = Nil -> [is |-> "refused"]
          [] told[c].is = "unexpected" /\ ran[c] # Nil /\ told[c].status = 500 ->
                [is |-> "failed"]
          [] OTHER -> told[c]
    ELSE IF told[c].is = "lost" THEN told[c]
    ELSE IF ran[c] = Nil THEN [is |-> "refused"]
    ELSE IF ran[c].is = "failure" THEN [is |-> "failed"]
    ELSE ran[c]

RpcCalls == INSTANCE Rpc WITH told <- [c \in Calls |-> Meaning(c)]

\* A command is told what the method did and nothing else: its result, with the
\* tags and the Location, or its error, under its name; a refusal means that
\* nothing ran or will run; and the method runs at most once (generated clients and
\* servers; cmd/life-cli).
RpcSpec == RpcCalls!Spec

-----------------------------------------------------------------------------
(* The inductive invariant of the proofs: what each stage of an exchange   *)
(* leaves behind is a function of the stage before it.                     *)

Typed ==
    /\ pc \in [Calls -> {"idle", "unsent", "sent", "begun", "routed", "decoded",
                         "entered", "ran", "written", "logged"}]
    /\ DOMAIN ask = Calls /\ DOMAIN request = Calls /\ DOMAIN method = Calls
    /\ DOMAIN payload = Calls /\ DOMAIN scope = Calls /\ DOMAIN acting = Calls
    /\ DOMAIN ran = Calls /\ DOMAIN response = Calls /\ DOMAIN lines = Calls
    /\ DOMAIN told = Calls

Lost  == [is |-> "lost"]
Clean(c) == payload[c] = Nil /\ scope[c] = Nil
Unrun(c) == ran[c] = Nil /\ response[c] = Nil

Asked(c) ==
    /\ ask[c] \in Asks[c] /\ Sent(ask[c]) /\ request[c] = RequestOf(ask[c])

OnRoute(c) ==
    Asked(c) /\ \E x \in Routes(request[c]) : method[c] = <<x[1], x[2][1]>>

Taken(c) ==
    LET d == Decodes(method[c], request[c]) IN OnRoute(c) /\ d.ok /\ payload[c] = d.payload

Admitted(c) ==
    /\ Taken(c)
    /\ scope[c] = IF Secured(method[c]) THEN TokenOf[payload[c].token] ELSE Nil
    /\ Secured(method[c]) => Good(payload[c].token) /\ acting[c] = scope[c]

Finished(c) == Admitted(c) /\ ran[c] \in Outcomes(method[c], payload[c])

\* How an exchange ends: nowhere to go, a payload that is refused or cut short,
\* a token that is refused, an answer of the method, a panic.
Unrouted(c) ==
    /\ Asked(c) /\ Clean(c) /\ ran[c] = Nil /\ Routes(request[c]) = {}
    /\ response[c] \in {Response(404, Nil), Response(405, Nil)}

Refused(c) ==
    /\ OnRoute(c) /\ Clean(c) /\ ran[c] = Nil
    /\ \E e \in {"missing_payload", "decode_payload", "invalid"} :
        response[c] = Fails(method[c], ServiceError(e))
    /\ told[c] # Lost => ~Decodes(method[c], request[c]).ok

Unauthorized(c) ==
    /\ Taken(c) /\ Secured(method[c]) /\ ~Good(payload[c].token)
    /\ scope[c] = Nil /\ ran[c] = Nil
    /\ response[c] = Fails(method[c], ServiceError("unauthorized"))

Answered(c) == Finished(c) /\ ran[c] # Panic /\ response[c] = Answer(method[c], ran[c])
Panicked(c) == Finished(c) /\ ran[c] = Panic /\ response[c] = Nil

Written(c) == Unrouted(c) \/ Refused(c) \/ Unauthorized(c) \/ Answered(c)

Stage(c) ==
    /\ pc[c] = "idle" => ask[c] = Nil /\ request[c] = Nil /\ Clean(c) /\ Unrun(c)
    /\ pc[c] = "unsent" => /\ ask[c] \in Asks[c] /\ ask[c].by = "cli"
                           /\ request[c] = Nil /\ Clean(c) /\ Unrun(c)
    /\ pc[c] \in {"sent", "begun"} => Asked(c) /\ Clean(c) /\ Unrun(c)
    /\ pc[c] = "routed" => OnRoute(c) /\ Clean(c) /\ Unrun(c)
    /\ pc[c] = "decoded" => Taken(c) /\ Secured(method[c]) /\ scope[c] = Nil /\ Unrun(c)
    /\ pc[c] = "entered" => Admitted(c) /\ Unrun(c)
    /\ pc[c] = "ran" => Finished(c) /\ response[c] = Nil
    /\ pc[c] = "written" => Written(c)
    /\ pc[c] = "logged" => Written(c) \/ Panicked(c)

Line(c) ==
    lines[c] = IF pc[c] # "logged" THEN <<>>
               ELSE << [status |-> IF ran[c] = Panic THEN 500 ELSE response[c].status,
                        user   |-> scope[c],
                        panic  |-> ran[c] = Panic] >>

Heard(c) ==
    IF ask[c].by = "cli" THEN Hears(ask[c].method, response[c])
    ELSE [is |-> "response", response |-> response[c]]

Informed(c) ==
    \/ told[c] = Nil
    \/ told[c] = Lost /\ request[c] # Nil
    \/ pc[c] = "unsent" /\ told[c] = [is |-> "usage"]
    \/ request[c] # Nil /\ response[c] # Nil /\ told[c] = Heard(c)

IInv == Typed /\ \A c \in Calls : Stage(c) /\ Line(c) /\ Informed(c)

=============================================================================
