------------------------------ MODULE UsersWire ------------------------------
(***************************************************************************)
(* The services users and health on the wire (gen/http/users, gen/users,   *)
(* gen/http/health, gen/health).  `row` stands for the id of a user and    *)
(* the time of registration, which are copied.                             *)
(***************************************************************************)
EXTENDS Wire

Methods == {"register", "login", "me", "check"}

Mounts == { <<"register", "POST", "/users">>,
            <<"login",    "POST", "/users/login">>,
            <<"me",       "GET",  "/users/me">> }

HealthMounts == { <<"check", "GET", "/health">> }

-----------------------------------------------------------------------------
(* Server. *)

Acceptable(b) ==
    /\ b.email.form = "email" /\ b.email.chars <= 254
    /\ b.password.chars \in 8..72

ValidateRegisterRequestBody(b) == b.email # Nil /\ b.password # Nil /\ Acceptable(b)
ValidateLoginRequestBody(b)    == b.email # Nil /\ b.password # Nil

NewRegisterCredentials(b) == [email |-> b.email, password |-> b.password]
NewLoginPayload(b)        == [email |-> b.email, password |-> b.password]
NewMePayload(token)       == [token |-> token]

DecodeRegisterRequest(r) ==
    FromBody(r.body, ValidateRegisterRequestBody(r.body), NewRegisterCredentials(r.body))
DecodeLoginRequest(r) ==
    FromBody(r.body, ValidateLoginRequestBody(r.body), NewLoginPayload(r.body))
DecodeMeRequest(r) == Decoded(NewMePayload(Credential(r.auth)))

\* No decoder: the endpoint gets no payload.
NewCheckHandler(r) == Decoded(Nil)

User(u) == [row |-> u.row, email |-> u.email]
Token(t) == [access_token |-> t.access_token, token_type |-> t.token_type]

NewRegisterResponseBody(u) == User(u)
NewLoginResponseBody(t)    == Token(t)
NewMeResponseBody(u)       == User(u)

EncodeRegisterResponse(u) == Response(201, NewRegisterResponseBody(u))
EncodeLoginResponse(t)    == Response(200, NewLoginResponseBody(t))
EncodeMeResponse(u)       == Response(200, NewMeResponseBody(u))
EncodeCheckResponse(s)    == Response(200, s)

EncodeRegisterError(out) ==
    EncodeError(out, [conflict |-> 409, password_too_long |-> 400])
EncodeLoginError(out) == EncodeError(out, [unauthorized |-> 401])
EncodeMeError(out)    == EncodeError(out, [unauthorized |-> 401])
EncodeCheckError(out) == EncodeError(out, [service_unavailable |-> 503])

-----------------------------------------------------------------------------
(* Client. *)

NewRegisterRequestBody(p) == [is |-> "object", email |-> p.email, password |-> p.password]
NewLoginRequestBody(p)    == [is |-> "object", email |-> p.email, password |-> p.password]

BuildRegisterRequest(p) == Request("POST", "/users")
BuildLoginRequest(p)    == Request("POST", "/users/login")
BuildMeRequest(p)       == Request("GET", "/users/me")
BuildCheckRequest(p)    == Request("GET", "/health")

EncodeRegisterRequest(r, p) == [r EXCEPT !.body = NewRegisterRequestBody(p)]
EncodeLoginRequest(r, p)    == [r EXCEPT !.body = NewLoginRequestBody(p)]
EncodeMeRequest(r, p)       == [r EXCEPT !.auth = Authorization(p.token)]

ValidateRegisterResponseBody(b) == b.row # Nil /\ b.email # Nil /\ b.email.form = "email"
ValidateLoginResponseBody(b)    == b.access_token # Nil /\ b.token_type = "Bearer"
ValidateMeResponseBody(b)       == b.row # Nil /\ b.email # Nil /\ b.email.form = "email"

NewRegisterUserCreated(b)  == User(b)
NewLoginTokenResponseOK(b) == Token(b)
NewMeUserOK(b)             == User(b)

\* Every 400 is read as password_too_long's body, and keeps its own name.
DecodeRegisterResponse(r) ==
    Told(r, 201, ValidateRegisterResponseBody(r.body), NewRegisterUserCreated(r.body),
         {409, 400})

DecodeLoginResponse(r) ==
    Told(r, 200, ValidateLoginResponseBody(r.body), NewLoginTokenResponseOK(r.body),
         {401})

DecodeMeResponse(r) ==
    Told(r, 200, ValidateMeResponseBody(r.body), NewMeUserOK(r.body), {401})

DecodeCheckResponse(r) == Told(r, 200, TRUE, r.body, {503})

-----------------------------------------------------------------------------
(* Command line.  login checks nothing. *)

Filled(b) == [b EXCEPT !.email = OrEmpty(@), !.password = OrEmpty(@)]

\* Mutant: register checks nothing, as login does.
BuildRegisterPayload_Unchecked(f) ==
    FromFlag(f.body, TRUE, NewRegisterCredentials(Filled(f.body)))

BuildRegisterPayload(f) ==
    FromFlag(f.body, Acceptable(Filled(f.body)), NewRegisterCredentials(Filled(f.body)))
BuildLoginPayload(f) == FromFlag(f.body, TRUE, NewLoginPayload(Filled(f.body)))
BuildMePayload(f)    == Decoded(NewMePayload(f.token))

-----------------------------------------------------------------------------
(* The methods by name. *)

Sends(m, p) ==
    CASE m = "register" -> EncodeRegisterRequest(BuildRegisterRequest(p), p)
      [] m = "login"    -> EncodeLoginRequest(BuildLoginRequest(p), p)
      [] m = "me"       -> EncodeMeRequest(BuildMeRequest(p), p)
      [] m = "check"    -> BuildCheckRequest(p)

Hears(m, r) ==
    CASE m = "register" -> DecodeRegisterResponse(r)
      [] m = "login"    -> DecodeLoginResponse(r)
      [] m = "me"       -> DecodeMeResponse(r)
      [] m = "check"    -> DecodeCheckResponse(r)

Decodes(m, r) ==
    CASE m = "register" -> DecodeRegisterRequest(r)
      [] m = "login"    -> DecodeLoginRequest(r)
      [] m = "me"       -> DecodeMeRequest(r)
      [] m = "check"    -> NewCheckHandler(r)

Answers(m, v) ==
    CASE m = "register" -> EncodeRegisterResponse(v)
      [] m = "login"    -> EncodeLoginResponse(v)
      [] m = "me"       -> EncodeMeResponse(v)
      [] m = "check"    -> EncodeCheckResponse(v)

Fails(m, out) ==
    CASE m = "register" -> EncodeRegisterError(out)
      [] m = "login"    -> EncodeLoginError(out)
      [] m = "me"       -> EncodeMeError(out)
      [] m = "check"    -> EncodeCheckError(out)

Builds(m, f) ==
    CASE m = "register" -> BuildRegisterPayload(f)
      [] m = "login"    -> BuildLoginPayload(f)
      [] m = "me"       -> BuildMePayload(f)
      [] m = "check"    -> Decoded(Nil)

=============================================================================
