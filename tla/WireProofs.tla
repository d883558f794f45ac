----------------------------- MODULE WireProofs -----------------------------
(***************************************************************************)
(* What the generated code of the server, the client and the command line  *)
(* do with one and the same request, method by method: facts about the     *)
(* operators of the wire, for every request, payload and result.           *)
(***************************************************************************)
EXTENDS ExchangeSafety, SequenceTheorems, TLAPS

AllMethods ==
    {<<"entries", "create">>, <<"entries", "list">>, <<"entries", "get">>,
     <<"entries", "update">>, <<"entries", "delete">>,
     <<"tags", "list">>, <<"tags", "update">>, <<"tags", "delete">>,
     <<"users", "register">>, <<"users", "login">>, <<"users", "me">>,
     <<"health", "check">>}

\* The mux leads to the twelve methods.
LEMMA MountsAre ==
    ASSUME NEW x \in Mounts
    PROVE  <<x[1], x[2][1]>> \in AllMethods
<1>1. \A p \in E!Mounts : p[1] \in {"create", "list", "get", "update", "delete"}
  BY DEF E!Mounts
<1>2. \A p \in T!Mounts : p[1] \in {"list", "update", "delete"}
  BY DEF T!Mounts
<1>3. \A p \in U!Mounts : p[1] \in {"register", "login", "me"}
  BY DEF U!Mounts
<1>4. \A p \in U!HealthMounts : p[1] = "check"
  BY DEF U!HealthMounts
<1>5. PICK s \in {"entries", "tags", "users", "health"}, p \in {x[2]} :
              /\ x = <<s, p>>
              /\ s = "entries" => p \in E!Mounts
              /\ s = "tags" => p \in T!Mounts
              /\ s = "users" => p \in U!Mounts
              /\ s = "health" => p \in U!HealthMounts
  BY DEF Mounts
<1>6. <<s, p[1]>> \in AllMethods
  BY <1>1, <1>2, <1>3, <1>4, <1>5 DEF AllMethods
<1> QED BY <1>5, <1>6

\* A command that is known is one of them.
LEMMA KnownAre ==
    ASSUME NEW m \in STRING \X STRING, Known(m)
    PROVE  m \in AllMethods
BY DEF Known, E!Methods, T!Methods, U!Methods, AllMethods

\* And each of them is known.
LEMMA AllAreKnown ==
    ASSUME NEW m \in AllMethods
    PROVE  Known(m)
BY DEF Known, E!Methods, T!Methods, U!Methods, AllMethods

-----------------------------------------------------------------------------
(* The decoder of each method. *)

Errors3 == {"missing_payload", "decode_payload", "invalid"}

\* A decoder answers with a payload or with one of three errors.
LEMMA DecoderErrors ==
    ASSUME NEW m \in AllMethods, NEW r, ~Decodes(m, r).ok
    PROVE  Decodes(m, r).error \in Errors3
<1> USE DEF AllMethods, Decodes, Errors3
<1>1. CASE m[1] = "entries"
  BY <1>1 DEF E!Decodes, E!DecodeCreateRequest, E!DecodeListRequest, E!DecodeGetRequest,
     E!DecodeUpdateRequest, E!DecodeDeleteRequest, E!FromBody, E!Checked, E!Decoded, E!Rejected
<1>2. CASE m[1] = "tags"
  BY <1>2 DEF T!Decodes, T!DecodeListRequest, T!DecodeUpdateRequest, T!DecodeDeleteRequest,
     T!FromBody, T!Checked, T!Decoded, T!Rejected
<1>3. CASE m[1] \in {"users", "health"}
  BY <1>3 DEF U!Decodes, U!DecodeRegisterRequest, U!DecodeLoginRequest, U!DecodeMeRequest,
     U!NewCheckHandler, U!FromBody, U!Checked, U!Decoded, U!Rejected
<1> QED BY <1>1, <1>2, <1>3

-----------------------------------------------------------------------------
(* The encoders. *)

\* The three ways in which EncodeError answers: a declared error, one that is not,
\* and the fault.
LEMMA ErrorEncoders ==
    ASSUME NEW declared, NEW n, n # "fault"
    PROVE  /\ n \in DOMAIN declared =>
                EncodeError(ServiceError(n), declared) = Response(declared[n], ErrorBody(n))
           /\ n \notin DOMAIN declared =>
                EncodeError(ServiceError(n), declared) = Response(400, ErrorBody(n))
           /\ EncodeError(OtherError, declared) = Response(500, ErrorBody("fault"))
BY DEF EncodeError, encodeError, errorFormatter, ErrorBody, ServiceError, OtherError,
       ErrorFields

\* The modules of the three services have the same wire.
LEMMA SameWire ==
    ASSUME NEW out, NEW declared
    PROVE  /\ E!EncodeError(out, declared) = EncodeError(out, declared)
           /\ T!EncodeError(out, declared) = EncodeError(out, declared)
           /\ U!EncodeError(out, declared) = EncodeError(out, declared)
BY DEF EncodeError, encodeError, errorFormatter, ErrorBody, ErrorFields, Response,
   E!EncodeError, E!encodeError, E!errorFormatter, E!ErrorBody, E!ErrorFields, E!Response,
   T!EncodeError, T!encodeError, T!errorFormatter, T!ErrorBody, T!ErrorFields, T!Response,
   U!EncodeError, U!encodeError, U!errorFormatter, U!ErrorBody, U!ErrorFields, U!Response

\* The errors that each method declares.
Declared(m) ==
    CASE m \in {<<"entries", "create">>, <<"entries", "list">>, <<"tags", "list">>,
               <<"users", "login">>, <<"users", "me">>} -> [unauthorized |-> 401]
      [] m \in {<<"entries", "get">>, <<"entries", "update">>, <<"entries", "delete">>,
               <<"tags", "delete">>} -> [not_found |-> 404, unauthorized |-> 401]
      [] m = <<"tags", "update">> -> [not_found |-> 404, conflict |-> 409, unauthorized |-> 401]
      [] m = <<"users", "register">> -> [conflict |-> 409, password_too_long |-> 400]
      [] m = <<"health", "check">> -> [service_unavailable |-> 503]

\* The encoder of a method tells apart the errors declared for it, and no others.
LEMMA FailsAre ==
    ASSUME NEW m \in AllMethods, NEW out
    PROVE  Fails(m, out) = EncodeError(out, Declared(m))
<1> USE SameWire DEF AllMethods, Declared, Fails
<1>1. CASE m[1] = "entries"
  BY <1>1 DEF E!Fails, E!EncodeCreateError, E!EncodeListError, E!EncodeGetError,
     E!EncodeUpdateError, E!EncodeDeleteError
<1>2. CASE m[1] = "tags"
  BY <1>2 DEF T!Fails, T!EncodeListError, T!EncodeUpdateError, T!EncodeDeleteError
<1>3. CASE m[1] \in {"users", "health"}
  BY <1>3 DEF U!Fails, U!EncodeRegisterError, U!EncodeLoginError, U!EncodeMeError,
     U!EncodeCheckError
<1> QED BY <1>1, <1>2, <1>3

\* The error of a method is answered with the status the design gives to its name.
LEMMA DeclaredErrors ==
    ASSUME NEW m \in AllMethods,
           NEW n \in Errors(m) \cup (IF Secured(m) THEN {"unauthorized"} ELSE {})
    PROVE  Fails(m, ServiceError(n)) = Response(StatusOf[n], ErrorBody(n))
<1>1. n # "fault" /\ n \in DOMAIN Declared(m) /\ Declared(m)[n] = StatusOf[n]
  BY DEF AllMethods, Errors, Secured, Declared, StatusOf
<1> QED BY <1>1, FailsAre, ErrorEncoders

\* The decoder's errors are answered with 400,
LEMMA DecoderStatus ==
    ASSUME NEW m \in AllMethods, NEW n \in Errors3
    PROVE  Fails(m, ServiceError(n)) = Response(400, ErrorBody(n))
<1>1. n # "fault" /\ n \notin DOMAIN Declared(m)
  BY DEF AllMethods, Errors3, Declared
<1> QED BY <1>1, FailsAre, ErrorEncoders

\* and all others with 500, without their cause.
LEMMA FaultStatus ==
    ASSUME NEW m \in AllMethods
    PROVE  Fails(m, OtherError) = Response(500, ErrorBody("fault"))
<1>1. "other" # "fault"
  OBVIOUS
<1> QED BY <1>1, FailsAre, ErrorEncoders

\* A result is answered with the status of success, and a new note with its place.
LEMMA SuccessStatus ==
    ASSUME NEW m \in AllMethods, NEW v
    PROVE  /\ Answers(m, v).status = Success(m)
           /\ m = <<"entries", "create">> => Answers(m, v).location = v.location
<1> USE DEF AllMethods, Answers, Success
<1>1. CASE m[1] = "entries"
  BY <1>1 DEF E!Answers, E!EncodeCreateResponse, E!EncodeListResponse, E!EncodeGetResponse,
     E!EncodeUpdateResponse, E!EncodeDeleteResponse, E!Response
<1>2. CASE m[1] = "tags"
  BY <1>2 DEF T!Answers, T!EncodeListResponse, T!EncodeUpdateResponse,
     T!EncodeDeleteResponse, T!Response
<1>3. CASE m[1] \in {"users", "health"}
  BY <1>3 DEF U!Answers, U!EncodeRegisterResponse, U!EncodeLoginResponse,
     U!EncodeMeResponse, U!EncodeCheckResponse, U!Response
<1> QED BY <1>1, <1>2, <1>3

-----------------------------------------------------------------------------
(* What a decoder lets through. *)

\* Entries and tags ask the same of a tag name.
LEMMA SameNames ==
    ASSUME NEW s
    PROVE  /\ E!TagNames(s) = TagNames(s) /\ T!TagName(s) = TagName(s)
BY DEF E!TagNames, E!TagName, E!Trimmed, TagNames, TagName, Trimmed, T!TagName, T!Trimmed

\* A tag list that passes is within the limits of the design.
LEMMA TagNamesAre ==
    ASSUME NEW s, TagNames(s)
    PROVE  /\ Len(s) <= 20
           /\ \A i \in DOMAIN s : s[i].chars \in 1..50 /\ s[i].form # "loose"
BY DEF TagNames, TagName, Trimmed

\* So is a note that passes the validation of a body.
LEMMA NoteIsDesigned ==
    ASSUME NEW b, NEW p, E!ValidateCreateRequestBody(b),
           p.entry_date = b.entry_date, p.kind = b.kind, p.title = b.title, p.tags = b.tags
    PROVE  DesignNote(p)
BY SameNames, TagNamesAre DEF DesignNote, E!ValidateCreateRequestBody, E!ValidNote

\* A payload is what the design allows, whoever sent it: the validations are the
\* design's limits, field by field.
LEMMA DecodedIsDesigned ==
    ASSUME NEW m \in AllMethods, NEW r, Decodes(m, r).ok
    PROVE  Design(m, Decodes(m, r).payload)
<1> USE DEF AllMethods, Decodes, Design
<1>1. CASE m \in {<<"entries", "create">>, <<"entries", "update">>}
  <2>1. r.body.is = "object" /\ E!ValidateCreateRequestBody(r.body)
    BY <1>1 DEF E!Decodes, E!DecodeCreateRequest, E!DecodeUpdateRequest, E!FromBody,
       E!Checked, E!Rejected, E!Decoded, E!ValidateCreateRequestBody,
       E!ValidateUpdateRequestBody
  <2>2. /\ Decodes(m, r).payload.entry_date = r.body.entry_date
        /\ Decodes(m, r).payload.kind = r.body.kind
        /\ Decodes(m, r).payload.title = r.body.title
        /\ Decodes(m, r).payload.tags = r.body.tags
    BY <1>1 DEF E!Decodes, E!DecodeCreateRequest, E!DecodeUpdateRequest, E!FromBody,
       E!Checked, E!Rejected, E!Decoded, E!NewCreatePayload, E!NewUpdatePayload
  <2>3. DesignNote(Decodes(m, r).payload)
    BY <2>1, <2>2, NoteIsDesigned
  <2>4. Design(<<"entries", "create">>, Decodes(m, r).payload)
    BY <2>3
  <2>5. Design(<<"entries", "update">>, Decodes(m, r).payload)
    BY <2>3
  <2> QED BY <1>1, <2>4, <2>5
<1>2. CASE m = <<"entries", "list">>
  <2> DEFINE q == r.query
             p == Decodes(m, r).payload
  <2>1. /\ p.limit \in 1..100 /\ p.offset >= 0
        /\ E!TagNames(p.tag) /\ E!Short(p.q) /\ E!IsDate(p.from) /\ E!IsDate(p.to)
    BY <1>2 DEF E!Decodes, E!DecodeListRequest, E!Checked, E!Rejected, E!Decoded,
       E!NewListPayload
  <2> HIDE DEF p
  <2>2. Design(<<"entries", "list">>, p)
    BY <2>1, SameNames, TagNamesAre DEF E!Short, E!IsDate
  <2> QED BY <1>2, <2>2 DEF p
<1>3. CASE m = <<"tags", "update">>
  <2>1. /\ T!TagName(r.body.name)
        /\ Decodes(m, r).payload.name = r.body.name
    BY <1>3 DEF T!Decodes, T!DecodeUpdateRequest, T!FromBody, T!Checked,
       T!Rejected, T!Decoded, T!ValidateUpdateRequestBody, T!NewUpdatePayload
  <2> QED BY <1>3, <2>1, SameNames DEF TagName, Trimmed
<1>4. CASE m = <<"users", "register">>
  BY <1>4 DEF U!Decodes, U!DecodeRegisterRequest, U!FromBody, U!Checked, U!Rejected,
     U!Decoded, U!ValidateRegisterRequestBody, U!Acceptable, U!NewRegisterCredentials
<1>5. CASE m \in {<<"entries", "get">>, <<"entries", "delete">>, <<"tags", "list">>,
                 <<"tags", "delete">>, <<"users", "login">>, <<"users", "me">>,
                 <<"health", "check">>}
  <2>1. /\ ~(m[1] = "entries" /\ m[2] \in {"create", "update"})
        /\ m # <<"entries", "list">> /\ m # <<"tags", "update">>
        /\ m # <<"users", "register">>
    BY <1>5
  <2>2. Design(m, Decodes(m, r).payload) = TRUE
    BY <2>1
  <2> QED BY <2>2
<1> QED BY <1>1, <1>2, <1>3, <1>4, <1>5

\* The token of a payload is the one of the request's header.
LEMMA DecodedToken ==
    ASSUME NEW m \in AllMethods, NEW r, Decodes(m, r).ok, Secured(m)
    PROVE  Decodes(m, r).payload.token = Credential(r.auth)
<1> USE DEF AllMethods, Decodes, Secured, Credential
<1>1. CASE m[1] = "entries"
  BY <1>1 DEF E!Decodes, E!DecodeCreateRequest, E!DecodeListRequest, E!DecodeGetRequest,
     E!DecodeUpdateRequest, E!DecodeDeleteRequest, E!FromBody, E!Checked, E!Decoded,
     E!Rejected, E!NewCreatePayload, E!NewListPayload, E!NewGetPayload, E!NewUpdatePayload,
     E!NewDeletePayload, E!Credential
<1>2. CASE m[1] = "tags"
  BY <1>2 DEF T!Decodes, T!DecodeListRequest, T!DecodeUpdateRequest, T!DecodeDeleteRequest,
     T!FromBody, T!Checked, T!Decoded, T!Rejected, T!NewListPayload, T!NewUpdatePayload,
     T!NewDeletePayload, T!Credential
<1>3. CASE m = <<"users", "me">>
  BY <1>3 DEF U!Decodes, U!DecodeMeRequest, U!Decoded, U!NewMePayload, U!Credential
<1> QED BY <1>1, <1>2, <1>3

-----------------------------------------------------------------------------
(* A command and its request. *)

\* Where each method is mounted, and where the client of each sends its request.
At(m) ==
    CASE m = <<"entries", "create">> -> <<"POST",   "/entries">>
      [] m = <<"entries", "list">>   -> <<"GET",    "/entries">>
      [] m = <<"entries", "get">>    -> <<"GET",    "/entries/:id">>
      [] m = <<"entries", "update">> -> <<"PUT",    "/entries/:id">>
      [] m = <<"entries", "delete">> -> <<"DELETE", "/entries/:id">>
      [] m = <<"tags", "list">>      -> <<"GET",    "/tags">>
      [] m = <<"tags", "update">>    -> <<"PUT",    "/tags/:id">>
      [] m = <<"tags", "delete">>    -> <<"DELETE", "/tags/:id">>
      [] m = <<"users", "register">> -> <<"POST",   "/users">>
      [] m = <<"users", "login">>    -> <<"POST",   "/users/login">>
      [] m = <<"users", "me">>       -> <<"GET",    "/users/me">>
      [] m = <<"health", "check">>   -> <<"GET",    "/health">>

\* Every handler is mounted at the verb and the path of its method.
LEMMA MountedAt ==
    ASSUME NEW x \in Mounts
    PROVE  <<x[2][2], x[2][3]>> = At(<<x[1], x[2][1]>>)
<1>1. \A p \in E!Mounts : <<p[2], p[3]>> = At(<<"entries", p[1]>>)
  BY DEF E!Mounts, At
<1>2. \A p \in T!Mounts : <<p[2], p[3]>> = At(<<"tags", p[1]>>)
  BY DEF T!Mounts, At
<1>3. \A p \in U!Mounts : <<p[2], p[3]>> = At(<<"users", p[1]>>)
  BY DEF U!Mounts, At
<1>4. \A p \in U!HealthMounts : <<p[2], p[3]>> = At(<<"health", p[1]>>)
  BY DEF U!HealthMounts, At
<1>5. PICK s \in {"entries", "tags", "users", "health"}, p \in {x[2]} :
              /\ x = <<s, p>>
              /\ s = "entries" => p \in E!Mounts
              /\ s = "tags" => p \in T!Mounts
              /\ s = "users" => p \in U!Mounts
              /\ s = "health" => p \in U!HealthMounts
  BY DEF Mounts
<1>6. <<p[2], p[3]>> = At(<<s, p[1]>>)
  BY <1>1, <1>2, <1>3, <1>4, <1>5
<1> QED BY <1>5, <1>6

\* Every method has a handler.
LEMMA EachMounted ==
    ASSUME NEW m \in AllMethods
    PROVE  \E x \in Mounts : m = <<x[1], x[2][1]>>
<1>1. CASE m[1] = "entries"
  <2>1. PICK p \in E!Mounts : m = <<"entries", p[1]>>
    BY <1>1 DEF E!Mounts, AllMethods
  <2>2. <<"entries", p>> \in Mounts
    BY DEF Mounts
  <2> QED BY <2>1, <2>2
<1>2. CASE m[1] = "tags"
  <2>1. PICK p \in T!Mounts : m = <<"tags", p[1]>>
    BY <1>2 DEF T!Mounts, AllMethods
  <2>2. <<"tags", p>> \in Mounts
    BY DEF Mounts
  <2> QED BY <2>1, <2>2
<1>3. CASE m[1] = "users"
  <2>1. PICK p \in U!Mounts : m = <<"users", p[1]>>
    BY <1>3 DEF U!Mounts, AllMethods
  <2>2. <<"users", p>> \in Mounts
    BY DEF Mounts
  <2> QED BY <2>1, <2>2
<1>4. CASE m[1] = "health"
  <2>1. PICK p \in U!HealthMounts : m = <<"health", p[1]>>
    BY <1>4 DEF U!HealthMounts, AllMethods
  <2>2. <<"health", p>> \in Mounts
    BY DEF Mounts
  <2> QED BY <2>1, <2>2
<1> QED BY <1>1, <1>2, <1>3, <1>4 DEF AllMethods

\* No two methods are mounted at one place.
LEMMA OnePlaceEach ==
    ASSUME NEW m \in AllMethods, NEW n \in AllMethods, At(m) = At(n)
    PROVE  m = n
BY DEF AllMethods, At

\* Every request of the generated client goes to the verb and the path of its method.
LEMMA SentThere ==
    ASSUME NEW m \in AllMethods, NEW p
    PROVE  <<Sends(m, p).verb, Sends(m, p).path>> = At(m)
<1>1. CASE m[1] = "entries"
  <2>1. CASE m[2] \in {"create", "list"}
    BY <1>1, <2>1 DEF AllMethods, Sends, At, E!Sends, E!EncodeCreateRequest, E!EncodeListRequest,
       E!BuildCreateRequest, E!BuildListRequest, E!Request
  <2>2. CASE m[2] \in {"get", "update", "delete"}
    BY <1>1, <2>2 DEF AllMethods, Sends, At,
       E!Sends, E!EncodeGetRequest, E!EncodeUpdateRequest,
       E!EncodeDeleteRequest, E!BuildGetRequest, E!BuildUpdateRequest, E!BuildDeleteRequest,
       E!Request
  <2> QED BY <1>1, <2>1, <2>2 DEF AllMethods
<1>2. CASE m[1] = "tags"
  BY <1>2 DEF AllMethods, Sends, At, T!Sends, T!EncodeListRequest, T!EncodeUpdateRequest, T!EncodeDeleteRequest,
     T!BuildListRequest, T!BuildUpdateRequest, T!BuildDeleteRequest, T!Request
<1>3. CASE m[1] \in {"users", "health"}
  BY <1>3 DEF AllMethods, Sends, At, U!Sends, U!EncodeRegisterRequest, U!EncodeLoginRequest, U!EncodeMeRequest,
     U!BuildRegisterRequest, U!BuildLoginRequest, U!BuildMeRequest, U!BuildCheckRequest,
     U!Request
<1> QED BY <1>1, <1>2, <1>3 DEF AllMethods

\* The request of a command reaches the method of that command and no other.
LEMMA RoutedAsSent ==
    ASSUME NEW m \in AllMethods, NEW p
    PROVE  /\ Routes(Sends(m, p)) # {}
           /\ \A x \in Routes(Sends(m, p)) : <<x[1], x[2][1]>> = m
<1> DEFINE r == Sends(m, p)
<1>1. <<r.verb, r.path>> = At(m)
  BY SentThere
<1> HIDE DEF r
<1>2. PICK y \in Mounts : m = <<y[1], y[2][1]>>
  BY EachMounted
<1>3. y \in Routes(r)
  BY <1>1, <1>2, MountedAt DEF Routes
<1>4. ASSUME NEW x \in Routes(r) PROVE <<x[1], x[2][1]>> = m
  <2>1. x \in Mounts /\ <<x[2][2], x[2][3]>> = At(m)
    BY <1>1 DEF Routes
  <2> QED BY <2>1, MountedAt, MountsAre, OnePlaceEach
<1> QED BY <1>3, <1>4 DEF r

-----------------------------------------------------------------------------
(* From the flags of a command to the payload of its method. *)

\* A token has words, the scheme before it or not.
Words(t) ==
    t # Nil => t # <<>> /\ t \in Seq({t[i] : i \in DOMAIN t}) /\ Authorization(t) # Nil

\* What is put before a sequence is what its tail takes off.
LEMMA PutAndTaken ==
    ASSUME NEW S, NEW t \in Seq(S), NEW w
    PROVE  Len(<<w>> \o t) = 1 + Len(t) /\ Tail(<<w>> \o t) = t
<1> DEFINE R == S \cup {w}
           h == <<w>> \o t
<1>1. t \in Seq(R) /\ <<w>> \in Seq(R) /\ Len(<<w>>) = 1 /\ Len(t) \in Nat
  <2>1. t \in Seq(R)
    BY SeqMonotonic
  <2>2. Len(t) \in Nat
    BY LenProperties
  <2> QED BY <2>1, <2>2
<1>2. /\ h \in Seq(R) /\ Len(h) = 1 + Len(t)
      /\ \A i \in 1 .. 1 + Len(t) : h[i] = IF i <= 1 THEN w ELSE t[i - 1]
  <2> HIDE DEF R
  <2>1. /\ h \in Seq(R) /\ Len(h) = Len(<<w>>) + Len(t)
        /\ \A i \in 1 .. Len(<<w>>) + Len(t) :
              h[i] = IF i <= Len(<<w>>) THEN <<w>>[i] ELSE t[i - Len(<<w>>)]
    BY <1>1, ConcatProperties
  <2> QED BY <1>1, <2>1
<1> HIDE DEF R, h
<1>3. h # <<>>
  BY <1>1, <1>2
<1>4. /\ Tail(h) \in Seq(R) /\ Len(Tail(h)) = Len(t)
      /\ \A i \in 1 .. Len(t) : Tail(h)[i] = t[i]
  <2>1. /\ Tail(h) \in Seq(R) /\ Len(Tail(h)) = Len(h) - 1
        /\ \A i \in 1 .. Len(Tail(h)) : Tail(h)[i] = h[i + 1]
    BY <1>2, <1>3, HeadTailProperties
  <2> QED BY <1>1, <1>2, <2>1
<1>5. Tail(h) = t
  BY <1>1, <1>4, SeqEqual
<1> QED BY <1>2, <1>5 DEF h

\* The scheme that the client adds is the one that the server takes off.
LEMMA TokenTravels ==
    ASSUME NEW t, Words(t)
    PROVE  Credential(Authorization(t)) = Credential(t)
<1>1. CASE t = Nil \/ Len(t) > 1
  BY <1>1 DEF Authorization
<1>2. CASE ~(t = Nil \/ Len(t) > 1)
  <2> DEFINE S == {t[i] : i \in DOMAIN t}
             h == <<"Bearer">> \o t
  <2> HIDE DEF S, h
  <2>1. t \in Seq(S) /\ t # <<>> /\ h # Nil
    BY <1>2 DEF Words, S, h, Authorization
  <2>2. Len(h) = 1 + Len(t) /\ Tail(h) = t
    BY <2>1, PutAndTaken DEF h
  <2>3. Len(t) \in Nat \ {0}
    BY <2>1, EmptySeq
  <2>4. Authorization(t) = h
    BY <1>2 DEF Authorization, h
  <2>5. Credential(t) = t
    BY <1>2, <2>3 DEF Credential
  <2>6. Credential(h) = t
    BY <2>1, <2>2, <2>3 DEF Credential
  <2> QED BY <2>4, <2>5, <2>6
<1> QED BY <1>1, <1>2

\* What the command line makes of a command's flags.
Flagged(m, g) ==
    /\ Words(g.token) /\ g.id \in Int \cup {NaN}
    /\ g.body.is = "object" => g.body = [f \in BodyFields(m) |-> g.body[f]]
    /\ "body" \notin FlagsOf(m) => g.body.is # "object"

\* Field f of a payload is what it was meant to be.
AsMeant(p, g, f) ==
    SameField(f, p[f],
        IF f = "token" THEN Credential(g.token)
        ELSE IF g.body.is = "object" /\ f \in DOMAIN g.body THEN g.body[f] ELSE g[f])

\* From the command line to the decoder: the payload that the command line builds
\* of the flags is taken, unless its body is over the limit, and says the same.
Travels(m, g) ==
    LET r == Sends(m, Builds(m, g).payload)
        d == Decodes(m, r) IN
    /\ ~d.ok => \/ m = <<"entries", "list">> /\ g.limit = Nil
                \/ m \in Unbounded /\ r.body \in Oversized
    /\ d.ok /\ d.payload # Nil => \A f \in DOMAIN d.payload : AsMeant(d.payload, g, f)
    /\ m = <<"tags", "update">> => d.payload.id # Nil

\* The three services have the same scheme of tokens.
LEMMA SameTokens ==
    ASSUME NEW t
    PROVE  /\ E!Credential(t) = Credential(t) /\ E!Authorization(t) = Authorization(t)
           /\ T!Credential(t) = Credential(t) /\ T!Authorization(t) = Authorization(t)
           /\ U!Credential(t) = Credential(t) /\ U!Authorization(t) = Authorization(t)
BY DEF E!Credential, E!Authorization, T!Credential, T!Authorization, U!Credential,
       U!Authorization, Credential, Authorization

\* Commands with an id and a token.
LEMMA GetTravels ==
    ASSUME NEW m \in {<<"entries", "get">>, <<"entries", "delete">>, <<"tags", "delete">>},
           NEW g, Flagged(m, g), Builds(m, g).ok
    PROVE  Travels(m, g)
<1> DEFINE r == Sends(m, Builds(m, g).payload)
           d == Decodes(m, r)
<1>1. g.id # NaN /\ g.body.is # "object"
  BY DEF Flagged, FlagsOf, Builds, E!Builds, E!BuildGetPayload, E!BuildDeletePayload, E!Checked,
     E!Rejected, T!Builds, T!BuildDeletePayload, T!Checked, T!Rejected
<1>2. Credential(Authorization(g.token)) = Credential(g.token)
  BY TokenTravels DEF Flagged
<1>3. Builds(m, g) = [ok |-> TRUE, payload |-> [id |-> g.id, token |-> g.token]]
  BY <1>1 DEF Builds, E!Builds, E!BuildGetPayload, E!BuildDeletePayload, E!Checked,
     E!Decoded, E!NewGetPayload, E!NewDeletePayload, T!Builds, T!BuildDeletePayload,
     T!Checked, T!Decoded, T!NewDeletePayload
<1>4. r.id = g.id /\ r.auth = Authorization(g.token)
  BY <1>3, SameTokens
  DEF Sends, E!Sends, E!EncodeGetRequest, E!EncodeDeleteRequest, E!BuildGetRequest,
     E!BuildDeleteRequest, E!Request, T!Sends, T!EncodeDeleteRequest, T!BuildDeleteRequest,
     T!Request
<1> HIDE DEF r
<1>5. d = [ok |-> TRUE, payload |-> [id |-> g.id, token |-> Credential(g.token)]]
  <2>1. Credential(r.auth) = Credential(g.token) /\ r.id # NaN /\ r.id = g.id
    BY <1>1, <1>2, <1>4
  <2>2. CASE m[1] = "entries"
    <3>1. d = [ok |-> TRUE, payload |-> [id |-> r.id, token |-> E!Credential(r.auth)]]
      BY <2>1, <2>2 DEF Decodes, E!Decodes, E!DecodeGetRequest, E!DecodeDeleteRequest,
         E!Checked, E!Decoded, E!NewGetPayload, E!NewDeletePayload
    <3> QED BY <2>1, <3>1, SameTokens
  <2>3. CASE m[1] = "tags"
    <3>1. d = [ok |-> TRUE, payload |-> [id |-> r.id, token |-> T!Credential(r.auth)]]
      BY <2>1, <2>3 DEF Decodes, T!Decodes, T!DecodeDeleteRequest,
         T!Checked, T!Decoded, T!NewDeletePayload
    <3> QED BY <2>1, <3>1, SameTokens
  <2> QED BY <2>2, <2>3
<1> HIDE DEF d
<1>6. \A f \in DOMAIN d.payload : AsMeant(d.payload, g, f)
  BY <1>1, <1>5 DEF AsMeant, SameField
<1> QED BY <1>5, <1>6 DEF d, r, Travels

\* Commands with a token alone, or nothing.
LEMMA TokenAloneTravels ==
    ASSUME NEW m \in {<<"tags", "list">>, <<"users", "me">>}, NEW g, Flagged(m, g)
    PROVE  Travels(m, g)
<1> DEFINE r == Sends(m, Builds(m, g).payload)
           d == Decodes(m, r)
<1>1. Credential(Authorization(g.token)) = Credential(g.token)
  BY TokenTravels DEF Flagged
<1>2. Builds(m, g).payload = [token |-> g.token]
  BY DEF Builds, T!Builds, T!BuildListPayload, T!Decoded, T!NewListPayload, U!Builds,
     U!BuildMePayload, U!Decoded, U!NewMePayload
<1>3. r.auth = Authorization(g.token)
  BY <1>2, SameTokens DEF Sends, T!Sends, T!EncodeListRequest, T!BuildListRequest, T!Request,
     U!Sends, U!EncodeMeRequest, U!BuildMeRequest, U!Request
<1> HIDE DEF r
<1>4. d = [ok |-> TRUE, payload |-> [token |-> Credential(g.token)]]
  <2>1. CASE m[1] = "tags"
    <3>1. d = [ok |-> TRUE, payload |-> [token |-> T!Credential(r.auth)]]
      BY <2>1 DEF Decodes, T!Decodes, T!DecodeListRequest, T!Decoded, T!NewListPayload
    <3> QED BY <1>1, <1>3, <3>1, SameTokens
  <2>2. CASE m[1] = "users"
    <3>1. d = [ok |-> TRUE, payload |-> [token |-> U!Credential(r.auth)]]
      BY <2>2 DEF Decodes, U!Decodes, U!DecodeMeRequest, U!Decoded, U!NewMePayload
    <3> QED BY <1>1, <1>3, <3>1, SameTokens
  <2> QED BY <2>1, <2>2
<1> HIDE DEF d
<1>5. \A f \in DOMAIN d.payload : AsMeant(d.payload, g, f)
  BY <1>4 DEF AsMeant, SameField
<1> QED BY <1>4, <1>5 DEF d, r, Travels

\* A text that is there is the one that was given.
LEMMA FilledIs ==
    ASSUME NEW t, OrEmpty(t) # Empty
    PROVE  OrEmpty(t) = t /\ t # Nil
BY DEF OrEmpty

\* What the command line checks of a note is what the server checks of its JSON, but
\* for its length; an empty list of tags is left out on the way.
LEMMA NoteTravels ==
    ASSUME NEW m \in {<<"entries", "create">>, <<"entries", "update">>}, NEW g,
           Flagged(m, g), Builds(m, g).ok
    PROVE  Travels(m, g)
<1> DEFINE b == g.body
           r == Sends(m, Builds(m, g).payload)
           d == Decodes(m, r)
<1>1. /\ b.is = "object" /\ E!ValidNote(E!Filled(b))
      /\ m = <<"entries", "update">> => g.id # NaN
  BY DEF Builds, E!Builds, E!BuildCreatePayload, E!BuildUpdatePayload, E!FromFlag,
     E!Checked, E!Rejected, E!Decoded
<1>2. b = [f \in BodyFields(m) |-> b[f]]
  BY <1>1 DEF Flagged
<1>3. DOMAIN b = {"is", "entry_date", "kind", "title", "body", "tags"}
  BY <1>2 DEF BodyFields
<1>4. /\ E!Filled(b).entry_date = OrEmpty(b.entry_date)
      /\ E!Filled(b).kind = OrEmpty(b.kind) /\ E!Filled(b).title = OrEmpty(b.title)
      /\ E!Filled(b).body = b.body /\ E!Filled(b).tags = b.tags
  BY <1>3 DEF E!Filled, E!OrEmpty, E!Empty, E!Text, OrEmpty, Empty, Text
<1>5. /\ b.entry_date # Nil /\ E!Filled(b).entry_date = b.entry_date
      /\ b.kind # Nil /\ E!Filled(b).kind = b.kind
      /\ b.title # Nil /\ E!Filled(b).title = b.title
  <2>1. /\ OrEmpty(b.entry_date).form = "date"
        /\ OrEmpty(b.kind).form \in {"til", "diary"}
        /\ OrEmpty(b.title).chars >= 1
    BY <1>1, <1>4 DEF E!ValidNote
  <2>2. Empty.form = "text" /\ Empty.chars = 0
    BY DEF Empty, Text
  <2> QED BY <1>4, <2>1, <2>2, FilledIs
<1>6. E!ValidNote(b)
  BY <1>1, <1>4, <1>5 DEF E!ValidNote
<1> DEFINE sent == IF b.tags = <<>> THEN Nil ELSE b.tags
           taken == Credential(g.token)
<1>7. /\ r.auth = Authorization(g.token) /\ r.body.is = "object"
      /\ r.body.entry_date = b.entry_date /\ r.body.kind = b.kind
      /\ r.body.title = b.title /\ r.body.body = b.body /\ r.body.tags = sent
      /\ m = <<"entries", "update">> => r.id = g.id
  <2>1. CASE m = <<"entries", "create">>
    <3>1. Builds(m, g).payload = E!NewCreatePayload(E!Filled(b), g.token)
      BY <1>1, <2>1 DEF Builds, E!Builds, E!BuildCreatePayload, E!FromFlag, E!Checked,
         E!Decoded
    <3>2. r = E!EncodeCreateRequest(E!Request("POST", "/entries"), Builds(m, g).payload)
      BY <2>1 DEF Sends, E!Sends, E!BuildCreateRequest
    <3> DEFINE p == Builds(m, g).payload
    <3>3. /\ p.entry_date = b.entry_date /\ p.kind = b.kind /\ p.title = b.title
          /\ p.body = b.body /\ p.tags = b.tags /\ p.token = g.token
      BY <3>1, <1>4, <1>5 DEF E!NewCreatePayload
    <3> HIDE DEF p
    <3>4. r.auth = E!Authorization(p.token) /\ r.body = E!NewCreateRequestBody(p)
      BY <3>2 DEF E!EncodeCreateRequest, E!Request, p
    <3> QED BY <2>1, <3>3, <3>4, SameTokens DEF E!NewCreateRequestBody
  <2>2. CASE m = <<"entries", "update">>
    <3>1. Builds(m, g).payload = E!NewUpdatePayload(E!Filled(b), g.id, g.token)
      BY <1>1, <2>2 DEF Builds, E!Builds, E!BuildUpdatePayload, E!FromFlag, E!Checked,
         E!Decoded
    <3>2. r = E!EncodeUpdateRequest([E!Request("PUT", "/entries/:id") EXCEPT !.id = g.id],
                                    Builds(m, g).payload)
      BY <2>2, <3>1 DEF Sends, E!Sends, E!BuildUpdateRequest, E!NewUpdatePayload
    <3> DEFINE p == Builds(m, g).payload
    <3>3. /\ p.entry_date = b.entry_date /\ p.kind = b.kind /\ p.title = b.title
          /\ p.body = b.body /\ p.tags = b.tags /\ p.token = g.token
      BY <3>1, <1>4, <1>5 DEF E!NewUpdatePayload
    <3> HIDE DEF p
    <3>4. /\ r.auth = E!Authorization(p.token) /\ r.body = E!NewUpdateRequestBody(p)
          /\ r.id = g.id
      BY <3>2 DEF E!EncodeUpdateRequest, E!Request, p
    <3> QED BY <3>3, <3>4, SameTokens DEF E!NewUpdateRequestBody
  <2> QED BY <2>1, <2>2
<1>8. Credential(r.auth) = taken
  BY <1>7, TokenTravels DEF Flagged
<1> HIDE DEF r
<1>9. E!ValidNote(r.body)
  BY <1>6, <1>7 DEF E!ValidNote
<1>10. ASSUME r.body \notin Oversized
       PROVE  /\ d.ok
              /\ DOMAIN d.payload \subseteq {"entry_date", "kind", "title", "body", "tags", "id", "token"}
              /\ d.payload.entry_date = b.entry_date /\ d.payload.kind = b.kind
              /\ d.payload.title = b.title /\ d.payload.body = b.body /\ d.payload.tags = sent
              /\ d.payload.token = taken
              /\ m = <<"entries", "create">> => "id" \notin DOMAIN d.payload
              /\ m = <<"entries", "update">> => d.payload.id = g.id
  <2>1. CASE m = <<"entries", "create">>
    <3>1. d = [ok |-> TRUE, payload |-> E!NewCreatePayload(r.body, E!Credential(r.auth))]
      BY <1>5, <1>7, <1>9, <1>10, <2>1 DEF Decodes, E!Decodes, E!DecodeCreateRequest, E!FromBody,
         E!Checked, E!Decoded, E!ValidateCreateRequestBody
    <3> QED BY <1>7, <1>8, <2>1, <3>1, SameTokens DEF E!NewCreatePayload
  <2>2. CASE m = <<"entries", "update">>
    <3>1. d = [ok |-> TRUE, payload |-> E!NewUpdatePayload(r.body, r.id, E!Credential(r.auth))]
      BY <1>1, <1>5, <1>7, <1>9, <1>10, <2>2 DEF Decodes, E!Decodes, E!DecodeUpdateRequest,
         E!FromBody, E!Checked, E!Decoded, E!ValidateUpdateRequestBody
    <3> QED BY <1>7, <1>8, <2>2, <3>1, SameTokens DEF E!NewUpdatePayload
  <2> QED BY <2>1, <2>2
<1> HIDE DEF d
<1>11. E!ListOf(sent) = E!ListOf(b.tags)
  BY DEF E!ListOf
<1>12. ASSUME r.body \notin Oversized
       PROVE  \A f \in DOMAIN d.payload : AsMeant(d.payload, g, f)
  BY <1>1, <1>3, <1>10, <1>11, <1>12 DEF AsMeant, SameField
<1>13. ASSUME r.body \in Oversized PROVE ~d.ok
  BY <1>7, <1>13 DEF d, Decodes, E!Decodes, E!DecodeCreateRequest,
     E!DecodeUpdateRequest, E!FromBody, E!Rejected
<1> QED BY <1>10, <1>12, <1>13 DEF d, r, Travels, Unbounded

\* The same for the new name of a tag.
LEMMA NameTravels ==
    ASSUME NEW g, Flagged(<<"tags", "update">>, g), Builds(<<"tags", "update">>, g).ok
    PROVE  Travels(<<"tags", "update">>, g)
<1> DEFINE m == <<"tags", "update">>
           b == g.body
           r == Sends(m, Builds(m, g).payload)
           d == Decodes(m, r)
<1>1. b.is = "object" /\ T!TagName(T!Filled(b).name) /\ g.id # NaN
  BY DEF Builds, T!Builds, T!BuildUpdatePayload, T!FromFlag, T!Checked, T!Rejected, T!Decoded
<1>2. b = [f \in BodyFields(m) |-> b[f]]
  BY <1>1 DEF Flagged
<1>3. DOMAIN b = {"is", "name"}
  BY <1>2 DEF BodyFields
<1>4. T!Filled(b).name = OrEmpty(b.name)
  BY <1>3 DEF T!Filled, T!OrEmpty, T!Empty, T!Text, OrEmpty, Empty, Text
<1>5. b.name # Nil /\ T!Filled(b).name = b.name
  <2>1. OrEmpty(b.name).chars \in 1..50
    BY <1>1, <1>4 DEF T!TagName
  <2>2. Empty.chars = 0
    BY DEF Empty, Text
  <2> QED BY <1>4, <2>1, <2>2, FilledIs
<1> DEFINE taken == Credential(g.token)
<1>6. /\ r.auth = Authorization(g.token) /\ r.body.is = "object"
      /\ r.body.name = b.name /\ r.id = g.id
  <2> DEFINE p == Builds(m, g).payload
  <2>1. p = T!NewUpdatePayload(T!Filled(b), g.id, g.token)
    BY <1>1 DEF Builds, T!Builds, T!BuildUpdatePayload, T!FromFlag, T!Checked, T!Decoded
  <2>2. p.name = b.name /\ p.token = g.token /\ p.id = g.id
    BY <2>1, <1>5 DEF T!NewUpdatePayload
  <2> HIDE DEF p
  <2>3. /\ r.auth = T!Authorization(p.token) /\ r.body = T!NewUpdateRequestBody(p)
        /\ r.id = p.id
    BY DEF p, Sends, T!Sends, T!BuildUpdateRequest, T!EncodeUpdateRequest, T!Request
  <2> QED BY <2>2, <2>3, SameTokens DEF T!NewUpdateRequestBody
<1>7. Credential(r.auth) = taken
  BY <1>6, TokenTravels DEF Flagged
<1> HIDE DEF r
<1>8. d = [ok |-> TRUE, payload |-> T!NewUpdatePayload(r.body, r.id, T!Credential(r.auth))]
  <2>1. "name" \in DOMAIN r.body
    BY DEF r, Sends, T!Sends, T!BuildUpdateRequest, T!EncodeUpdateRequest, T!Request,
       T!NewUpdateRequestBody
  <2>2. r.body \notin Oversized
    BY <1>1, <1>5, <1>6, <2>1, OversizedAssumption
  <2> QED BY <1>1, <1>5, <1>6, <2>2 DEF Decodes, T!Decodes, T!DecodeUpdateRequest, T!FromBody,
     T!Checked, T!Decoded, T!ValidateUpdateRequestBody
<1>9. d.ok /\ d.payload = [name |-> b.name, id |-> g.id, token |-> taken]
  BY <1>6, <1>7, <1>8, SameTokens DEF T!NewUpdatePayload
<1> HIDE DEF d
<1>10. \A f \in DOMAIN d.payload : AsMeant(d.payload, g, f)
  BY <1>1, <1>3, <1>9 DEF AsMeant, SameField
<1>11. d.payload.id # Nil
  BY <1>1, <1>9, NilAssumption DEF Flagged
<1> QED BY <1>9, <1>10, <1>11 DEF d, r, Travels

\* A login without an email or a password goes with empty ones; a registration
\* has both.
LEMMA CredentialsTravel ==
    ASSUME NEW m \in {<<"users", "register">>, <<"users", "login">>}, NEW g,
           Flagged(m, g), Builds(m, g).ok
    PROVE  Travels(m, g)
<1> DEFINE b == g.body
           v == U!Filled(b)
           r == Sends(m, Builds(m, g).payload)
           d == Decodes(m, r)
<1>1. b.is = "object" /\ (m = <<"users", "register">> => U!Acceptable(v))
  BY DEF Builds, U!Builds, U!BuildRegisterPayload, U!BuildLoginPayload, U!FromFlag,
     U!Checked, U!Rejected, U!Decoded
<1>2. b = [f \in BodyFields(m) |-> b[f]]
  BY <1>1 DEF Flagged
<1>3. DOMAIN b = {"is", "email", "password"}
  BY <1>2 DEF BodyFields
<1>4. v.email = OrEmpty(b.email) /\ v.password = OrEmpty(b.password)
  BY <1>3 DEF U!Filled, U!OrEmpty, U!Empty, U!Text, OrEmpty, Empty, Text
<1>5. v.email # Nil /\ v.password # Nil
  BY <1>4, NilAssumption DEF OrEmpty
<1> HIDE DEF v
<1>6. Builds(m, g).payload = [email |-> v.email, password |-> v.password]
  BY <1>1 DEF v, Builds, U!Builds, U!BuildRegisterPayload, U!BuildLoginPayload, U!FromFlag,
     U!Checked, U!Decoded, U!NewRegisterCredentials, U!NewLoginPayload
<1>7. r.body = [is |-> "object", email |-> v.email, password |-> v.password]
  BY <1>6 DEF Sends, U!Sends, U!EncodeRegisterRequest, U!EncodeLoginRequest,
     U!BuildRegisterRequest, U!BuildLoginRequest, U!Request, U!NewRegisterRequestBody,
     U!NewLoginRequestBody
<1> HIDE DEF r
<1>8. ASSUME m = <<"users", "register">> \/ r.body \notin Oversized
      PROVE  d.ok /\ d.payload = [email |-> v.email, password |-> v.password]
  <2>1. CASE m = <<"users", "register">>
    <3>1. U!ValidateRegisterRequestBody(r.body) /\ r.body \notin Oversized
      BY <1>1, <1>5, <1>7, <2>1, OversizedAssumption
      DEF U!ValidateRegisterRequestBody, U!Acceptable
    <3> QED BY <1>7, <2>1, <3>1 DEF Decodes, U!Decodes, U!DecodeRegisterRequest, U!FromBody,
             U!Checked, U!Decoded, U!NewRegisterCredentials
  <2>2. CASE m = <<"users", "login">>
    BY <1>5, <1>7, <1>8, <2>2 DEF Decodes, U!Decodes, U!DecodeLoginRequest, U!FromBody,
       U!Checked, U!Decoded, U!NewLoginPayload, U!ValidateLoginRequestBody
  <2> QED BY <2>1, <2>2
<1> HIDE DEF d
<1>9. ASSUME m = <<"users", "register">> \/ r.body \notin Oversized
      PROVE  \A f \in DOMAIN d.payload : AsMeant(d.payload, g, f)
  BY <1>1, <1>3, <1>4, <1>8, <1>9 DEF AsMeant, SameField, OrEmpty
<1>10. ASSUME m = <<"users", "login">>, r.body \in Oversized PROVE ~d.ok
  BY <1>7, <1>10 DEF d, Decodes, U!Decodes, U!DecodeLoginRequest, U!FromBody, U!Rejected
<1> QED BY <1>8, <1>9, <1>10 DEF d, r, Travels, Unbounded

\* A query arrives as it was given, but for the limit that is empty: it goes as 0,
\* which the server refuses.
LEMMA QueryTravels ==
    ASSUME NEW g, Flagged(<<"entries", "list">>, g), Builds(<<"entries", "list">>, g).ok
    PROVE  Travels(<<"entries", "list">>, g)
<1> DEFINE m == <<"entries", "list">>
           r == Sends(m, Builds(m, g).payload)
           d == Decodes(m, r)
           n == IF g.offset = Nil THEN 0 ELSE g.offset
           q == r.query
           taken == Credential(g.token)
<1>1. /\ NaN \notin {g.limit, g.offset, g.tag} /\ (g.limit # Nil => g.limit \in 1..100)
      /\ (g.offset # Nil => g.offset >= 0) /\ E!TagNames(g.tag)
      /\ E!Short(g.q) /\ E!IsDate(g.from) /\ E!IsDate(g.to)
  BY DEF Builds, E!Builds, E!BuildListPayload, E!Checked, E!Rejected
<1>2. /\ r.auth = Authorization(g.token)
      /\ q.limit = (IF g.limit = Nil THEN 0 ELSE g.limit) /\ q.offset = n
      /\ q.tag = g.tag /\ q.q = g.q /\ q.from = g.from /\ q.to = g.to
  <2> DEFINE p == Builds(m, g).payload
  <2>1. p = [limit |-> IF g.limit = Nil THEN 0 ELSE g.limit,
             offset |-> IF g.offset = Nil THEN 0 ELSE g.offset,
             tag |-> g.tag, q |-> g.q, from |-> g.from, to |-> g.to, token |-> g.token]
    BY <1>1 DEF Builds, E!Builds, E!BuildListPayload, E!Checked, E!Decoded
  <2> HIDE DEF p
  <2>2. /\ r.auth = E!Authorization(p.token)
        /\ q = [limit |-> p.limit, offset |-> p.offset, tag |-> p.tag, q |-> p.q,
                from |-> p.from, to |-> p.to]
    BY DEF p, Sends, E!Sends, E!BuildListRequest, E!EncodeListRequest, E!Request
  <2> QED BY <2>1, <2>2, SameTokens
<1>3. Credential(r.auth) = taken
  BY <1>2, TokenTravels DEF Flagged
<1> HIDE DEF r
<1>4. n # Nil /\ n # NaN /\ n >= 0
  BY <1>1, NilAssumption
<1>5. CASE g.limit = Nil
  <2>1. ~d.ok
    BY <1>2, <1>5, NilAssumption DEF Decodes, E!Decodes, E!DecodeListRequest, E!Checked, E!Rejected
  <2> HIDE DEF d
  <2> QED BY <1>5, <2>1 DEF d, r, Travels
<1>6. CASE g.limit # Nil
  <2>1. q.limit = g.limit /\ g.limit # NaN /\ g.limit \in 1..100
    BY <1>1, <1>2, <1>6
  <2>2. d = [ok |-> TRUE, payload |->
             E!NewListPayload(g.limit, n, g.tag, g.q, g.from, g.to, E!Credential(r.auth))]
    BY <1>1, <1>2, <1>4, <1>6, <2>1 DEF Decodes, E!Decodes, E!DecodeListRequest, E!Checked, E!Decoded
  <2>3. d.ok /\ d.payload = [limit |-> g.limit, offset |-> n, tag |-> g.tag, q |-> g.q,
                             from |-> g.from, to |-> g.to, token |-> taken]
    BY <1>3, <2>2, SameTokens DEF E!NewListPayload
  <2> HIDE DEF d
  <2>4. g.body.is # "object"
    BY DEF Flagged, FlagsOf
  <2>5. \A f \in DOMAIN d.payload : AsMeant(d.payload, g, f)
    BY <2>3, <2>4 DEF AsMeant, SameField
  <2> QED BY <2>3, <2>5 DEF d, r, Travels
<1> QED BY <1>5, <1>6

\* The health check has no payload.
LEMMA CheckTravels ==
    ASSUME NEW g
    PROVE  Travels(<<"health", "check">>, g)
<1>1. Decodes(<<"health", "check">>, Sends(<<"health", "check">>,
              Builds(<<"health", "check">>, g).payload)) = [ok |-> TRUE, payload |-> Nil]
  BY DEF Decodes, U!Decodes, U!NewCheckHandler, U!Decoded
<1> QED BY <1>1 DEF Travels

\* A command that is sent goes to a method it knows, and its payload with it.
LEMMA CommandTravels ==
    ASSUME NEW c \in Calls, NEW a \in Asks[c], a.by = "cli", Sent(a)
    PROVE  /\ a.method \in AllMethods /\ Travels(a.method, Given(a.flags))
           /\ Builds(a.method, Given(a.flags)).ok
           /\ RequestOf(a) = Sends(a.method, Builds(a.method, Given(a.flags)).payload)
<1> DEFINE m == a.method
           g == Given(a.flags)
<1>1. /\ Known(m) /\ DOMAIN a.flags \subseteq FlagsOf(m) /\ Builds(m, g).ok
      /\ RequestOf(a) = Sends(m, Builds(m, g).payload)
  BY DEF Sent, RequestOf, ParseEndpoint, Rejected
<1>2. /\ m \in STRING \X STRING /\ Words(g.token) /\ g.id \in Int \cup {NaN}
      /\ g.body.is = "object" => g.body = [f \in BodyFields(m) |-> g.body[f]]
  BY <1>1, AsksAssumption DEF Words
<1>3. m \in AllMethods
  BY <1>1, <1>2, KnownAre
<1>4. "body" \notin FlagsOf(m) => g.body.is # "object"
  BY <1>1 DEF Given, Flags
<1>5. Flagged(m, g)
  BY <1>2, <1>4 DEF Flagged
<1> HIDE DEF m, g
<1>6. Travels(m, g)
  BY <1>1, <1>3, <1>5, GetTravels, TokenAloneTravels, NoteTravels, NameTravels,
     CredentialsTravel, QueryTravels, CheckTravels DEF AllMethods
<1> QED BY <1>1, <1>3, <1>6 DEF m, g

-----------------------------------------------------------------------------
(* From the outcome of a method to what its command is told. *)

\* The errors' statuses that each client knows.
Heeds(m) ==
    CASE m \in {<<"entries", "create">>, <<"entries", "list">>, <<"tags", "list">>,
               <<"users", "login">>, <<"users", "me">>} -> {401}
      [] m \in {<<"entries", "get">>, <<"entries", "update">>, <<"entries", "delete">>,
               <<"tags", "delete">>} -> {404, 401}
      [] m = <<"tags", "update">> -> {404, 409, 401}
      [] m = <<"users", "register">> -> {409, 400}
      [] m = <<"health", "check">> -> {503}

\* An answer without success is an error of the design, or unexpected.
LEMMA HearsFailure ==
    ASSUME NEW m \in AllMethods, NEW r, r.status # Success(m)
    PROVE  Hears(m, r) = IF r.status \in Heeds(m) THEN ErrorFrom(r.body)
                         ELSE Unexpected(r.status)
<1> USE DEF AllMethods, Heeds, Success, Hears, ErrorFrom, ValidErrorBody, ErrorFields,
       Unreadable, ServiceError, Unexpected
<1>1. CASE m[1] = "entries"
  BY <1>1 DEF E!Hears, E!DecodeCreateResponse, E!DecodeListResponse, E!DecodeGetResponse,
     E!DecodeUpdateResponse, E!DecodeDeleteResponse, E!Told, E!ErrorFrom, E!ValidErrorBody,
     E!ErrorFields, E!Unreadable, E!ServiceError, E!Unexpected
<1>2. CASE m[1] = "tags"
  BY <1>2 DEF T!Hears, T!DecodeListResponse, T!DecodeUpdateResponse, T!DecodeDeleteResponse,
     T!Told, T!ErrorFrom, T!ValidErrorBody, T!ErrorFields, T!Unreadable, T!ServiceError,
     T!Unexpected
<1>3. CASE m[1] \in {"users", "health"}
  BY <1>3 DEF U!Hears, U!DecodeRegisterResponse, U!DecodeLoginResponse, U!DecodeMeResponse,
     U!DecodeCheckResponse, U!Told, U!ErrorFrom, U!ValidErrorBody, U!ErrorFields,
     U!Unreadable, U!ServiceError, U!Unexpected
<1> QED BY <1>1, <1>2, <1>3

\* An error's body says its name.
LEMMA ErrorIsRead == \A n : ErrorFrom(ErrorBody(n)) = ServiceError(n)
BY DEF ErrorFrom, ValidErrorBody, ErrorBody, ErrorFields

\* The declared error of a method is heard under its name,
LEMMA HearsError ==
    ASSUME NEW m \in AllMethods, NEW n \in Errors(m)
    PROVE  Hears(m, Fails(m, ServiceError(n))) = ServiceError(n)
<1>1. Fails(m, ServiceError(n)) = Response(StatusOf[n], ErrorBody(n))
  BY DeclaredErrors
<1>2. StatusOf[n] # Success(m) /\ StatusOf[n] \in Heeds(m)
  BY DEF AllMethods, Errors, StatusOf, Success, Heeds
<1> QED BY <1>1, <1>2, HearsFailure, ErrorIsRead DEF Response

\* any other failure as 500,
LEMMA HearsFault ==
    ASSUME NEW m \in AllMethods
    PROVE  Hears(m, Fails(m, OtherError)) = Unexpected(500)
<1>1. 500 # Success(m) /\ 500 \notin Heeds(m)
  BY DEF AllMethods, Success, Heeds
<1> QED BY <1>1, FaultStatus, HearsFailure DEF Response

\* and a refusal as an error or an unexpected status.
LEMMA HearsRefusal ==
    ASSUME NEW m \in AllMethods, NEW s \in {400, 401}, NEW n
    PROVE  Hears(m, Response(s, ErrorBody(n))).is \in {"error", "unexpected"}
<1>1. s # Success(m)
  BY DEF AllMethods, Success
<1> QED BY <1>1, HearsFailure, ErrorIsRead DEF Response, ServiceError, Unexpected

\* What the decoder has made sure of, besides the design's limits.
Fit(m, p) ==
    /\ Design(m, p)
    /\ m = <<"tags", "update">> => p.id # Nil /\ p.name # Nil
    /\ m = <<"users", "register">> => p.email # Nil

\* And the decoder has.
LEMMA DecodedFits ==
    ASSUME NEW m \in AllMethods, NEW r, Decodes(m, r).ok,
           m = <<"tags", "update">> => Decodes(m, r).payload.id # Nil
    PROVE  Fit(m, Decodes(m, r).payload)
<1>1. Design(m, Decodes(m, r).payload)
  BY DecodedIsDesigned
<1>2. m = <<"tags", "update">> => Decodes(m, r).payload.name # Nil
  BY DEF Decodes, T!Decodes, T!DecodeUpdateRequest, T!FromBody, T!Checked, T!Rejected,
     T!Decoded, T!ValidateUpdateRequestBody, T!NewUpdatePayload
<1>3. m = <<"users", "register">> => Decodes(m, r).payload.email # Nil
  BY DEF Decodes, U!Decodes, U!DecodeRegisterRequest, U!FromBody, U!Checked, U!Rejected,
     U!Decoded, U!ValidateRegisterRequestBody, U!NewRegisterCredentials
<1> QED BY <1>1, <1>2, <1>3 DEF Fit

\* A note with its list of tags is copied as it is.
LEMMA NoteIsRead ==
    ASSUME NEW j, j.tags # Nil,
           j = [row |-> j.row, entry_date |-> j.entry_date, kind |-> j.kind,
                title |-> j.title, body |-> j.body, tags |-> j.tags]
    PROVE  E!Note(j) = j
BY DEF E!Note, E!ListOf

\* The notes that the server makes of a payload are the ones that the client takes.
LEMMA DesignedIsValid ==
    ASSUME NEW p, DesignNote(p), NEW b, b.tags = E!ListOf(p.tags),
           b.entry_date = p.entry_date, b.kind = p.kind, b.title = p.title
    PROVE  E!ValidNote(b) /\ b.tags # Nil
<1>1. CASE p.tags = Nil
  <2>1. b.tags = <<>>
    BY <1>1 DEF E!ListOf
  <2>2. E!TagNames(<<>>)
    BY DEF E!TagNames
  <2> QED BY <2>1, <2>2, NilAssumption DEF E!ValidNote, DesignNote
<1>2. CASE p.tags # Nil
  <2>1. b.tags = p.tags
    BY <1>2 DEF E!ListOf
  <2>2. /\ Len(p.tags) <= 20
        /\ \A i \in DOMAIN p.tags : p.tags[i].chars \in 1..50 /\ p.tags[i].form # "loose"
    BY <1>2 DEF DesignNote
  <2>3. ASSUME NEW i \in DOMAIN p.tags PROVE E!TagName(p.tags[i])
    <3>1. p.tags[i].chars \in 1..50 /\ p.tags[i].form # "loose"
      BY <2>2
    <3>2. p.tags[i].chars >= 1
      BY <3>1
    <3> QED BY <3>1, <3>2 DEF E!TagName, E!Trimmed
  <2>4. E!TagNames(p.tags)
    BY <2>2, <2>3 DEF E!TagNames
  <2> QED BY <1>2, <2>1, <2>4 DEF E!ValidNote, DesignNote
<1> QED BY <1>1, <1>2

\* The client of create, of get and update, and of the others, hears the result.
LEMMA HearsNewNote ==
    ASSUME NEW p, DesignNote(p), NEW v \in Results(<<"entries", "create">>, p)
    PROVE  Hears(<<"entries", "create">>, Answers(<<"entries", "create">>, v)) = Result(v)
<1>1. v = [row |-> Row, entry_date |-> p.entry_date, kind |-> p.kind, title |-> p.title,
           body |-> p.body, tags |-> E!ListOf(p.tags), location |-> Row]
  BY DEF Results
<1>2. E!ValidNote(v) /\ v.tags # Nil
  BY <1>1, DesignedIsValid
<1> DEFINE b == E!Note(v)
           r == Answers(<<"entries", "create">>, v)
<1>3. /\ b.row = Row /\ b.entry_date = v.entry_date /\ b.kind = v.kind
      /\ b.title = v.title /\ b.body = v.body /\ b.tags = v.tags
  BY <1>1, <1>2 DEF E!Note, E!ListOf
<1>4. r.status = 201 /\ r.body = b /\ r.location = Row
  BY <1>1 DEF Answers, E!Answers, E!EncodeCreateResponse, E!NewCreateResponseBody, E!Response
<1> HIDE DEF b, r
<1>5. E!ValidateCreateResponseBody(b)
  BY <1>2, <1>3 DEF E!ValidateCreateResponseBody, E!ValidNote
<1>6. E!NewCreateResultCreated(b, Row) = v
  BY <1>1, <1>3 DEF E!NewCreateResultCreated
<1>7. Hears(<<"entries", "create">>, r) = E!Result(v)
  BY <1>4, <1>5, <1>6, NilAssumption DEF Hears, E!Hears, E!DecodeCreateResponse, E!Told
<1> QED BY <1>7 DEF r, Result, E!Result

\* (get, update)
LEMMA HearsNote ==
    ASSUME NEW m \in {<<"entries", "get">>, <<"entries", "update">>}, NEW p, Design(m, p),
           NEW v \in Results(m, p)
    PROVE  Hears(m, Answers(m, v)) = Result(v)
<1>1. E!ValidNote(v) /\ v.tags # Nil /\ E!Note(v) = v
  <2>1. CASE m = <<"entries", "get">>
    <3>1. v \in Stored
      BY <2>1 DEF Results
    <3> QED BY <3>1, StoredAssumption, NoteIsRead
  <2>2. CASE m = <<"entries", "update">>
    <3>1. v = Entry(p) /\ DesignNote(p)
      BY <2>2 DEF Results, Design
    <3>2. E!ValidNote(v) /\ v.tags # Nil
      BY <3>1, DesignedIsValid DEF Entry
    <3> QED BY <3>1, <3>2, NoteIsRead DEF Entry
  <2> QED BY <2>1, <2>2
<1> DEFINE r == Answers(m, v)
<1>2. r.status = 200 /\ r.body = v
  BY <1>1 DEF Answers, E!Answers, E!EncodeGetResponse, E!EncodeUpdateResponse,
     E!NewGetResponseBody, E!NewUpdateResponseBody, E!Response
<1> HIDE DEF r
<1>3. Hears(m, r) = E!Result(v)
  BY <1>1, <1>2 DEF Hears, E!Hears, E!DecodeGetResponse, E!DecodeUpdateResponse, E!Told,
     E!ValidateGetResponseBody, E!ValidateUpdateResponseBody, E!NewGetJournalOK,
     E!NewUpdateJournalOK
<1> QED BY <1>3 DEF r, Result, E!Result

\* A sequence that is copied element by element, unchanged, is the same sequence.
LEMMA Copied ==
    ASSUME NEW S, NEW s \in Seq(S), NEW t, DOMAIN t = DOMAIN s,
           t = [i \in DOMAIN s |-> t[i]], \A i \in DOMAIN s : t[i] = s[i]
    PROVE  t = s
<1>1. s \in [1 .. Len(s) -> S]
  BY LenProperties
<1>2. s = [i \in DOMAIN s |-> s[i]]
  BY <1>1
<1> QED BY <1>2

\* (list of notes)
LEMMA HearsNotes ==
    ASSUME NEW p, NEW v \in Results(<<"entries", "list">>, p)
    PROVE  Hears(<<"entries", "list">>, Answers(<<"entries", "list">>, v)) = Result(v)
<1>1. v \in Seq(Stored)
  <2>1. Results(<<"entries", "list">>, p) = {<<>>} \cup {<<j>> : j \in Stored}
    BY DEF Results
  <2>2. CASE v = <<>>
    BY <2>2
  <2>3. CASE v # <<>>
    <3>1. PICK j \in Stored : v = <<j>>
      BY <2>1, <2>3
    <3> QED BY <3>1
  <2> QED BY <2>2, <2>3
<1>2. \A i \in DOMAIN v : v[i] \in Stored
  BY <1>1, LenProperties
<1>3. \A i \in DOMAIN v : E!Note(v[i]) = v[i] /\ E!ValidNote(v[i]) /\ v[i].tags # Nil
  BY <1>2, StoredAssumption, NoteIsRead
<1> DEFINE b == [i \in DOMAIN v |-> E!Note(v[i])]
           r == Answers(<<"entries", "list">>, v)
<1>4. b = v
  BY <1>1, <1>3, Copied
<1>5. r.status = 200 /\ r.body = b
  BY DEF Answers, E!Answers, E!EncodeListResponse, E!Response, E!NewListResponseBody,
     E!marshalEntriesJournalToJournalResponse
<1> HIDE DEF r, b
<1>6. E!NewListJournalOK(r.body) = v
  <2>1. E!NewListJournalOK(r.body) = [i \in DOMAIN v |-> E!Note(v[i])]
    BY <1>4, <1>5 DEF E!NewListJournalOK, E!unmarshalJournalResponseToEntriesJournal
  <2> QED BY <1>4, <2>1 DEF b
<1>7. \A i \in DOMAIN r.body : E!ValidateJournalResponse(r.body[i])
  BY <1>3, <1>4, <1>5 DEF E!ValidateJournalResponse
<1>8. Hears(<<"entries", "list">>, r) = E!Result(v)
  BY <1>5, <1>6, <1>7 DEF Hears, E!Hears, E!DecodeListResponse, E!Told
<1> QED BY <1>8 DEF r, Result, E!Result

\* (list of tags)
LEMMA HearsTags ==
    ASSUME NEW p, NEW v \in Results(<<"tags", "list">>, p)
    PROVE  Hears(<<"tags", "list">>, Answers(<<"tags", "list">>, v)) = Result(v)
<1>1. v \in Seq(TagsStored)
  <2>1. Results(<<"tags", "list">>, p) = {<<>>} \cup {<<t>> : t \in TagsStored}
    BY DEF Results
  <2>2. CASE v = <<>>
    BY <2>2
  <2>3. CASE v # <<>>
    <3>1. PICK t \in TagsStored : v = <<t>>
      BY <2>1, <2>3
    <3> QED BY <3>1
  <2> QED BY <2>2, <2>3
<1>2. \A i \in DOMAIN v : v[i] \in TagsStored
  BY <1>1, LenProperties
<1>3. ASSUME NEW t \in TagsStored PROVE T!Tag(t) = t /\ T!ValidateTagResponse(t)
  <2>0. PICK j \in Stored :
            t \in {[id |-> 1, name |-> j.tags[i], entry_count |-> 1] : i \in DOMAIN j.tags}
    BY DEF TagsStored
  <2>1. PICK i \in DOMAIN j.tags : t = [id |-> 1, name |-> j.tags[i], entry_count |-> 1]
    BY <2>0
  <2>2. E!ValidNote(j) /\ j.tags # Nil /\ j.tags[i] # Nil
    BY <2>1, StoredAssumption
  <2>3. T!TagName(j.tags[i])
    BY <2>1, <2>2 DEF E!ValidNote, E!TagNames, E!TagName, E!Trimmed, T!TagName, T!Trimmed
  <2> QED BY <2>1, <2>2, <2>3, NilAssumption
          DEF T!Tag, T!ValidateTagResponse, T!Complete
<1> DEFINE b == [i \in DOMAIN v |-> T!Tag(v[i])]
           r == Answers(<<"tags", "list">>, v)
<1>4. b = v
  BY <1>1, <1>2, <1>3, Copied
<1>5. r.status = 200 /\ r.body = b
  BY DEF Answers, T!Answers, T!EncodeListResponse, T!Response, T!NewListResponseBody,
     T!marshalTagsTagToTagResponse
<1> HIDE DEF r, b
<1>6. T!NewListTagOK(r.body) = v
  <2>1. T!NewListTagOK(r.body) = [i \in DOMAIN v |-> T!Tag(v[i])]
    BY <1>4, <1>5 DEF T!NewListTagOK, T!unmarshalTagResponseToTagsTag
  <2> QED BY <1>4, <2>1 DEF b
<1>7. \A i \in DOMAIN r.body : T!ValidateTagResponse(r.body[i])
  BY <1>2, <1>3, <1>4, <1>5
<1>8. Hears(<<"tags", "list">>, r) = T!Result(v)
  BY <1>5, <1>6, <1>7 DEF Hears, T!Hears, T!DecodeListResponse, T!Told
<1> QED BY <1>8 DEF r, Result, T!Result

\* (update of a tag)
LEMMA HearsTag ==
    ASSUME NEW p, Fit(<<"tags", "update">>, p), NEW v \in Results(<<"tags", "update">>, p)
    PROVE  Hears(<<"tags", "update">>, Answers(<<"tags", "update">>, v)) = Result(v)
<1> DEFINE m == <<"tags", "update">>
           r == Answers(m, v)
<1>1. v = [id |-> p.id, name |-> p.name, entry_count |-> 0]
  BY DEF Results
<1>2. T!ValidateUpdateResponseBody(v)
  <2>1. /\ p.id # Nil /\ p.name # Nil /\ p.name.chars \in 1..50 /\ p.name.form # "loose"
    BY DEF Fit, Design
  <2>2. T!TagName(p.name)
    <3>1. p.name.chars >= 1
      BY <2>1
    <3> QED BY <2>1, <3>1 DEF T!TagName, T!Trimmed
  <2> QED BY <1>1, <2>1, <2>2, NilAssumption
          DEF T!ValidateUpdateResponseBody, T!Complete
<1>3. T!Tag(v) = v
  BY <1>1 DEF T!Tag
<1>4. r.status = 200 /\ r.body = v
  BY <1>3 DEF Answers, T!Answers, T!EncodeUpdateResponse, T!NewUpdateResponseBody, T!Response
<1> HIDE DEF r
<1>5. Hears(m, r) = T!Result(v)
  BY <1>2, <1>3, <1>4 DEF Hears, T!Hears, T!DecodeUpdateResponse, T!Told, T!NewUpdateTagOK
<1> QED BY <1>5 DEF r, Result, T!Result

\* (delete)
LEMMA HearsNothingLeft ==
    ASSUME NEW m \in {<<"entries", "delete">>, <<"tags", "delete">>}, NEW p,
           NEW v \in Results(m, p)
    PROVE  Hears(m, Answers(m, v)) = Result(v)
<1>1. v = Nil
  BY DEF Results
<1>2. Answers(m, v).status = 204
  BY DEF Answers, E!Answers, E!EncodeDeleteResponse, E!Response, T!Answers,
     T!EncodeDeleteResponse, T!Response
<1> QED BY <1>1, <1>2 DEF Hears, E!Hears, E!DecodeDeleteResponse, E!Told, E!Result,
        T!Hears, T!DecodeDeleteResponse, T!Told, T!Result, Result

\* (register, login, me, check)
LEMMA HearsUser ==
    ASSUME NEW m \in {<<"users", "register">>, <<"users", "login">>, <<"users", "me">>,
                      <<"health", "check">>},
           NEW p, Fit(m, p), NEW v \in Results(m, p)
    PROVE  Hears(m, Answers(m, v)) = Result(v)
<1> DEFINE r == Answers(m, v)
<1>1. CASE m = <<"users", "register">>
  <2>1. v = [row |-> Row, email |-> p.email] /\ p.email # Nil /\ p.email.form = "email"
    BY <1>1 DEF Results, Fit, Design
  <2>2. r.status = 201 /\ r.body = v
    BY <1>1, <2>1 DEF Answers, U!Answers, U!EncodeRegisterResponse, U!NewRegisterResponseBody,
       U!User, U!Response
  <2> HIDE DEF r
  <2>3. Hears(m, r) = U!Result(v)
    BY <1>1, <2>1, <2>2, NilAssumption
    DEF Hears, U!Hears, U!DecodeRegisterResponse, U!Told, U!ValidateRegisterResponseBody,
        U!NewRegisterUserCreated, U!User
  <2> QED BY <2>3 DEF r, Result, U!Result
<1>2. CASE m = <<"users", "login">>
  <2>1. v = [access_token |-> Row, token_type |-> "Bearer"]
    BY <1>2 DEF Results
  <2>2. r.status = 200 /\ r.body = v
    BY <1>2, <2>1 DEF Answers, U!Answers, U!EncodeLoginResponse, U!NewLoginResponseBody,
       U!Token, U!Response
  <2> HIDE DEF r
  <2>3. Hears(m, r) = U!Result(v)
    BY <1>2, <2>1, <2>2, NilAssumption
    DEF Hears, U!Hears, U!DecodeLoginResponse, U!Told, U!ValidateLoginResponseBody,
        U!NewLoginTokenResponseOK, U!Token
  <2> QED BY <2>3 DEF r, Result, U!Result
<1>3. CASE m = <<"users", "me">>
  <2>1. v = [row |-> Row, email |-> Text(9, "email")]
    BY <1>3 DEF Results
  <2>2. r.status = 200 /\ r.body = v
    BY <1>3, <2>1 DEF Answers, U!Answers, U!EncodeMeResponse, U!NewMeResponseBody,
       U!User, U!Response
  <2>3. Text(9, "email").form = "email" /\ Text(9, "email") # Nil
    BY NilAssumption DEF Text
  <2> HIDE DEF r
  <2>4. Hears(m, r) = U!Result(v)
    BY <1>3, <2>1, <2>2, <2>3, NilAssumption
    DEF Hears, U!Hears, U!DecodeMeResponse, U!Told, U!ValidateMeResponseBody,
        U!NewMeUserOK, U!User
  <2> QED BY <2>4 DEF r, Result, U!Result
<1>4. CASE m = <<"health", "check">>
  BY <1>4 DEF Answers, U!Answers, U!EncodeCheckResponse, U!Response, Hears, U!Hears,
     U!DecodeCheckResponse, U!Told, U!Result, Result
<1> QED BY <1>1, <1>2, <1>3, <1>4

\* The result of every method is heard by its command, all of it.
LEMMA HearsResult ==
    ASSUME NEW m \in AllMethods, NEW p, Fit(m, p), NEW v \in Results(m, p)
    PROVE  Hears(m, Answers(m, v)) = Result(v)
<1>1. Design(m, p)
  BY DEF Fit
<1>2. m = <<"entries", "create">> => DesignNote(p)
  BY <1>1 DEF Design
<1> QED BY <1>1, <1>2, HearsNewNote, HearsNote, HearsNotes, HearsTags, HearsTag,
        HearsNothingLeft, HearsUser DEF AllMethods

=============================================================================
