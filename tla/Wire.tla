-------------------------------- MODULE Wire --------------------------------
(***************************************************************************)
(* HTTP as the code that Goa generated from design/design.go reads and     *)
(* writes it, in the parts that all services share.                        *)
(*                                                                         *)
(* Values are abstracted to what the code tells apart: a text is its       *)
(* length and its form, a header or a token the sequence of its words.  An *)
(* empty query parameter and an absent one are the same to the code.       *)
(***************************************************************************)
EXTENDS Integers, Sequences

CONSTANTS
    Nil,       \* a pointer that is nil, a field or a header that is absent
    NaN,       \* a text that is not a number
    Oversized  \* bodies whose JSON is over maxRequestBody (cmd/life/http.go)

\* The forms: "date", "email", "til", "diary"; "text" for any other; "loose" for
\* one that begins or ends with a blank.
Text(n, f) == [chars |-> n, form |-> f]
Empty      == Text(0, "text")
OrEmpty(t) == IF t = Nil THEN Empty ELSE t

\* ^\S(.*\S)?$ : not empty, and no blank at either end.
Trimmed(t)  == t.chars >= 1 /\ t.form # "loose"
TagName(t)  == Trimmed(t) /\ t.chars \in 1..50
TagNames(s) == Len(s) <= 20 /\ \A i \in DOMAIN s : TagName(s[i])

-----------------------------------------------------------------------------
(* Requests. *)

NoQuery == [limit |-> Nil, offset |-> Nil, tag |-> <<>>, q |-> Nil, from |-> Nil,
            to |-> Nil]
NoBody  == [is |-> "none"]

Request(verb, path) ==
    [verb |-> verb, path |-> path, id |-> Nil, auth |-> Nil, query |-> NoQuery,
     body |-> NoBody]

\* The client puts a scheme before a token that has none ...
Authorization(token) ==
    IF token = Nil \/ Len(token) > 1 THEN token ELSE <<"Bearer">> \o token

\* ... and the server takes the first word off a header that has several.
Credential(auth) == IF auth = Nil \/ Len(auth) <= 1 THEN auth ELSE Tail(auth)

-----------------------------------------------------------------------------
(* Decoding: a payload, or the name of the error. *)

Decoded(p)  == [ok |-> TRUE, payload |-> p]
Rejected(n) == [ok |-> FALSE, error |-> n]

Checked(valid, payload) == IF valid THEN Decoded(payload) ELSE Rejected("invalid")

\* An empty body; one that is no JSON object, or is over the limit of the reader.
FromBody(b, valid, payload) ==
    IF b.is = "none" THEN Rejected("missing_payload")
    ELSE IF b.is # "object" \/ b \in Oversized THEN Rejected("decode_payload")
    ELSE Checked(valid, payload)

\* The --body of a command is JSON of any length.
FromFlag(b, valid, payload) ==
    IF b.is # "object" THEN Rejected("json") ELSE Checked(valid, payload)

-----------------------------------------------------------------------------
(* Outcomes of a method, and the answers they become. *)

Result(v)        == [is |-> "result", value |-> v]
ServiceError(n)  == [is |-> "error", name |-> n]
OtherError       == [is |-> "failure"]
Panic            == [is |-> "panic"]

ErrorFields == {"name", "id", "message", "temporary", "timeout", "fault"}

Response(status, body) == [status |-> status, location |-> Nil, body |-> body]

ErrorBody(n) == [f \in ErrorFields |-> IF f = "name" THEN n ELSE "other"]

\* Mutant: the error itself is shown, whatever it is.
errorFormatter_ShowsAll(out) ==
    ErrorBody(IF out.is = "error" THEN out.name ELSE "cause")

\* An error that the design does not declare becomes a fault without its cause.
errorFormatter(out) == ErrorBody(IF out.is = "error" THEN out.name ELSE "fault")

\* goahttp.ErrorEncoder.
encodeError(out) ==
    LET b == errorFormatter(out) IN
    Response(IF b["name"] = "fault" THEN 500 ELSE 400, b)

\* The errors a method declares have a status of their own.
EncodeError(out, declared) ==
    IF out.is = "error" /\ out.name \in DOMAIN declared
    THEN Response(declared[out.name], errorFormatter(out))
    ELSE encodeError(out)

-----------------------------------------------------------------------------
(* What the client makes of an answer. *)

Unreadable    == [is |-> "unreadable"]
Unexpected(n) == [is |-> "unexpected", status |-> n]

\* All six fields are required.
ValidErrorBody(b) == DOMAIN b = ErrorFields

ErrorFrom(b) == IF ValidErrorBody(b) THEN ServiceError(b["name"]) ELSE Unreadable

\* The status of success, those of the declared errors, and any other.
Told(resp, ok, valid, value, declared) ==
    CASE resp.status = ok       -> IF valid THEN Result(value) ELSE Unreadable
      [] resp.status \in declared -> ErrorFrom(resp.body)
      [] OTHER                  -> Unexpected(resp.status)

=============================================================================
