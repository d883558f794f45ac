----------------------------- MODULE EntriesWire -----------------------------
(***************************************************************************)
(* The service entries on the wire: what gen/http/entries and gen/entries  *)
(* generate for the server, the client and the command line.  A note's     *)
(* `row` stands for id, user_id, created_at and updated_at, which are      *)
(* copied from one structure to the next.                                  *)
(***************************************************************************)
EXTENDS Wire

Methods == {"create", "list", "get", "update", "delete"}

Mounts == { <<"create", "POST",   "/entries">>,
            <<"list",   "GET",    "/entries">>,
            <<"get",    "GET",    "/entries/:id">>,
            <<"update", "PUT",    "/entries/:id">>,
            <<"delete", "DELETE", "/entries/:id">> }

-----------------------------------------------------------------------------
(* Server: requests. *)

ValidNote(b) ==
    /\ b.entry_date.form = "date"
    /\ b.kind.form \in {"til", "diary"}
    /\ b.title.chars >= 1
    /\ b.tags # Nil => TagNames(b.tags)

\* Mutant: the tags of a note are not looked at.
ValidateCreateRequestBody_NoTags(b) ==
    /\ b.title # Nil /\ b.entry_date # Nil /\ b.kind # Nil
    /\ ValidNote([b EXCEPT !.tags = Nil])

ValidateCreateRequestBody(b) ==
    b.title # Nil /\ b.entry_date # Nil /\ b.kind # Nil /\ ValidNote(b)

ValidateUpdateRequestBody(b) ==
    b.title # Nil /\ b.entry_date # Nil /\ b.kind # Nil /\ ValidNote(b)

NewCreatePayload(b, token) ==
    [entry_date |-> b.entry_date, kind |-> b.kind, title |-> b.title,
     body |-> b.body, tags |-> b.tags, token |-> token]

NewListPayload(limit, offset, tag, q, from, to, token) ==
    [limit |-> limit, offset |-> offset, tag |-> tag, q |-> q, from |-> from,
     to |-> to, token |-> token]

NewGetPayload(id, token) == [id |-> id, token |-> token]

NewUpdatePayload(b, id, token) ==
    [entry_date |-> b.entry_date, kind |-> b.kind, title |-> b.title,
     body |-> b.body, tags |-> b.tags, id |-> id, token |-> token]

NewDeletePayload(id, token) == [id |-> id, token |-> token]

DecodeCreateRequest(r) ==
    FromBody(r.body, ValidateCreateRequestBody(r.body),
             NewCreatePayload(r.body, Credential(r.auth)))

IsDate(t) == t = Nil \/ t.form = "date"
Short(q)  == q = Nil \/ q.chars \in 1..100

\* Mutant: from and to are swapped.
DecodeListRequest_Swapped(r) ==
    LET q      == r.query
        limit  == IF q.limit = Nil THEN 10 ELSE q.limit
        offset == IF q.offset = Nil THEN 0 ELSE q.offset
    IN Checked(/\ limit # NaN /\ limit \in 1..100 /\ offset # NaN /\ offset >= 0
               /\ TagNames(q.tag) /\ Short(q.q) /\ IsDate(q.from) /\ IsDate(q.to),
               NewListPayload(limit, offset, q.tag, q.q, q.to, q.from,
                              Credential(r.auth)))

DecodeListRequest(r) ==
    LET q      == r.query
        limit  == IF q.limit = Nil THEN 10 ELSE q.limit
        offset == IF q.offset = Nil THEN 0 ELSE q.offset
    IN Checked(/\ limit # NaN /\ limit \in 1..100 /\ offset # NaN /\ offset >= 0
               /\ TagNames(q.tag) /\ Short(q.q) /\ IsDate(q.from) /\ IsDate(q.to),
               NewListPayload(limit, offset, q.tag, q.q, q.from, q.to,
                              Credential(r.auth)))

DecodeGetRequest(r) == Checked(r.id # NaN, NewGetPayload(r.id, Credential(r.auth)))

DecodeUpdateRequest(r) ==
    FromBody(r.body, ValidateUpdateRequestBody(r.body) /\ r.id # NaN,
             NewUpdatePayload(r.body, r.id, Credential(r.auth)))

DecodeDeleteRequest(r) ==
    Checked(r.id # NaN, NewDeletePayload(r.id, Credential(r.auth)))

-----------------------------------------------------------------------------
(* Server: answers. *)

ListOf(tags) == IF tags = Nil THEN <<>> ELSE tags

Note(j) == [row |-> j.row, entry_date |-> j.entry_date, kind |-> j.kind,
            title |-> j.title, body |-> j.body, tags |-> ListOf(j.tags)]

NewCreateResponseBody(j) == Note(j)
NewGetResponseBody(j)    == Note(j)
NewUpdateResponseBody(j) == Note(j)

marshalEntriesJournalToJournalResponse(j) == Note(j)

NewListResponseBody(js) ==
    [i \in DOMAIN js |-> marshalEntriesJournalToJournalResponse(js[i])]

EncodeCreateResponse(j) ==
    [Response(201, NewCreateResponseBody(j)) EXCEPT !.location = j.location]
EncodeListResponse(js)  == Response(200, NewListResponseBody(js))
EncodeGetResponse(j)    == Response(200, NewGetResponseBody(j))
EncodeUpdateResponse(j) == Response(200, NewUpdateResponseBody(j))
EncodeDeleteResponse(v) == Response(204, Nil)

EncodeCreateError(out) == EncodeError(out, [unauthorized |-> 401])
EncodeListError(out)   == EncodeError(out, [unauthorized |-> 401])
EncodeGetError(out)    == EncodeError(out, [not_found |-> 404, unauthorized |-> 401])
EncodeUpdateError(out) == EncodeError(out, [not_found |-> 404, unauthorized |-> 401])
EncodeDeleteError(out) == EncodeError(out, [not_found |-> 404, unauthorized |-> 401])

-----------------------------------------------------------------------------
(* Client: requests.  omitempty leaves out an empty list of tags. *)

NewCreateRequestBody(p) ==
    [is |-> "object", entry_date |-> p.entry_date, kind |-> p.kind,
     title |-> p.title, body |-> p.body,
     tags |-> IF p.tags = <<>> THEN Nil ELSE p.tags]

NewUpdateRequestBody(p) ==
    [is |-> "object", entry_date |-> p.entry_date, kind |-> p.kind,
     title |-> p.title, body |-> p.body,
     tags |-> IF p.tags = <<>> THEN Nil ELSE p.tags]

BuildCreateRequest(p) == Request("POST", "/entries")
BuildListRequest(p)   == Request("GET", "/entries")
BuildGetRequest(p)    == [Request("GET", "/entries/:id") EXCEPT !.id = p.id]
BuildUpdateRequest(p) == [Request("PUT", "/entries/:id") EXCEPT !.id = p.id]
BuildDeleteRequest(p) == [Request("DELETE", "/entries/:id") EXCEPT !.id = p.id]

EncodeCreateRequest(r, p) ==
    [r EXCEPT !.auth = Authorization(p.token), !.body = NewCreateRequestBody(p)]

EncodeListRequest(r, p) ==
    [r EXCEPT !.auth = Authorization(p.token),
              !.query = [limit |-> p.limit, offset |-> p.offset, tag |-> p.tag,
                         q |-> p.q, from |-> p.from, to |-> p.to]]

EncodeGetRequest(r, p) == [r EXCEPT !.auth = Authorization(p.token)]

EncodeUpdateRequest(r, p) ==
    [r EXCEPT !.auth = Authorization(p.token), !.body = NewUpdateRequestBody(p)]

EncodeDeleteRequest(r, p) == [r EXCEPT !.auth = Authorization(p.token)]

-----------------------------------------------------------------------------
(* Client: answers. *)

ValidateCreateResponseBody(b) == b.tags # Nil /\ ValidNote(b)
ValidateGetResponseBody(b)    == b.tags # Nil /\ ValidNote(b)
ValidateUpdateResponseBody(b) == b.tags # Nil /\ ValidNote(b)
ValidateJournalResponse(b)    == b.tags # Nil /\ ValidNote(b)

unmarshalJournalResponseToEntriesJournal(b) == Note(b)

NewCreateResultCreated(b, location) ==
    [row |-> b.row, entry_date |-> b.entry_date, kind |-> b.kind, title |-> b.title,
     body |-> b.body, tags |-> b.tags, location |-> location]

NewListJournalOK(bs) ==
    [i \in DOMAIN bs |-> unmarshalJournalResponseToEntriesJournal(bs[i])]

NewGetJournalOK(b)    == Note(b)
NewUpdateJournalOK(b) == Note(b)

DecodeCreateResponse(r) ==
    Told(r, 201, ValidateCreateResponseBody(r.body) /\ r.location # Nil,
         NewCreateResultCreated(r.body, r.location), {401})

DecodeListResponse(r) ==
    Told(r, 200, \A i \in DOMAIN r.body : ValidateJournalResponse(r.body[i]),
         NewListJournalOK(r.body), {401})

DecodeGetResponse(r) ==
    Told(r, 200, ValidateGetResponseBody(r.body), NewGetJournalOK(r.body), {404, 401})

DecodeUpdateResponse(r) ==
    Told(r, 200, ValidateUpdateResponseBody(r.body), NewUpdateJournalOK(r.body),
         {404, 401})

DecodeDeleteResponse(r) == Told(r, 204, TRUE, Nil, {404, 401})

-----------------------------------------------------------------------------
(* Command line: a field that the JSON leaves out is an empty string. *)

Filled(b) ==
    [b EXCEPT !.entry_date = OrEmpty(@), !.kind = OrEmpty(@), !.title = OrEmpty(@)]

BuildCreatePayload(f) ==
    FromFlag(f.body, ValidNote(Filled(f.body)),
             NewCreatePayload(Filled(f.body), f.token))

\* An empty --limit is not checked, and is 0.
BuildListPayload(f) ==
    Checked(/\ NaN \notin {f.limit, f.offset, f.tag}
            /\ f.limit # Nil => f.limit \in 1..100
            /\ f.offset # Nil => f.offset >= 0
            /\ TagNames(f.tag)
            /\ Short(f.q) /\ IsDate(f.from) /\ IsDate(f.to),
            [limit |-> IF f.limit = Nil THEN 0 ELSE f.limit,
             offset |-> IF f.offset = Nil THEN 0 ELSE f.offset,
             tag |-> f.tag, q |-> f.q, from |-> f.from, to |-> f.to,
             token |-> f.token])

BuildGetPayload(f) == Checked(f.id # NaN, NewGetPayload(f.id, f.token))

BuildUpdatePayload(f) ==
    FromFlag(f.body, ValidNote(Filled(f.body)) /\ f.id # NaN,
             NewUpdatePayload(Filled(f.body), f.id, f.token))

BuildDeletePayload(f) == Checked(f.id # NaN, NewDeletePayload(f.id, f.token))

-----------------------------------------------------------------------------
(* The methods by name. *)

\* The client endpoints.
Sends(m, p) ==
    CASE m = "create" -> EncodeCreateRequest(BuildCreateRequest(p), p)
      [] m = "list"   -> EncodeListRequest(BuildListRequest(p), p)
      [] m = "get"    -> EncodeGetRequest(BuildGetRequest(p), p)
      [] m = "update" -> EncodeUpdateRequest(BuildUpdateRequest(p), p)
      [] m = "delete" -> EncodeDeleteRequest(BuildDeleteRequest(p), p)

Hears(m, r) ==
    CASE m = "create" -> DecodeCreateResponse(r)
      [] m = "list"   -> DecodeListResponse(r)
      [] m = "get"    -> DecodeGetResponse(r)
      [] m = "update" -> DecodeUpdateResponse(r)
      [] m = "delete" -> DecodeDeleteResponse(r)

\* The handlers.
Decodes(m, r) ==
    CASE m = "create" -> DecodeCreateRequest(r)
      [] m = "list"   -> DecodeListRequest(r)
      [] m = "get"    -> DecodeGetRequest(r)
      [] m = "update" -> DecodeUpdateRequest(r)
      [] m = "delete" -> DecodeDeleteRequest(r)

Answers(m, v) ==
    CASE m = "create" -> EncodeCreateResponse(v)
      [] m = "list"   -> EncodeListResponse(v)
      [] m = "get"    -> EncodeGetResponse(v)
      [] m = "update" -> EncodeUpdateResponse(v)
      [] m = "delete" -> EncodeDeleteResponse(v)

Fails(m, out) ==
    CASE m = "create" -> EncodeCreateError(out)
      [] m = "list"   -> EncodeListError(out)
      [] m = "get"    -> EncodeGetError(out)
      [] m = "update" -> EncodeUpdateError(out)
      [] m = "delete" -> EncodeDeleteError(out)

Builds(m, f) ==
    CASE m = "create" -> BuildCreatePayload(f)
      [] m = "list"   -> BuildListPayload(f)
      [] m = "get"    -> BuildGetPayload(f)
      [] m = "update" -> BuildUpdatePayload(f)
      [] m = "delete" -> BuildDeletePayload(f)

=============================================================================
