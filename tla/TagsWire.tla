------------------------------ MODULE TagsWire ------------------------------
(***************************************************************************)
(* The service tags on the wire (gen/http/tags, gen/tags).                 *)
(***************************************************************************)
EXTENDS Wire

Methods == {"list", "update", "delete"}

Mounts == { <<"list",   "GET",    "/tags">>,
            <<"update", "PUT",    "/tags/:id">>,
            <<"delete", "DELETE", "/tags/:id">> }

-----------------------------------------------------------------------------
(* Server. *)

ValidateUpdateRequestBody(b) == b.name # Nil /\ TagName(b.name)

NewListPayload(token)            == [token |-> token]
NewUpdatePayload(b, id, token)   == [name |-> b.name, id |-> id, token |-> token]
NewDeletePayload(id, token)      == [id |-> id, token |-> token]

DecodeListRequest(r) == Decoded(NewListPayload(Credential(r.auth)))

DecodeUpdateRequest(r) ==
    FromBody(r.body, ValidateUpdateRequestBody(r.body) /\ r.id # NaN,
             NewUpdatePayload(r.body, r.id, Credential(r.auth)))

DecodeDeleteRequest(r) ==
    Checked(r.id # NaN, NewDeletePayload(r.id, Credential(r.auth)))

Tag(t) == [id |-> t.id, name |-> t.name, entry_count |-> t.entry_count]

marshalTagsTagToTagResponse(t) == Tag(t)

NewListResponseBody(ts)  == [i \in DOMAIN ts |-> marshalTagsTagToTagResponse(ts[i])]
NewUpdateResponseBody(t) == Tag(t)

EncodeListResponse(ts)  == Response(200, NewListResponseBody(ts))
EncodeUpdateResponse(t) == Response(200, NewUpdateResponseBody(t))
EncodeDeleteResponse(v) == Response(204, Nil)

EncodeListError(out) == EncodeError(out, [unauthorized |-> 401])

EncodeUpdateError(out) ==
    EncodeError(out, [not_found |-> 404, conflict |-> 409, unauthorized |-> 401])
EncodeDeleteError(out) == EncodeError(out, [not_found |-> 404, unauthorized |-> 401])

-----------------------------------------------------------------------------
(* Client. *)

NewUpdateRequestBody(p) == [is |-> "object", name |-> p.name]

BuildListRequest(p)   == Request("GET", "/tags")
BuildUpdateRequest(p) == [Request("PUT", "/tags/:id") EXCEPT !.id = p.id]
BuildDeleteRequest(p) == [Request("DELETE", "/tags/:id") EXCEPT !.id = p.id]

EncodeListRequest(r, p) == [r EXCEPT !.auth = Authorization(p.token)]
EncodeUpdateRequest(r, p) ==
    [r EXCEPT !.auth = Authorization(p.token), !.body = NewUpdateRequestBody(p)]
EncodeDeleteRequest(r, p) == [r EXCEPT !.auth = Authorization(p.token)]

Complete(b) == b.id # Nil /\ b.name # Nil /\ b.entry_count # Nil

ValidateUpdateResponseBody(b) == Complete(b) /\ TagName(b.name)
ValidateTagResponse(b)        == Complete(b) /\ TagName(b.name)

unmarshalTagResponseToTagsTag(b) == Tag(b)

NewListTagOK(bs)  == [i \in DOMAIN bs |-> unmarshalTagResponseToTagsTag(bs[i])]
NewUpdateTagOK(b) == Tag(b)

DecodeListResponse(r) ==
    Told(r, 200, \A i \in DOMAIN r.body : ValidateTagResponse(r.body[i]),
         NewListTagOK(r.body), {401})

\* Mutant: the client does not know the conflict.
DecodeUpdateResponse_NoConflict(r) ==
    Told(r, 200, ValidateUpdateResponseBody(r.body), NewUpdateTagOK(r.body), {404, 401})

DecodeUpdateResponse(r) ==
    Told(r, 200, ValidateUpdateResponseBody(r.body), NewUpdateTagOK(r.body),
         {404, 409, 401})

DecodeDeleteResponse(r) == Told(r, 204, TRUE, Nil, {404, 401})

-----------------------------------------------------------------------------
(* Command line. *)

Filled(b) == [b EXCEPT !.name = OrEmpty(@)]

BuildListPayload(f) == Decoded(NewListPayload(f.token))

BuildUpdatePayload(f) ==
    FromFlag(f.body, TagName(Filled(f.body).name) /\ f.id # NaN,
             NewUpdatePayload(Filled(f.body), f.id, f.token))

BuildDeletePayload(f) == Checked(f.id # NaN, NewDeletePayload(f.id, f.token))

-----------------------------------------------------------------------------
(* The methods by name. *)

Sends(m, p) ==
    CASE m = "list"   -> EncodeListRequest(BuildListRequest(p), p)
      [] m = "update" -> EncodeUpdateRequest(BuildUpdateRequest(p), p)
      [] m = "delete" -> EncodeDeleteRequest(BuildDeleteRequest(p), p)

Hears(m, r) ==
    CASE m = "list"   -> DecodeListResponse(r)
      [] m = "update" -> DecodeUpdateResponse(r)
      [] m = "delete" -> DecodeDeleteResponse(r)

Decodes(m, r) ==
    CASE m = "list"   -> DecodeListRequest(r)
      [] m = "update" -> DecodeUpdateRequest(r)
      [] m = "delete" -> DecodeDeleteRequest(r)

Answers(m, v) ==
    CASE m = "list"   -> EncodeListResponse(v)
      [] m = "update" -> EncodeUpdateResponse(v)
      [] m = "delete" -> EncodeDeleteResponse(v)

Fails(m, out) ==
    CASE m = "list"   -> EncodeListError(out)
      [] m = "update" -> EncodeUpdateError(out)
      [] m = "delete" -> EncodeDeleteError(out)

Builds(m, f) ==
    CASE m = "list"   -> BuildListPayload(f)
      [] m = "update" -> BuildUpdatePayload(f)
      [] m = "delete" -> BuildDeletePayload(f)

=============================================================================
