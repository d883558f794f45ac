----------------------------- MODULE MCExchange -----------------------------
(***************************************************************************)
(* Requests for TLC: a good one of every method, and for every field the   *)
(* values on both sides of each limit that the design states, one field    *)
(* off at a time, once by the command line and once by another client.     *)
(* A second request of another user is in the server at the same time.     *)
(***************************************************************************)
EXTENDS ExchangeSafety, TLC

CONSTANTS alice, bob, row, jwtA, jwtB, junk, c1, c2

Tokens == (<<jwtA>> :> alice) @@ (<<jwtB>> :> bob)

Word(n)  == Text(n, "text")
Loose(n) == Text(n, "loose")
Day      == Text(10, "date")
Til      == Text(3, "til")

TagLists == {Nil, <<>>, <<Word(1), Word(50)>>, <<Word(51)>>, <<Loose(3)>>, <<Empty>>,
             [i \in 1..20 |-> Word(2)], [i \in 1..21 |-> Word(2)]}

Body == [is |-> "object", entry_date |-> Day, kind |-> Til, title |-> Word(1),
         body |-> Nil, tags |-> <<Word(2)>>]

\* r with one field changed at a time.
Off(r, changes) ==
    {r} \cup UNION {{[r EXCEPT ![f] = v] : v \in changes[f]} : f \in DOMAIN changes}

Broken == {NoBody, [is |-> "text"]}

Long == Word(2000000)   \* JSON of it is over 1 MiB

NoteBodies ==
    Broken \cup Off(Body, [entry_date |-> {Nil, Empty, Word(8)},
                           kind |-> {Nil, Word(4), Text(5, "diary")},
                           title |-> {Nil, Empty, Long},
                           body |-> {Empty, Word(9), Long},
                           tags |-> TagLists])

NameBodies ==
    Broken \cup {[is |-> "object", name |-> n] :
                    n \in {Nil, Empty, Word(1), Word(50), Word(51), Loose(3), Long}}

CredentialBodies ==
    Broken \cup Off([is |-> "object", email |-> Text(9, "email"), password |-> Word(8)],
                    [email |-> {Nil, Empty, Word(9), Text(254, "email"), Text(255, "email"),
                               Text(2000000, "email")},
                     password |-> {Nil, Empty, Word(7), Word(72), Word(73), Long}])

\* An object that is over 1 MiB by blanks, or by fields that the design does not have.
Padded == [is |-> "padded"]

TooLong ==
    {Padded} \cup
    {b \in NoteBodies \cup NameBodies \cup CredentialBodies :
        \E f \in DOMAIN b : f # "is" /\ f # "tags" /\ b[f] # Nil /\ b[f].chars = 2000000}

Queries ==
    Off(NoQuery, [limit |-> {0, 1, 100, 101, NaN}, offset |-> {-1, 0, 1, NaN},
                  tag |-> TagLists \ {Nil}, q |-> {Word(1), Word(100), Word(101)},
                  from |-> {Day, Word(3)}, to |-> {Day, Word(3)}])

Bearings == {Nil, <<jwtA>>, <<"Bearer", jwtA>>, <<"Token", jwtB>>, <<junk>>}

Cli(s, m, flags) == [by |-> "cli", method |-> <<s, m>>, flags |-> flags]
Other(r) == [by |-> "other", request |-> r]

A == [token |-> <<jwtA>>]

Commands ==
    {Cli("entries", "create", A @@ [body |-> b]) : b \in NoteBodies}
    \cup {Cli("entries", "update", A @@ [id |-> 1, body |-> b]) : b \in NoteBodies}
    \cup {Cli("tags", "update", A @@ [id |-> 1, body |-> b]) : b \in NameBodies}
    \cup {Cli("users", m, [body |-> b]) : m \in {"register", "login"}, b \in CredentialBodies}
    \cup {Cli("entries", "list", A @@ [f \in {"offset", "tag", "q", "from", "to"} |-> q[f]]) :
            q \in Queries}
    \cup {Cli("entries", "list", A @@ [limit |-> n]) : n \in {0, 1, 100, 101, NaN, Nil}}
    \cup {Cli("entries", "list", A @@ [tag |-> NaN])}
    \cup {Cli("entries", "get", [id |-> i, token |-> t]) : i \in {1, NaN}, t \in Bearings}
    \cup {Cli("entries", "update", A @@ [id |-> NaN, body |-> Body])}
    \cup {Cli(s, "delete", A @@ f) : s \in {"entries", "tags"},
            f \in {[id |-> 1], [id |-> NaN], [token |-> <<junk>>]}}
    \cup {Cli("tags", "update", A @@ [body |-> [is |-> "object", name |-> Word(1)]])}
    \cup {Cli("tags", "list", [token |-> t]) : t \in Bearings}
    \cup {Cli("users", "me", [token |-> t]) : t \in Bearings}
    \cup {Cli("health", "check", <<>>), Cli("health", "check", A), Cli("users", "check", A), Cli("notes", "list", A)}

Authorized(r) == [r EXCEPT !.auth = <<"Bearer", jwtB>>]

Requests ==
    {Authorized([Request("POST", "/entries") EXCEPT !.body = b]) : b \in {Padded} \cup NoteBodies}
    \cup {Authorized([Request("PUT", "/entries/:id") EXCEPT !.id = 1, !.body = b]) :
            b \in {Padded} \cup NoteBodies}
    \cup {Authorized([Request("PUT", "/entries/:id") EXCEPT !.id = NaN, !.body = Body])}
    \cup {Authorized([Request("PUT", "/tags/:id") EXCEPT !.id = i, !.body = b]) :
            i \in {1, NaN}, b \in {Padded} \cup NameBodies}
    \cup {[Request("POST", p) EXCEPT !.body = b] :
            p \in {"/users", "/users/login"}, b \in {Padded} \cup CredentialBodies}
    \cup {Authorized([Request("GET", "/entries") EXCEPT !.query = q]) : q \in Queries}
    \cup {[Request(v, p) EXCEPT !.id = i, !.auth = t] :
            v \in {"GET", "DELETE"}, p \in {"/entries/:id", "/tags/:id"}, i \in {1, NaN},
            t \in Bearings}
    \cup {[Request("GET", p) EXCEPT !.auth = t] :
            p \in {"/entries", "/tags", "/users/me", "/health", "/nowhere"}, t \in Bearings}

EveryAsk == Commands \cup {Other(r) : r \in Requests}

\* A second request that the server has at the same time.
Me == Other([Request("GET", "/users/me") EXCEPT !.auth = <<"Bearer", jwtB>>])

AnythingAndMe == [c \in Calls |-> IF c = c2 THEN {Me} ELSE EveryAsk]

Journals ==
    {[row |-> row, entry_date |-> Day, kind |-> Til, title |-> Word(5), body |-> Nil,
      tags |-> t] : t \in {<<>>, <<Word(50), Word(1)>>}}
=============================================================================
