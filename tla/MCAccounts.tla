----------------------------- MODULE MCAccounts -----------------------------
(***************************************************************************)
(* Small instances of Accounts for TLC: two spellings of one address and a *)
(* second address; a password over 72 bytes and one that bcrypt cannot     *)
(* tell from it.                                                           *)
(***************************************************************************)
EXTENDS AccountsSafety, TLC

CONSTANTS alice, Alice, bob, short, long72, long73, r1, r2, l, m

Spellings == [e \in Emails |-> IF e = bob THEN "bob" ELSE "alice"]
Bytes     == [p \in Passwords |-> IF p = long73 THEN long72 ELSE p]

\* Two registrations, a login and a secured call, in any order.
OneOfEach == [c \in Calls |-> CASE c = l -> {"login"} [] c = m -> {"me"}
                                [] OTHER -> {"register"}]

\* So are the registrations, the spellings of one address and the secrets.
Alike ==
    {r @@ e @@ s : r \in Permutations({r1, r2}), e \in Permutations({alice, Alice}),
                   s \in Permutations(Secrets)}
=============================================================================
