--------------------------------- MODULE Rpc ---------------------------------
(***************************************************************************)
(* What a client may rely on when it calls a method over HTTP: the method  *)
(* runs at most once; an answer tells what it did; a refusal, that it did  *)
(* nothing and will not; and without an answer nothing is known.           *)
(***************************************************************************)
CONSTANTS Calls, Nil

VARIABLES
    ran,   \* what the method has done, Nil before
    told   \* what the client has been told, Nil before

vars == <<ran, told>>

Refused == [is |-> "refused"]
Failed  == [is |-> "failed"]
Lost    == [is |-> "lost"]

Init == ran = [c \in Calls |-> Nil] /\ told = [c \in Calls |-> Nil]

Only(f, g, c) == \A d \in Calls \ {c} : g[d] = f[d]

\* Also when the client has given up, but not when it has been refused.
Run(c) ==
    /\ ran[c] = Nil /\ (told[c] = Nil \/ told[c] = Lost)
    /\ ran'[c] # Nil /\ Only(ran, ran', c)
    /\ UNCHANGED told

Tell(c) ==
    /\ told[c] = Nil /\ Only(told, told', c)
    /\ \/ ran[c] = Nil /\ told'[c] = Refused
       \/ /\ ran[c] # Nil
          /\ \/ ran[c].is \in {"result", "error"} /\ told'[c] = ran[c]
             \/ ran[c].is = "failure" /\ told'[c] = Failed
    /\ UNCHANGED ran

Lose(c) ==
    /\ told[c] = Nil /\ told'[c] = Lost /\ Only(told, told', c)
    /\ UNCHANGED ran

Next == \E c \in Calls : Run(c) \/ Tell(c) \/ Lose(c)
Spec == Init /\ [][Next]_vars

=============================================================================
