------------------------------- MODULE Journal -------------------------------
(***************************************************************************)
(* What the entries and tags services promise their clients: every call    *)
(* takes effect at one instant between the request and the answer.  A note *)
(* carries the names of its tags; renaming or deleting a tag changes those *)
(* names in every note of the user.  The catalog holds the tags of every   *)
(* user.  A call answered with an error has taken effect wholly or not at  *)
(* all.  The entry_count in the answer of a rename is left out: it is not  *)
(* the count of any agreed instant (see EntryStoreSafety).                 *)
(***************************************************************************)
EXTENDS Naturals, FiniteSets, Sequences, Functions

CONSTANTS
    Procs,      \* calls served at the same time
    Calls       \* the calls clients may make

VARIABLES
    notes,      \* id -> [user, text, created, updated, names]
    catalog,    \* tag id -> [user, name]
    time,       \* the clock
    want,       \* the call being served, op "none" when there is none
    stamp,      \* the date a call gives its note: {} until it is chosen
    answer      \* the last answer

vars == <<notes, catalog, time, want, stamp, answer>>

NoCall == [op |-> "none"]

Init ==
    /\ notes = [e \in {} |-> ""]
    /\ catalog = [t \in {} |-> ""]
    /\ time = 0
    /\ want = [p \in Procs |-> NoCall]
    /\ stamp = [p \in Procs |-> {}]
    /\ answer = [p \in Procs |-> [status |-> "none"]]

-----------------------------------------------------------------------------

Elapse == time' = time + 1 /\ UNCHANGED <<notes, catalog, want, stamp, answer>>

Ask(p) ==
    /\ want[p] = NoCall
    /\ \E c \in Calls : want' = [want EXCEPT ![p] = c]
    /\ answer' = [answer EXCEPT ![p] = [status |-> "none"]]
    /\ UNCHANGED <<notes, catalog, time, stamp>>

\* A note is dated by one instant within the call that writes it.
Date(p) ==
    /\ want[p].op \in {"create", "update"}
    /\ stamp[p] = {}
    /\ stamp' = [stamp EXCEPT ![p] = {time}]
    /\ UNCHANGED <<notes, catalog, time, want, answer>>

Answer(p, r) ==
    /\ want' = [want EXCEPT ![p] = NoCall]
    /\ stamp' = [stamp EXCEPT ![p] = {}]
    /\ answer' = [answer EXCEPT ![p] = r]
    /\ UNCHANGED time

\* The answer to a call that has taken effect may be lost on its way.
Done(p, r)        == Answer(p, r) \/ Answer(p, [status |-> "error"])
Refused(p, s)     == Answer(p, [status |-> s]) /\ UNCHANGED <<notes, catalog>>

OwnNote(p, e)  == e \in DOMAIN notes /\ notes[e].user = want[p].user
OwnTag(p, t)   == t \in DOMAIN catalog /\ catalog[t].user = want[p].user
Carrying(p, n) == {t \in DOMAIN catalog : OwnTag(p, t) /\ catalog[t].name = n}
Asked(p)       == {want[p].names[i] : i \in DOMAIN want[p].names}
Shown(e, n)    == [id |-> e, user |-> n.user, text |-> n.text,
                   created |-> n.created, updated |-> n.updated, names |-> n.names]
Show(e)        == Shown(e, notes[e])
Carriers(t)    == {e \in DOMAIN notes : /\ notes[e].user = catalog[t].user
                                        /\ catalog[t].name \in notes[e].names}

\* The names asked for that no tag of the user has get a tag each.
AddTags(p) ==
    LET new == {n \in Asked(p) : Carrying(p, n) = {}}
        ids == DOMAIN catalog' \ DOMAIN catalog
    IN  \E name \in Bijection(ids, new) :
            catalog' = [t \in DOMAIN catalog \cup ids |->
                IF t \in ids THEN [user |-> want[p].user, name |-> name[t]]
                             ELSE catalog[t]]

\* The tags listed replace those the note had; its creation date stays.
Write(p, e) ==
    \E date \in stamp[p] :
        LET note == [user    |-> want[p].user,
                     text    |-> want[p].text,
                     created |-> IF e \in DOMAIN notes THEN notes[e].created ELSE date,
                     updated |-> date,
                     names   |-> Asked(p)]
        IN  /\ notes' = [x \in DOMAIN notes \cup {e} |-> IF x = e THEN note ELSE notes[x]]
            /\ AddTags(p)
            /\ Done(p, [status |-> "ok", note |-> Shown(e, note)])

Create(p) ==
    /\ want[p].op = "create"
    /\ \E e \in DOMAIN notes' \ DOMAIN notes : Write(p, e)

Update(p) ==
    /\ want[p].op = "update"
    /\ OwnNote(p, want[p].id)
    /\ Write(p, want[p].id)

Delete(p) ==
    /\ want[p].op = "delete"
    /\ OwnNote(p, want[p].id)
    /\ notes' = [e \in DOMAIN notes \ {want[p].id} |-> notes[e]]
    /\ UNCHANGED catalog
    /\ Done(p, [status |-> "ok"])

NoNote(p) ==
    /\ want[p].op \in {"update", "delete", "get"}
    /\ ~OwnNote(p, want[p].id)
    /\ Refused(p, "notFound")

\* The notes of the user that carry the name old carry the names in new instead.
Relabelled(p, old, new) ==
    [e \in DOMAIN notes |->
        IF OwnNote(p, e) /\ old \in notes[e].names
        THEN [notes[e] EXCEPT !.names = (@ \ {old}) \cup new]
        ELSE notes[e]]

Rename(p) ==
    /\ want[p].op = "rename"
    /\ OwnTag(p, want[p].id)
    /\ Carrying(p, want[p].name) \subseteq {want[p].id}
    /\ notes' = Relabelled(p, catalog[want[p].id].name, {want[p].name})
    /\ catalog' = [catalog EXCEPT ![want[p].id].name = want[p].name]
    /\ Done(p, [status |-> "ok", tag |-> [id |-> want[p].id, name |-> want[p].name]])

Conflict(p) ==
    /\ want[p].op = "rename"
    /\ OwnTag(p, want[p].id)
    /\ Carrying(p, want[p].name) \ {want[p].id} # {}
    /\ Refused(p, "conflict")

Drop(p) ==
    /\ want[p].op = "drop"
    /\ OwnTag(p, want[p].id)
    /\ notes' = Relabelled(p, catalog[want[p].id].name, {})
    /\ catalog' = [t \in DOMAIN catalog \ {want[p].id} |-> catalog[t]]
    /\ Done(p, [status |-> "ok"])

NoTag(p) ==
    /\ want[p].op \in {"rename", "drop"}
    /\ ~OwnTag(p, want[p].id)
    /\ Refused(p, "notFound")

Get(p) ==
    /\ want[p].op = "get"
    /\ OwnNote(p, want[p].id)
    /\ Answer(p, [status |-> "ok", note |-> Show(want[p].id)])
    /\ UNCHANGED <<notes, catalog>>

List(p) ==
    /\ want[p].op = "list"
    /\ Answer(p, [status |-> "ok",
                  notes |-> {Show(e) : e \in {e \in DOMAIN notes : OwnNote(p, e)}}])
    /\ UNCHANGED <<notes, catalog>>

Tags(p) ==
    /\ want[p].op = "tags"
    /\ Answer(p, [status |-> "ok",
                  catalog |-> {[id |-> t, name |-> catalog[t].name,
                                count |-> Cardinality(Carriers(t))] :
                                    t \in {t \in DOMAIN catalog : OwnTag(p, t)}}])
    /\ UNCHANGED <<notes, catalog>>

Break(p) == want[p] # NoCall /\ Refused(p, "error")

Next ==
    \/ \E p \in Procs :
        \/ Ask(p) \/ Date(p) \/ Create(p) \/ Update(p) \/ Delete(p) \/ NoNote(p)
        \/ Rename(p) \/ Conflict(p) \/ Drop(p) \/ NoTag(p)
        \/ Get(p) \/ List(p) \/ Tags(p) \/ Break(p)
    \/ Elapse

Spec == Init /\ [][Next]_vars

=============================================================================
