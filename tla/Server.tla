------------------------------- MODULE Server -------------------------------
(***************************************************************************)
(* The life of the server process (cmd/life): start, signal, graceful      *)
(* shutdown and exit; the requests it serves meanwhile; and the connection *)
(* pool they share with the health check (db.go, health.go).               *)
(*                                                                         *)
(* Goroutines: main, the signal handler, the listener (ListenAndServe),    *)
(* the one that waits for the cancellation and calls Shutdown, and one per *)
(* request.  What a request does with its connection is EntryStore's; here *)
(* it holds one, and a write may have to wait for another write.           *)
(***************************************************************************)
EXTENDS Naturals, FiniteSets

CONSTANTS
    Reqs,       \* requests that may arrive
    Writes,     \* those that write rows, and may wait for each other
    Checks,     \* those that call the health check
    MaxConns,   \* size of the pool
    MaxOutages, \* bound on how often the database goes down
    None        \* no request

ASSUME ReqsAssumption ==
    Writes \subseteq Reqs /\ Checks \subseteq Reqs /\ None \notin Reqs
ASSUME PoolAssumption == MaxConns \in Nat \ {0} /\ MaxOutages \in Nat

VARIABLES
    main,       \* where main is
    sig,        \* the signal goroutine
    lis,        \* the listener goroutine
    shut,       \* the goroutine that calls Shutdown
    late,       \* Shutdown gave up after its 30 s
    db,         \* whether PostgreSQL answers
    outages,    \* how often it has gone down
    rq,         \* where the handler of each request is
    behind,     \* the write whose rows each request waits for
    idle,       \* open connections nobody uses
    orphans     \* connections being opened that nobody waits for any more

process == <<main, sig, lis, shut, late>>
network == <<db, outages>>
pool    == <<idle, orphans>>
vars    == <<process, network, rq, behind, pool>>

Init ==
    /\ main = "connect"
    /\ sig = "off" /\ lis = "off" /\ shut = "off" /\ late = FALSE
    /\ db \in {"up", "down"} /\ outages = 0
    /\ rq = [r \in Reqs |-> "absent"]
    /\ behind = [r \in Reqs |-> None]
    /\ idle = 0 /\ orphans = 0

Running   == main \notin {"exit", "fatal", "killed"}
Busy(r)   == rq[r] \in {"new", "serve", "acquire", "dial", "conn", "reply"}
Quiet     == \A r \in Reqs : ~Busy(r)
Used      == Cardinality({r \in Reqs : rq[r] \in {"dial", "conn"}}) + orphans
PoolClosed == main = "closing"

\* Mutant: main forgets to cancel the context.
Cancelled_Never == FALSE

Cancelled == main \in {"stopping", "closing", "exit"}

-----------------------------------------------------------------------------
(* main *)

\* Mutant: Connect has no time limit of its own.
ConnectFails_Never == FALSE

\* Ping opens one connection, within 5 s or not at all.
Connects ==
    /\ main = "connect" /\ db = "up"
    /\ main' = "auth" /\ idle' = 1
    /\ UNCHANGED <<sig, lis, shut, late, network, rq, behind, orphans>>

ConnectFails ==
    /\ main = "connect" /\ db = "down"
    /\ main' = "fatal"
    /\ UNCHANGED <<sig, lis, shut, late, network, rq, behind, pool>>

\* NewAuth accepts the secret; the goroutines are created.
Starts ==
    /\ main = "auth" /\ main' = "serving"
    /\ UNCHANGED <<sig, lis, shut, late, network, rq, behind, pool>>

\* No database URL, a malformed one, or a secret too short.
ConfigFails ==
    /\ main \in {"connect", "auth"} /\ main' = "fatal"
    /\ UNCHANGED <<sig, lis, shut, late, network, rq, behind, pool>>

\* main takes one value from errc, which is unbuffered, and cancels.  The other
\* sender, if it ever sends, stays at its send.
Receive ==
    /\ main = "serving" /\ main' = "stopping"
    /\ \/ sig = "sending" /\ sig' = "sent" /\ UNCHANGED lis
       \/ lis = "sending" /\ lis' = "sent" /\ UNCHANGED sig
    /\ UNCHANGED <<shut, late, network, rq, behind, pool>>

\* Mutant: main does not wait for the wait group.
Joins_NoWait ==
    /\ main = "stopping" /\ main' = "closing"
    /\ idle' = 0
    /\ UNCHANGED <<sig, lis, shut, late, network, rq, behind, orphans>>

\* wg.Wait returns; the deferred pool.Close begins and closes what is idle.
Joins ==
    /\ main = "stopping" /\ shut = "done"
    /\ main' = "closing" /\ idle' = 0
    /\ UNCHANGED <<sig, lis, shut, late, network, rq, behind, orphans>>

\* pool.Close returns when every connection has been given back.
Exits ==
    /\ main = "closing" /\ Used = 0
    /\ main' = "exit"
    /\ UNCHANGED <<sig, lis, shut, late, network, rq, behind, pool>>

-----------------------------------------------------------------------------
(* The other goroutines. *)

\* signal.Notify, once the goroutine has been scheduled.
Notify ==
    /\ Running /\ main \notin {"connect", "auth"} /\ sig = "off"
    /\ sig' = "armed"
    /\ UNCHANGED <<main, lis, shut, late, network, rq, behind, pool>>

\* SIGTERM or SIGINT.  Before Notify it has its default effect; a second one
\* stays in the channel.
Signal ==
    /\ Running /\ sig \in {"off", "armed"}
    /\ IF sig = "armed" THEN sig' = "sending" /\ UNCHANGED main
                        ELSE main' = "killed" /\ UNCHANGED sig
    /\ UNCHANGED <<lis, shut, late, network, rq, behind, pool>>

\* The goroutine of handleHTTPServer creates the one of the listener.
ShutterStarts ==
    /\ Running /\ main \notin {"connect", "auth"} /\ shut = "off"
    /\ shut' = "wait" /\ lis' = "new"
    /\ UNCHANGED <<main, sig, late, network, rq, behind, pool>>

Listens ==
    /\ Running /\ lis = "new" /\ shut = "wait"
    /\ lis' = "listening"
    /\ UNCHANGED <<main, sig, shut, late, network, rq, behind, pool>>

ListenFails ==
    /\ Running /\ lis = "new" /\ lis' = "sending"
    /\ UNCHANGED <<main, sig, shut, late, network, rq, behind, pool>>

\* ErrServerClosed, as soon as Shutdown has begun.
ListenEnds ==
    /\ Running /\ lis \in {"new", "listening"} /\ shut \in {"shutdown", "done"}
    /\ lis' = "sending"
    /\ UNCHANGED <<main, sig, shut, late, network, rq, behind, pool>>

ShutdownBegins ==
    /\ Running /\ shut = "wait" /\ Cancelled
    /\ shut' = "shutdown"
    /\ UNCHANGED <<main, sig, lis, late, network, rq, behind, pool>>

\* Mutant: Close instead of Shutdown.
ShutdownReturns_Close ==
    /\ Running /\ shut = "shutdown"
    /\ shut' = "done"
    /\ UNCHANGED <<main, sig, lis, late, network, rq, behind, pool>>

\* Shutdown returns nil when no connection is active; wg.Done.
ShutdownReturns ==
    /\ Running /\ shut = "shutdown" /\ Quiet
    /\ shut' = "done"
    /\ UNCHANGED <<main, sig, lis, late, network, rq, behind, pool>>

\* Shutdown returns the error of its context after 30 s; wg.Done all the same.
GraceOver ==
    /\ Running /\ shut = "shutdown" /\ ~Quiet
    /\ shut' = "done" /\ late' = TRUE
    /\ UNCHANGED <<main, sig, lis, network, rq, behind, pool>>

-----------------------------------------------------------------------------
(* Requests. *)

Moves(r, from, to) ==
    /\ Running
    /\ rq[r] = from
    /\ rq' = [rq EXCEPT ![r] = to]
    /\ UNCHANGED <<process, network, behind>>

\* A client connects; Shutdown closes the listener before anything else.
Accept(r) ==
    /\ lis = "listening" /\ shut = "wait"
    /\ Moves(r, "absent", "new") /\ UNCHANGED pool

ReadRequest(r) == Moves(r, "new", "serve") /\ UNCHANGED pool

\* No request header within ReadHeaderTimeout.
DropSilent(r) == Moves(r, "new", "done") /\ UNCHANGED pool

\* Refused by the decoder, JWTAuth or bcrypt: no connection is taken.
RefuseEarly(r) == r \notin Checks /\ Moves(r, "serve", "reply") /\ UNCHANGED pool

NeedsConn(r) == Moves(r, "serve", "acquire") /\ UNCHANGED pool

AcquireIdle(r) ==
    /\ ~PoolClosed /\ idle > 0
    /\ Moves(r, "acquire", "conn")
    /\ idle' = idle - 1 /\ UNCHANGED orphans

AcquireDial(r) ==
    /\ ~PoolClosed /\ idle = 0 /\ Used < MaxConns
    /\ Moves(r, "acquire", "dial") /\ UNCHANGED pool

AcquireClosed(r) == PoolClosed /\ Moves(r, "acquire", "reply") /\ UNCHANGED pool

Dialled(r) == ~PoolClosed /\ db = "up" /\ Moves(r, "dial", "conn") /\ UNCHANGED pool

\* Refused, ConnectTimeout, or the pool is closed.
DialFails(r) ==
    (PoolClosed \/ db = "down") /\ Moves(r, "dial", "reply") /\ UNCHANGED pool

\* A statement of r meets a row that q has written.  A chain of waits ends:
\* PostgreSQL fails one of a cycle (EntryStore).
WaitsForRow(r, q) ==
    /\ Running
    /\ r # q /\ {r, q} \subseteq Writes
    /\ rq[r] = "conn" /\ rq[q] = "conn"
    /\ behind[r] = None /\ behind[q] = None
    /\ behind' = [behind EXCEPT ![r] = q]
    /\ UNCHANGED <<process, network, rq, pool>>

\* The transaction r waits for has ended.
GetsRow(r) ==
    /\ Running /\ rq[r] = "conn"
    /\ behind[r] # None /\ rq[behind[r]] # "conn"
    /\ behind' = [behind EXCEPT ![r] = None]
    /\ UNCHANGED <<process, network, rq, pool>>

\* The connection goes back to the pool; a closed pool closes it.
GivesBack(r) ==
    /\ Moves(r, "conn", "reply")
    /\ idle' = IF PoolClosed THEN 0 ELSE idle + 1
    /\ UNCHANGED orphans

\* Mutant: the transaction is read back through the pool, not through tx.
Finishes_SecondConn(r) ==
    /\ db = "up" /\ behind[r] = None
    /\ r \in Writes => idle > 0 \/ Used < MaxConns
    /\ GivesBack(r)

\* The last statement of the request is answered.
Finishes(r) == db = "up" /\ behind[r] = None /\ GivesBack(r)

\* The handler gives up: its client has left, the connection is lost, or the
\* ping has taken 2 s.  A used connection is closed; one being opened is left.
GivesUp(r) ==
    /\ Running /\ rq[r] \in {"acquire", "dial", "conn"}
    /\ rq' = [rq EXCEPT ![r] = "reply"]
    /\ behind' = [behind EXCEPT ![r] = None]
    /\ orphans' = IF rq[r] = "dial" THEN orphans + 1 ELSE orphans
    /\ UNCHANGED <<process, network, idle>>

\* Mutant: the ping waits as long as the request.
PingTimeout_Never(r) == FALSE

PingTimeout(r) ==
    /\ r \in Checks
    /\ \/ rq[r] = "acquire" /\ idle = 0 /\ Used >= MaxConns
       \/ rq[r] \in {"dial", "conn"} /\ db = "down"
    /\ GivesUp(r)

Replies(r) == Moves(r, "reply", "done") /\ UNCHANGED pool

\* A connection nobody waits for is kept if it opens.
OrphanEnds ==
    /\ Running /\ orphans > 0
    /\ orphans' = orphans - 1
    /\ idle' = IF PoolClosed \/ db = "down" THEN idle ELSE idle + 1
    /\ UNCHANGED <<process, network, rq, behind>>

-----------------------------------------------------------------------------
(* The database. *)

DbFails ==
    /\ db = "up" /\ outages < MaxOutages
    /\ db' = "down" /\ outages' = outages + 1
    /\ UNCHANGED <<process, rq, behind, pool>>

DbRecovers ==
    /\ db = "down" /\ db' = "up"
    /\ UNCHANGED <<outages, process, rq, behind, pool>>

-----------------------------------------------------------------------------

MainStep == Connects \/ ConnectFails \/ Starts \/ Receive \/ Joins \/ Exits
ShutStep == ShutterStarts \/ ShutdownBegins \/ ShutdownReturns \/ GraceOver
ListenStep == Listens \/ ListenEnds

\* What the handler of r and the timers above it do by themselves.
ReqStep(r) ==
    \/ ReadRequest(r) \/ DropSilent(r) \/ NeedsConn(r)
    \/ AcquireIdle(r) \/ AcquireDial(r) \/ AcquireClosed(r)
    \/ Dialled(r) \/ DialFails(r) \/ GetsRow(r) \/ Finishes(r)
    \/ PingTimeout(r) \/ Replies(r)

Next ==
    \/ MainStep \/ ConfigFails \/ Notify \/ Signal
    \/ ShutStep \/ ListenStep \/ ListenFails
    \/ \E r \in Reqs : ReqStep(r) \/ Accept(r) \/ RefuseEarly(r) \/ GivesUp(r)
    \/ \E r, q \in Reqs : WaitsForRow(r, q)
    \/ OrphanEnds \/ DbFails \/ DbRecovers

Spec == Init /\ [][Next]_vars

\* Goroutines are scheduled and timers fire; the database owes nothing.
ProcessFairness ==
    /\ WF_vars(MainStep) /\ WF_vars(Notify) /\ WF_vars(ShutStep)
    /\ WF_vars(ListenStep) /\ WF_vars(OrphanEnds)
    /\ \A r \in Reqs : WF_vars(ReqStep(r))
FairSpec == Spec /\ ProcessFairness

=============================================================================
