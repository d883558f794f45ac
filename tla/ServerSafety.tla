---------------------------- MODULE ServerSafety ----------------------------
(***************************************************************************)
(* What must hold of Server.                                               *)
(***************************************************************************)
EXTENDS Server

\* Every variable holds values of its kind.
TypeOK ==
    /\ main \in {"connect", "auth", "serving", "stopping", "closing", "exit",
                 "fatal", "killed"}
    /\ sig \in {"off", "armed", "sending", "sent"}
    /\ lis \in {"off", "new", "listening", "sending", "sent"}
    /\ shut \in {"off", "wait", "shutdown", "done"}
    /\ late \in BOOLEAN
    /\ db \in {"up", "down"} /\ outages \in 0..MaxOutages
    /\ rq \in [Reqs -> {"absent", "new", "serve", "acquire", "dial", "conn",
                        "reply", "done"}]
    /\ behind \in [Reqs -> Reqs \cup {None}]
    /\ idle \in Nat /\ orphans \in Nat

\* Once main closes the pool or returns, no request is left in progress,
\* unless Shutdown has given up after 30 s: no request meets a closed pool
\* or is cut by the exit.
GracefulStop == main \in {"closing", "exit"} => late \/ Quiet

\* The inductive invariant for GracefulStop.
GraceInv ==
    /\ TypeOK
    /\ main \in {"closing", "exit"} => shut = "done"
    /\ shut = "done" => late \/ Quiet

\* A SIGTERM or SIGINT stops the service gracefully (main.go:114-115): it never
\* kills a process that has a request in progress.
SignalIsGraceful == main = "killed" => Quiet

-----------------------------------------------------------------------------

\* The start succeeds or fails, even while the database does not answer.
StartDecides == main = "connect" ~> main # "connect"

\* A health check is answered even if every connection is taken and the
\* database never answers again.
CheckAnswered == \A r \in Checks : rq[r] = "acquire" ~> rq[r] = "done" \/ ~Running

\* What the next two ask of the database: an outage does not last for ever.
OutagesEnd == WF_vars(DbRecovers)

\* When outages end, so does every request: no handler waits for a connection
\* while holding one (entries.go: the answer is read through the transaction).
EveryRequestEnds ==
    OutagesEnd => \A r \in Reqs : Busy(r) ~> ~Busy(r) \/ ~Running

\* When outages end, the process ends after a signal or a listener error
\* (main.go: errc, cancel and wg).
StopEnds == OutagesEnd => (sig = "sending" \/ lis = "sending") ~> ~Running

=============================================================================
