---------------------------- MODULE ServerProofs ----------------------------
(***************************************************************************)
(* Theorems about Server, for every set of requests and every pool size.   *)
(***************************************************************************)
EXTENDS ServerSafety, TLAPS

\* A step of a request moves it on from where it is in progress.
LEMMA ReqStepBusy ==
    ASSUME TypeOK, NEW r \in Reqs,
           ReqStep(r) \/ RefuseEarly(r) \/ GivesUp(r)
    PROVE  /\ Busy(r)
           /\ rq' \in [Reqs -> {"absent", "new", "serve", "acquire", "dial", "conn",
                                "reply", "done"}]
           /\ behind' \in [Reqs -> Reqs \cup {None}]
           /\ idle' \in Nat /\ orphans' \in Nat
           /\ UNCHANGED <<process, network>>
<1> USE DEF TypeOK
<1>1. CASE \E from, to \in {"new", "serve", "acquire", "dial", "conn", "reply", "done"} :
            from # "done" /\ Moves(r, from, to) /\ UNCHANGED pool
  BY <1>1 DEF Moves, Busy, pool
<1>2. CASE AcquireIdle(r)
  BY <1>2 DEF AcquireIdle, Moves, Busy
<1>3. CASE Finishes(r)
  BY <1>3 DEF Finishes, GivesBack, Moves, Busy
<1>4. CASE GivesUp(r)
  BY <1>4 DEF GivesUp, Busy
<1>5. CASE GetsRow(r)
  BY <1>5 DEF GetsRow, Busy, pool
<1>6. PingTimeout(r) => GivesUp(r)
  BY DEF PingTimeout
<1> QED BY <1>1, <1>2, <1>3, <1>4, <1>5, <1>6 DEF ReqStep, ReadRequest, DropSilent, NeedsConn,
          AcquireDial, AcquireClosed, Dialled, DialFails, Replies, RefuseEarly

\* The invariant is preserved by every step.
LEMMA GraceStep ==
    ASSUME GraceInv, [Next]_vars
    PROVE  GraceInv'
<1> USE DEF GraceInv, TypeOK, process, network, pool
<1>1. CASE UNCHANGED vars
  BY <1>1 DEF vars, Quiet, Busy
<1>2. CASE MainStep \/ ConfigFails
  <2>1. CASE Connects \/ ConnectFails \/ Starts \/ ConfigFails
    BY <2>1 DEF Connects, ConnectFails, Starts, ConfigFails, Quiet, Busy
  <2>2. CASE Receive
    BY <2>2 DEF Receive, Quiet, Busy
  <2>3. CASE Joins
    BY <2>3 DEF Joins, Quiet, Busy
  <2>4. CASE Exits
    BY <2>4 DEF Exits, Quiet, Busy
  <2> QED BY <1>2, <2>1, <2>2, <2>3, <2>4 DEF MainStep
<1>3. CASE Notify \/ Signal \/ ListenStep \/ ListenFails
  BY <1>3 DEF Notify, Signal, ListenStep, Listens, ListenEnds, ListenFails, Running, Quiet, Busy
<1>4. CASE ShutStep
  <2>1. CASE ShutterStarts \/ ShutdownBegins
    BY <2>1 DEF ShutterStarts, ShutdownBegins, Running, Quiet, Busy
  <2>2. CASE ShutdownReturns
    BY <2>2 DEF ShutdownReturns, Running, Quiet, Busy
  <2>3. CASE GraceOver
    BY <2>3 DEF GraceOver, Running, Quiet, Busy
  <2> QED BY <1>4, <2>1, <2>2, <2>3 DEF ShutStep
<1>5. ASSUME NEW r \in Reqs, ReqStep(r) \/ RefuseEarly(r) \/ GivesUp(r)
      PROVE  GraceInv'
  <2>1. /\ Busy(r)
        /\ TypeOK'
        /\ UNCHANGED <<main, shut, late>>
    BY <1>5, ReqStepBusy
  <2>2. ~Quiet
    BY <2>1 DEF Quiet
  <2> QED BY <2>1, <2>2
<1>6. ASSUME NEW r \in Reqs, Accept(r)
      PROVE  GraceInv'
  BY <1>6 DEF Accept, Moves
<1>7. ASSUME NEW r \in Reqs, NEW q \in Reqs, WaitsForRow(r, q)
      PROVE  GraceInv'
  BY <1>7 DEF WaitsForRow, Quiet, Busy
<1>8. CASE OrphanEnds
  BY <1>8 DEF OrphanEnds, Quiet, Busy
<1>9. CASE DbFails \/ DbRecovers
  BY <1>9, PoolAssumption DEF DbFails, DbRecovers, Quiet, Busy
<1> QED BY <1>1, <1>2, <1>3, <1>4, <1>5, <1>6, <1>7, <1>8, <1>9 DEF Next

\* The invariant holds in every state of every behaviour.
THEOREM GraceInvariant == Spec => []GraceInv
<1>1. ASSUME Init
      PROVE  GraceInv
  <2>1. /\ rq \in [Reqs -> {"absent", "new", "serve", "acquire", "dial", "conn",
                           "reply", "done"}]
        /\ behind \in [Reqs -> Reqs \cup {None}]
    BY <1>1 DEF Init
  <2>2. outages \in 0..MaxOutages /\ idle \in Nat /\ orphans \in Nat
    BY <1>1, PoolAssumption DEF Init
  <2>3. TypeOK
    BY <1>1, <2>1, <2>2 DEF Init, TypeOK
  <2> QED BY <1>1, <2>3 DEF Init, GraceInv
<1> QED BY <1>1, GraceStep, PTL DEF Spec

\* main does not close the pool nor return while a request is in progress,
\* except after the 30 s that Shutdown waits.
THEOREM StopsGracefully == Spec => []GracefulStop
<1>1. GraceInv => GracefulStop
  BY DEF GraceInv, GracefulStop
<1> QED BY <1>1, GraceInvariant, PTL

=============================================================================
