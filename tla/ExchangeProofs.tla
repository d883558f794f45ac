--------------------------- MODULE ExchangeProofs ---------------------------
(***************************************************************************)
(* Theorems about Exchange, for every set of exchanges and everything that *)
(* may be asked in them.  IInv is inductive: a step of one exchange leaves *)
(* every other alone, and brings its own to what the next stage has.       *)
(***************************************************************************)
EXTENDS WireProofs

Same(d) ==
    /\ ask'[d] = ask[d] /\ pc'[d] = pc[d] /\ request'[d] = request[d]
    /\ method'[d] = method[d] /\ payload'[d] = payload[d] /\ scope'[d] = scope[d]
    /\ acting'[d] = acting[d] /\ ran'[d] = ran[d] /\ response'[d] = response[d]
    /\ lines'[d] = lines[d] /\ told'[d] = told[d]

CallOK(d) == Stage(d) /\ Line(d) /\ Informed(d)

Step(c) == Command(c) \/ OtherClient(c) \/ Hear(c) \/ HearNothing(c) \/ Begin(c) \/ Serve(c)

\* A step of one exchange changes nothing of another: no scope, no answer and no
\* line of the log is shared.
LEMMA OnlyItself ==
    ASSUME Typed, NEW c \in Calls, Step(c)
    PROVE  Typed' /\ \A d \in Calls \ {c} : Same(d)
<1> USE DEF Typed, Same, Goes, Sets, Write
<1>1. CASE Command(c)
  BY <1>1 DEF Command
<1>2. CASE OtherClient(c)
  BY <1>2 DEF OtherClient
<1>3. CASE Hear(c) \/ HearNothing(c)
  BY <1>3 DEF Hear, HearNothing
<1>4. CASE Begin(c)
  BY <1>4 DEF Begin
<1>5. CASE Route(c) \/ NoRoute(c)
  BY <1>5 DEF Route, NoRoute
<1>6. CASE Decode(c) \/ DecodeFails(c)
  BY <1>6 DEF Decode, DecodeFails
<1>7. CASE JWTAuth(c) \/ RejectToken(c)
  BY <1>7 DEF JWTAuth, RejectToken
<1>8. CASE Run(c) \/ Encode(c)
  BY <1>8 DEF Run, Encode
<1>9. CASE Log(c) \/ LogPanic(c)
  BY <1>9 DEF Log, LogPanic, LogLine
<1> QED BY <1>1, <1>2, <1>3, <1>4, <1>5, <1>6, <1>7, <1>8, <1>9 DEF Step, Serve

\* An exchange that is left alone stays as it should be.
LEMMA LeftAlone ==
    ASSUME NEW d \in Calls, CallOK(d), Same(d)
    PROVE  CallOK(d)'
<1> USE DEF CallOK, Same
<1>1. Asked(d)' <=> Asked(d)
  BY DEF Asked
<1>2. (Clean(d)' <=> Clean(d)) /\ (Unrun(d)' <=> Unrun(d))
  BY DEF Clean, Unrun
<1>3. OnRoute(d)' <=> OnRoute(d)
  BY <1>1 DEF OnRoute
<1>4. Taken(d)' <=> Taken(d)
  BY <1>3 DEF Taken
<1>5. Admitted(d)' <=> Admitted(d)
  BY <1>4 DEF Admitted
<1>6. Finished(d)' <=> Finished(d)
  BY <1>5 DEF Finished
<1>7. Unrouted(d)' <=> Unrouted(d)
  BY <1>1, <1>2 DEF Unrouted
<1>8. Refused(d)' <=> Refused(d)
  BY <1>2, <1>3 DEF Refused
<1>9. Unauthorized(d)' <=> Unauthorized(d)
  BY <1>4 DEF Unauthorized
<1>10. (Answered(d)' <=> Answered(d)) /\ (Panicked(d)' <=> Panicked(d))
  BY <1>6 DEF Answered, Panicked
<1>11. Stage(d)'
  BY <1>1, <1>2, <1>3, <1>4, <1>5, <1>6, <1>7, <1>8, <1>9, <1>10 DEF Stage, Written
<1>12. Line(d)'
  BY DEF Line
<1>13. Informed(d)'
  BY DEF Informed, Heard
<1> QED BY <1>11, <1>12, <1>13

-----------------------------------------------------------------------------
(* The exchange that moves. *)

\* A request that leaves has been asked for, and nothing else is known of it.
LEMMA NothingYet ==
    ASSUME Typed, NEW c \in Calls, CallOK(c), Command(c) \/ OtherClient(c)
    PROVE  CallOK(c)'
<1> USE DEF Typed, Goes, Sets, CallOK
<1>1. /\ pc[c] = "idle" /\ Clean(c) /\ Unrun(c) /\ told[c] = Nil /\ lines[c] = <<>>
      /\ pc'[c] \in {"sent", "unsent"}
  BY NilAssumption
     DEF Command, OtherClient, Stage, Line, Informed, Heard, Unrun
<1>2. Clean(c)' /\ Unrun(c)' /\ Line(c)'
  BY <1>1 DEF Command, OtherClient, Clean, Unrun, Line
<1>3. CASE Command(c)
  <2>1. PICK a \in Asks[c] :
          /\ a.by = "cli" /\ pc'[c] = (IF Sent(a) THEN "sent" ELSE "unsent")
          /\ ask'[c] = a /\ request'[c] = (IF Sent(a) THEN RequestOf(a) ELSE Nil)
          /\ told'[c] = (IF Sent(a) THEN Nil ELSE [is |-> "usage"])
    BY <1>3 DEF Command
  <2>2. Stage(c)' /\ Informed(c)'
    BY <2>1, <1>2, AsksAssumption DEF Stage, Asked, Informed
  <2> QED BY <2>2, <1>2
<1>4. CASE OtherClient(c)
  <2>1. PICK a \in Asks[c] :
          /\ a.by = "other" /\ pc'[c] = "sent"
          /\ ask'[c] = a /\ request'[c] = RequestOf(a) /\ told'[c] = told[c]
    BY <1>4 DEF OtherClient
  <2>2. Sent(a)
    BY <2>1 DEF Sent
  <2>3. Stage(c)' /\ Informed(c)'
    BY <2>1, <2>2, <1>1, <1>2 DEF Stage, Asked, Informed
  <2> QED BY <2>3, <1>2
<1> QED BY <1>3, <1>4

\* An answer, or none, changes only what the client has been told, and the one of
\* a payload that was cut short does not reach a client that has left.
LEMMA ClientHears ==
    ASSUME Typed, NEW c \in Calls, CallOK(c), Hear(c) \/ HearNothing(c)
    PROVE  CallOK(c)'
<1> USE DEF Typed, Sets, CallOK, Hear, HearNothing, Waiting
<1> DEFINE Kept == /\ ask'[c] = ask[c] /\ pc'[c] = pc[c] /\ request'[c] = request[c]
                   /\ method'[c] = method[c] /\ payload'[c] = payload[c]
                   /\ scope'[c] = scope[c] /\ acting'[c] = acting[c] /\ ran'[c] = ran[c]
                   /\ response'[c] = response[c] /\ lines'[c] = lines[c]
<1>1. Kept /\ told[c] = Nil /\ request[c] # Nil
  OBVIOUS
<1>2. (Asked(c)' <=> Asked(c)) /\ (Clean(c)' <=> Clean(c)) /\ (Unrun(c)' <=> Unrun(c))
  BY <1>1 DEF Asked, Clean, Unrun
<1>3. OnRoute(c)' <=> OnRoute(c)
  BY <1>1, <1>2 DEF OnRoute
<1>4. Taken(c)' <=> Taken(c)
  BY <1>1, <1>3 DEF Taken
<1>5. Admitted(c)' <=> Admitted(c)
  BY <1>1, <1>4 DEF Admitted
<1>6. Finished(c)' <=> Finished(c)
  BY <1>1, <1>5 DEF Finished
<1>7. Refused(c) => Refused(c)'
  BY <1>1, <1>2, <1>3, NilAssumption DEF Refused, Lost
<1>8. Written(c) => Written(c)'
  BY <1>1, <1>2, <1>4, <1>6, <1>7 DEF Written, Unrouted, Unauthorized, Answered
<1>9. Panicked(c) => Panicked(c)'
  BY <1>1, <1>6 DEF Panicked
<1>10. Stage(c)'
  BY <1>1, <1>2, <1>3, <1>4, <1>5, <1>6, <1>8, <1>9 DEF Stage
<1>11. Line(c)'
  BY <1>1 DEF Line
<1>12. Informed(c)'
  BY <1>1 DEF Informed, Heard, Lost
<1> QED BY <1>10, <1>11, <1>12

\* Of the variables that the server does not set at this step.
Keeps(c) ==
    /\ ask'[c] = ask[c] /\ request'[c] = request[c] /\ told'[c] = told[c]
    /\ pc[c] \notin {"idle", "unsent", "logged"} /\ pc'[c] # "unsent"

\* Who waits for an answer has been told nothing but that none came.
LEMMA InformedYet ==
    ASSUME NEW c \in Calls, CallOK(c), Keeps(c),
           response[c] = Nil \/ response'[c] = response[c]
    PROVE  Informed(c)'
BY DEF CallOK, Keeps, Informed, Heard

\* The server knows of a request what was sent, and its handler is the one mounted there.
LEMMA ServerStarts ==
    ASSUME Typed, NEW c \in Calls, CallOK(c), Begin(c) \/ Route(c) \/ NoRoute(c)
    PROVE  CallOK(c)'
<1> USE DEF Typed, Goes, Sets, CallOK
<1>1. /\ Keeps(c) /\ pc[c] \in {"sent", "begun"} /\ Asked(c) /\ Clean(c) /\ Unrun(c)
      /\ lines'[c] = <<>>
  BY DEF Begin, Route, NoRoute, Write, Stage, Line, Keeps
<1>2. Informed(c)'
  BY <1>1, InformedYet DEF Unrun
<1>3. Asked(c)' /\ Clean(c)'
  BY <1>1 DEF Begin, Route, NoRoute, Write, Asked, Clean, Keeps
<1>4. CASE Begin(c)
  BY <1>1, <1>2, <1>3, <1>4 DEF Begin, Stage, Line, Unrun
<1>5. CASE Route(c)
  <2>1. Unrun(c)' /\ OnRoute(c)' /\ pc'[c] = "routed"
    BY <1>1, <1>3, <1>5 DEF Route, OnRoute, Unrun
  <2> QED BY <1>1, <1>2, <1>3, <2>1 DEF Stage, Line
<1>6. CASE NoRoute(c)
  <2>1. Unrouted(c)' /\ pc'[c] = "written"
    BY <1>1, <1>3, <1>6 DEF NoRoute, Write, Unrouted, Unrun
  <2> QED BY <1>1, <1>2, <1>3, <2>1 DEF Stage, Line, Written
<1> QED BY <1>4, <1>5, <1>6

\* The decoder's payload goes on, its error comes back; a body that is cut short
\* is the body of a client that has left.
LEMMA ServerDecodes ==
    ASSUME Typed, NEW c \in Calls, CallOK(c), Decode(c) \/ DecodeFails(c)
    PROVE  CallOK(c)'
<1> USE DEF Typed, Goes, Sets, CallOK
<1>1. /\ Keeps(c) /\ pc[c] = "routed" /\ OnRoute(c) /\ Clean(c) /\ Unrun(c)
      /\ lines'[c] = <<>> /\ method'[c] = method[c] /\ scope'[c] = Nil /\ ran'[c] = Nil
  BY DEF Decode, DecodeFails, Write, Stage, Line, Keeps, Clean, Unrun
<1>2. OnRoute(c)'
  BY <1>1 DEF OnRoute, Asked, Keeps
<1>3. CASE Decode(c)
  <2>1. Taken(c)' /\ Unrun(c)'
    BY <1>1, <1>2, <1>3 DEF Decode, Taken, Unrun, Keeps
  <2>2. Informed(c)'
    BY <1>1, <1>3, InformedYet DEF Decode
  <2>3. pc'[c] = (IF Secured(method'[c]) THEN "decoded" ELSE "entered")
    BY <1>1, <1>3 DEF Decode
  <2>4. Line(c)'
    BY <2>3, <1>1 DEF Line
  <2>5. Stage(c)'
    BY <2>1, <2>3, <1>1 DEF Stage, Admitted
  <2> QED BY <2>2, <2>4, <2>5
<1>4. CASE DecodeFails(c)
  <2>1. pc'[c] = "written" /\ payload'[c] = Nil
    BY <1>1, <1>4 DEF DecodeFails, Write, Clean
  <2>2. told[c] \in {Nil, Lost}
    BY <1>1 DEF Informed, Unrun
  <2>3. \/ /\ ~Decodes(method[c], request[c]).ok
           /\ response'[c] =
                Fails(method[c], ServiceError(Decodes(method[c], request[c]).error))
        \/ /\ told[c] # Nil
           /\ response'[c] = Fails(method[c], ServiceError("decode_payload"))
    BY <1>4 DEF DecodeFails, Write
  <2>4. method[c] \in AllMethods
    BY <1>1, MountsAre DEF OnRoute, Routes
  <2>5. Refused(c)'
    BY <1>1, <1>2, <2>1, <2>2, <2>3, <2>4, DecoderErrors, NilAssumption
       DEF Refused, Clean, Keeps, Errors3
  <2>6. Informed(c)'
    BY <1>1, InformedYet, <2>2 DEF Informed, Keeps
  <2>7. Stage(c)' /\ Line(c)'
    BY <2>1, <2>5, <1>1 DEF Stage, Written, Line
  <2> QED BY <2>6, <2>7
<1> QED BY <1>3, <1>4

\* The user of the token that came with this request, in the context and in the
\* scope of the log, or no method.
LEMMA ServerAuthorizes ==
    ASSUME Typed, NEW c \in Calls, CallOK(c), JWTAuth(c) \/ RejectToken(c)
    PROVE  CallOK(c)'
<1> USE DEF Typed, Goes, Sets, CallOK
<1>1. /\ Keeps(c) /\ pc[c] = "decoded" /\ Taken(c) /\ Secured(method[c]) /\ Unrun(c)
      /\ scope[c] = Nil /\ lines'[c] = <<>> /\ method'[c] = method[c]
      /\ payload'[c] = payload[c] /\ ran'[c] = Nil
  BY DEF JWTAuth, RejectToken, Write, Stage, Line, Keeps, Unrun
<1>2. Taken(c)'
  BY <1>1 DEF Taken, OnRoute, Asked, Keeps
<1>3. CASE JWTAuth(c)
  <2>1. pc'[c] = "entered" /\ response'[c] = response[c]
    BY <1>3 DEF JWTAuth
  <2>2. Admitted(c)' /\ Unrun(c)'
    BY <1>1, <1>2, <1>3, <2>1 DEF JWTAuth, Admitted, Unrun
  <2>3. Informed(c)'
    BY <1>1, <2>1, InformedYet
  <2> QED BY <1>1, <2>1, <2>2, <2>3 DEF Stage, Line
<1>4. CASE RejectToken(c)
  <2>1. pc'[c] = "written" /\ Unauthorized(c)'
    BY <1>1, <1>2, <1>4 DEF RejectToken, Write, Unauthorized
  <2>2. Informed(c)'
    BY <1>1, InformedYet DEF Unrun
  <2> QED BY <1>1, <2>1, <2>2 DEF Stage, Line, Written
<1> QED BY <1>3, <1>4

\* The method's outcome becomes the answer, which is written once.
LEMMA ServerAnswers ==
    ASSUME Typed, NEW c \in Calls, CallOK(c), Run(c) \/ Encode(c)
    PROVE  CallOK(c)'
<1> USE DEF Typed, Goes, Sets, CallOK
<1>1. /\ Keeps(c) /\ pc[c] \in {"entered", "ran"} /\ Admitted(c) /\ response[c] = Nil
      /\ lines'[c] = <<>> /\ method'[c] = method[c] /\ payload'[c] = payload[c]
      /\ scope'[c] = scope[c] /\ acting'[c] = acting[c]
  BY DEF Run, Encode, Write, Stage, Line, Keeps, Finished, Unrun
<1>2. Admitted(c)'
  BY <1>1 DEF Admitted, Taken, OnRoute, Asked, Keeps
<1>3. Informed(c)'
  BY <1>1, InformedYet
<1>4. CASE Run(c)
  <2>1. pc'[c] = "ran" /\ Finished(c)' /\ response'[c] = Nil
    BY <1>1, <1>2, <1>4 DEF Run, Finished
  <2> QED BY <1>1, <1>3, <2>1 DEF Stage, Line
<1>5. CASE Encode(c)
  <2>1. pc'[c] = "written" /\ Answered(c)'
    BY <1>1, <1>2, <1>5 DEF Encode, Write, Answered, Finished, Stage
  <2> QED BY <1>1, <1>3, <2>1 DEF Stage, Line, Written
<1> QED BY <1>4, <1>5

\* The first line is the only one.
LEMMA OneMore == \A x : Append(<<>>, x) = <<x>>
OBVIOUS

\* The line is written once, when the answer is, or the panic has passed.
LEMMA ServerLogs ==
    ASSUME Typed, NEW c \in Calls, CallOK(c), Log(c) \/ LogPanic(c)
    PROVE  CallOK(c)'
<1> USE DEF Typed, Goes, Sets, CallOK
<1>1. /\ Keeps(c) /\ pc'[c] = "logged" /\ lines[c] = <<>>
      /\ method'[c] = method[c] /\ payload'[c] = payload[c] /\ scope'[c] = scope[c]
      /\ acting'[c] = acting[c] /\ ran'[c] = ran[c] /\ response'[c] = response[c]
  BY DEF Log, LogPanic, Line, Keeps
<1>2. Informed(c)'
  BY <1>1, InformedYet
<1>3. OnRoute(c)' <=> OnRoute(c)
  BY <1>1 DEF OnRoute, Asked, Keeps
<1>4. Admitted(c)' <=> Admitted(c)
  BY <1>1, <1>3 DEF Admitted, Taken, Keeps
<1>5. Taken(c)' <=> Taken(c)
  BY <1>1, <1>3 DEF Taken, Keeps
<1>6. CASE Log(c)
  <2>1. Written(c)
    BY <1>6 DEF Log, Stage
  <2>2. Written(c)'
    BY <2>1, <1>1, <1>3, <1>4, <1>5
       DEF Written, Unrouted, Refused, Unauthorized, Answered, Finished, Clean, Asked, Keeps
  <2>3. ran[c] # Panic
    BY <2>1, NilAssumption DEF Written, Unrouted, Refused, Unauthorized, Answered
  <2>4. /\ (ran'[c] = Panic) = FALSE
        /\ lines'[c] = << [status |-> response[c].status, user |-> scope[c], panic |-> FALSE] >>
    BY <1>1, <1>6, <2>3, OneMore DEF Log, LogLine
  <2>5. Line(c)'
    BY <1>1, <2>4 DEF Line
  <2> QED BY <1>1, <1>2, <2>2, <2>5 DEF Stage
<1>7. CASE LogPanic(c)
  <2>1. Panicked(c)'
    BY <1>1, <1>4, <1>7 DEF LogPanic, Panicked, Finished, Stage
  <2>2. lines'[c] = << [status |-> 500, user |-> scope[c], panic |-> TRUE] >>
    <3>1. LogLine(c, 500, TRUE)
      BY <1>7 DEF LogPanic
    <3>2. lines'[c] = Append(lines[c], [status |-> 500, user |-> scope[c], panic |-> TRUE])
      BY <3>1 DEF LogLine
    <3> QED BY <1>1, <3>2, OneMore
  <2>3. Line(c)'
    <3> HIDE DEF Typed, Goes, Sets, CallOK
    <3>1. ran'[c] = Panic
      BY <1>1, <1>7 DEF LogPanic
    <3>2. (ran'[c] = Panic) = TRUE
      BY <3>1
    <3>3. (IF ran'[c] = Panic THEN 500 ELSE response'[c].status) = 500
      BY <3>1
    <3>4. scope'[c] = scope[c] /\ pc'[c] = "logged"
      BY <1>1
    <3>5. Line(c)' <=> lines'[c] = << [status |-> IF ran'[c] = Panic THEN 500
                                                  ELSE response'[c].status,
                                       user |-> scope'[c], panic |-> ran'[c] = Panic] >>
      BY <3>4 DEF Line
    <3>6. [status |-> IF ran'[c] = Panic THEN 500 ELSE response'[c].status,
           user |-> scope'[c], panic |-> ran'[c] = Panic]
          = [status |-> 500, user |-> scope[c], panic |-> TRUE]
      BY <3>2, <3>3, <3>4
    <3> QED BY <2>2, <3>5, <3>6
  <2> QED BY <1>1, <1>2, <2>1, <2>3 DEF Stage
<1> QED BY <1>6, <1>7

-----------------------------------------------------------------------------

\* Nothing has been asked at the start.
LEMMA InitIInv == ASSUME Init PROVE IInv
<1> USE DEF Init, Everywhere
<1>1. Typed
  BY DEF Typed
<1>2. ASSUME NEW c \in Calls PROVE CallOK(c)
  BY <1>2 DEF CallOK, Stage, Clean, Unrun, Line, Informed
<1> QED BY <1>1, <1>2 DEF IInv, CallOK

\* Every step of the system keeps what the stages leave behind.
LEMMA NextIInv == ASSUME IInv, [Next]_vars PROVE IInv'
<1> USE DEF IInv
<1>1. CASE UNCHANGED vars
  <2>1. Typed' /\ \A d \in Calls : Same(d)
    BY <1>1 DEF vars, Typed, Same
  <2>2. \A d \in Calls : CallOK(d)'
    BY <2>1, LeftAlone DEF CallOK
  <2> QED BY <2>1, <2>2 DEF CallOK
<1>2. ASSUME NEW c \in Calls, Step(c) PROVE IInv'
  <2>1. Typed' /\ \A d \in Calls \ {c} : Same(d)
    BY <1>2, OnlyItself
  <2>2. \A d \in Calls \ {c} : CallOK(d)'
    BY <2>1, LeftAlone DEF CallOK
  <2>3. CallOK(c)
    BY DEF CallOK
  <2>4. CallOK(c)'
    BY <1>2, <2>3, NothingYet, ClientHears, ServerStarts, ServerDecodes, ServerAuthorizes,
       ServerAnswers, ServerLogs DEF Step, Serve
  <2> QED BY <2>1, <2>2, <2>4 DEF CallOK
<1> QED BY <1>1, <1>2 DEF Next, Step

\* Each stage of an exchange, and its line in the log, is what the request and the
\* stages before it make it, whatever other exchanges do meanwhile.
THEOREM Invariant == Spec => []IInv
<1>1. Init => IInv
  BY InitIInv
<1>2. IInv /\ [Next]_vars => IInv'
  BY NextIInv
<1> QED BY <1>1, <1>2, PTL DEF Spec

-----------------------------------------------------------------------------
(* What follows of it. *)

\* Every method that is routed to is one of the twelve.
LEMMA RoutedAreMethods ==
    ASSUME NEW c \in Calls, OnRoute(c)
    PROVE  method[c] \in AllMethods /\ Known(method[c])
BY MountsAre, AllAreKnown DEF OnRoute, Routes

\* nil is no request, no payload of a secured method, no outcome and no answer.
LEMMA AskedIsNotNil ==
    ASSUME NEW c \in Calls, Asked(c)
    PROVE  ask[c] # Nil /\ request[c] # Nil
BY PassedAssumption DEF Asked

\* What a secured method is given to work on is not nil,
LEMMA TakenIsNotNil ==
    ASSUME NEW c \in Calls, Taken(c), Secured(method[c])
    PROVE  payload[c] # Nil
BY PassedAssumption DEF Taken, OnRoute, Asked

\* nor is any outcome it may have, nor what is answered for it,
LEMMA OutcomeIsNotNil ==
    ASSUME NEW c \in Calls, Admitted(c), NEW out \in Outcomes(method[c], payload[c])
    PROVE  out # Nil /\ (out # Panic => Answer(method[c], out) # Nil)
<1>1. /\ ask[c] \in Asks[c] /\ Sent(ask[c]) /\ request[c] = RequestOf(ask[c])
      /\ Decodes(method[c], request[c]).ok
      /\ payload[c] = Decodes(method[c], request[c]).payload
  BY DEF Admitted, Taken, OnRoute, Asked
<1>2. PICK x \in Routes(request[c]) : method[c] = <<x[1], x[2][1]>>
  BY DEF Admitted, Taken, OnRoute
<1> DEFINE Outs(a, y) ==
        LET m == <<y[1], y[2][1]>>
            d == Decodes(m, RequestOf(a))
        IN d.ok => /\ Secured(m) => d.payload # Nil
                   /\ \A o \in Outcomes(m, d.payload) :
                        o # Nil /\ (o # Panic => Answer(m, o) # Nil)
<1>3. \A e \in Calls : \A a \in Asks[e] : Sent(a) => \A y \in Routes(RequestOf(a)) : Outs(a, y)
  BY PassedAssumption
<1>4. Outs(ask[c], x)
  <2> HIDE DEF Outs
  <2> QED BY <1>1, <1>2, <1>3
<1> QED BY <1>1, <1>2, <1>4

\* nor what it has done,
LEMMA FinishedIsNotNil ==
    ASSUME NEW c \in Calls, Finished(c)
    PROVE  ran[c] # Nil /\ (ran[c] # Panic => Answer(method[c], ran[c]) # Nil)
BY OutcomeIsNotNil DEF Finished

\* nor what is written.
LEMMA WrittenIsNotNil ==
    ASSUME NEW c \in Calls, Written(c)
    PROVE  response[c] # Nil
<1>1. CASE Unrouted(c)
  BY <1>1, NilAssumption DEF Unrouted
<1>2. CASE Refused(c)
  <2>1. PICK e \in Errors3 : response[c] = Fails(method[c], ServiceError(e))
    BY <1>2 DEF Refused, Errors3
  <2>2. response[c] = Response(400, ErrorBody(e))
    BY <1>2, <2>1, DecoderStatus, RoutedAreMethods DEF Refused
  <2> QED BY <2>2, NilAssumption DEF Errors3
<1>3. CASE Unauthorized(c)
  <2>1. response[c] = Response(StatusOf["unauthorized"], ErrorBody("unauthorized"))
    BY <1>3, DeclaredErrors, RoutedAreMethods DEF Unauthorized, Taken
  <2> QED BY <2>1, NilAssumption DEF StatusOf
<1>4. CASE Answered(c)
  BY <1>4, FinishedIsNotNil DEF Answered
<1> QED BY <1>1, <1>2, <1>3, <1>4 DEF Written

\* The type invariant.
THEOREM Typing == Spec => []TypeOK
<1>1. ASSUME IInv PROVE TypeOK
  <2>1. \A c \in Calls : ask[c] \in Asks[c] \cup {Nil} /\ (pc[c] = "idle") = (ask[c] = Nil)
    BY <1>1, PassedAssumption
       DEF IInv, Typed, Stage, Asked, Written, Unrouted, Refused, Unauthorized, Answered,
           Panicked, Finished, Admitted, Taken, OnRoute
  <2>2. \A c \in Calls : pc[c] \notin {"idle", "unsent"} => request[c] # Nil
    BY <1>1, AskedIsNotNil
       DEF IInv, Typed, Stage, Written, Unrouted, Refused, Unauthorized, Answered,
           Panicked, Finished, Admitted, Taken, OnRoute
  <2>3. \A c \in Calls : pc[c] \in {"routed", "decoded", "entered", "ran"} =>
            Known(method[c])
    BY <1>1, RoutedAreMethods DEF IInv, Stage, Finished, Admitted, Taken
  <2>4. \A c \in Calls : pc[c] \in {"decoded", "entered"} => response[c] = Nil /\ ran[c] = Nil
    BY <1>1 DEF IInv, Stage, Unrun
  <2>5. \A c \in Calls : pc[c] = "written" => response[c] # Nil
    BY <1>1, WrittenIsNotNil DEF IInv, Stage
  <2> QED BY <1>1, <2>1, <2>2, <2>3, <2>4, <2>5 DEF IInv, Typed, TypeOK
<1> QED BY <1>1, Invariant, PTL

\* The user in the scope of the log line is the user of the token that came with
\* this very request, when it was accepted, and nobody's otherwise.
LEMMA ScopeIsWhoAsked ==
    ASSUME NEW c \in Calls, Written(c) \/ Panicked(c)
    PROVE  scope[c] = WhoAsked(c)
<1>1. CASE Unrouted(c) \/ Refused(c)
  BY <1>1 DEF Unrouted, Refused, Clean, WhoAsked
<1>2. CASE Unauthorized(c)
  BY <1>2 DEF Unauthorized, WhoAsked
<1>3. CASE Admitted(c)
  BY <1>3, TakenIsNotNil DEF Admitted, WhoAsked
<1> QED BY <1>1, <1>2, <1>3 DEF Written, Answered, Panicked, Finished

\* Every request has its one line in the log, with its own status and user.
THEOREM OneLineEach == Spec => []OneLine
<1>1. ASSUME IInv PROVE OneLine
  <2> SUFFICES ASSUME NEW c \in Calls
               PROVE  IF pc[c] # "logged" THEN lines[c] = <<>>
                      ELSE lines[c] = << [status |-> IF ran[c] = Panic THEN 500
                                                     ELSE response[c].status,
                                          user   |-> WhoAsked(c),
                                          panic  |-> ran[c] = Panic] >>
    BY DEF OneLine
  <2>1. Line(c) /\ (pc[c] = "logged" => scope[c] = WhoAsked(c))
    BY <1>1, ScopeIsWhoAsked DEF IInv, Stage
  <2> QED BY <2>1 DEF Line
<1> QED BY <1>1, Invariant, PTL

-----------------------------------------------------------------------------
(* The status of an answer. *)

\* An answer was made by one of the four ways in which an exchange ends.
LEMMA AnswersAreWritten ==
    ASSUME NEW c \in Calls, Stage(c), Typed, response[c] # Nil
    PROVE  Written(c)
BY DEF Typed, Stage, Unrun, Panicked

\* What ran is one of these.
LEMMA OutcomeKinds ==
    ASSUME NEW c \in Calls, Finished(c), ran[c] # Panic
    PROVE  \/ \E v \in Results(method[c], payload[c]) : ran[c] = Result(v)
           \/ \E n \in Errors(method[c]) : ran[c] = ServiceError(n)
           \/ ran[c] = OtherError
BY DEF Finished, Outcomes

\* The status of every answer is the one the design gives to what happened.
THEOREM StatusIsDesigned == Spec => []StatusContract
<1>1. ASSUME IInv PROVE StatusContract
  <2> SUFFICES ASSUME NEW c \in Calls, response[c] # Nil
      PROVE
        IF ran[c] = Nil THEN
            \/ payload[c] = Nil /\ response[c].status \in {400, 404, 405}
            \/ payload[c] # Nil /\ response[c].status = 401
        ELSE CASE ran[c].is = "result" ->
                    /\ response[c].status = Success(method[c])
                    /\ method[c] = <<"entries", "create">> =>
                        response[c].location = ran[c].value.location
               [] ran[c].is = "error" ->
                    /\ response[c].status = StatusOf[ran[c].name]
                    /\ response[c].body["name"] = ran[c].name
               [] ran[c].is = "failure" ->
                    response[c].status = 500 /\ response[c].body["name"] = "fault"
    BY DEF StatusContract
  <2>1. Written(c)
    BY <1>1, AnswersAreWritten DEF IInv
  <2>2. \A n : ErrorBody(n)["name"] = n
    BY DEF ErrorBody, ErrorFields
  <2>3. CASE Unrouted(c)
    BY <2>3 DEF Unrouted, Clean, Response
  <2>4. CASE Refused(c)
    <3>1. PICK e \in Errors3 : response[c] = Fails(method[c], ServiceError(e))
      BY <2>4 DEF Refused, Errors3
    <3>2. response[c] = Response(400, ErrorBody(e))
      BY <2>4, <3>1, DecoderStatus, RoutedAreMethods DEF Refused
    <3> QED BY <2>4, <3>2 DEF Refused, Clean, Response
  <2>5. CASE Unauthorized(c)
    <3>1. response[c] = Response(StatusOf["unauthorized"], ErrorBody("unauthorized"))
      BY <2>5, DeclaredErrors, RoutedAreMethods DEF Unauthorized, Taken
    <3>2. payload[c] # Nil /\ ran[c] = Nil
      BY <2>5, TakenIsNotNil DEF Unauthorized
    <3> QED BY <3>1, <3>2 DEF StatusOf, Response
  <2>6. CASE Answered(c)
    <3>1. /\ ran[c] # Nil /\ method[c] \in AllMethods
          /\ response[c] = Answer(method[c], ran[c])
      BY <2>6, FinishedIsNotNil, RoutedAreMethods DEF Answered, Finished, Admitted, Taken
    <3>2. CASE \E v \in Results(method[c], payload[c]) : ran[c] = Result(v)
      BY <3>1, <3>2, SuccessStatus DEF Result, Answer
    <3>3. CASE \E n \in Errors(method[c]) : ran[c] = ServiceError(n)
      <4>1. PICK n \in Errors(method[c]) : ran[c] = ServiceError(n)
        BY <3>3
      <4>2. response[c] = Response(StatusOf[n], ErrorBody(n))
        BY <3>1, <4>1, DeclaredErrors DEF Answer, ServiceError
      <4> QED BY <2>2, <3>1, <4>1, <4>2 DEF ServiceError, Response
    <3>4. CASE ran[c] = OtherError
      <4>1. response[c] = Response(500, ErrorBody("fault"))
        BY <3>1, <3>4, FaultStatus DEF Answer, OtherError
      <4> QED BY <2>2, <3>1, <3>4, <4>1 DEF OtherError, Response
    <3> QED BY <2>6, <3>2, <3>3, <3>4, OutcomeKinds DEF Answered
  <2> QED BY <2>1, <2>3, <2>4, <2>5, <2>6 DEF Written
<1> QED BY <1>1, Invariant, PTL

\* A method is entered only with a payload that the design allows, and a secured one
\* only as the user of the token that came with this very request.
THEOREM ServiceIsProtected == Spec => []ServiceSeesDesign
<1>1. ASSUME IInv PROVE ServiceSeesDesign
  <2> SUFFICES ASSUME NEW c \in Calls, pc[c] \in {"entered", "ran"}
               PROVE  /\ Design(method[c], payload[c])
                      /\ Secured(method[c]) =>
                            acting[c] = TokenOf[Credential(request[c].auth)]
    BY DEF ServiceSeesDesign
  <2>1. Admitted(c)
    BY <1>1 DEF IInv, Stage, Finished
  <2>2. /\ method[c] \in AllMethods /\ Decodes(method[c], request[c]).ok
        /\ payload[c] = Decodes(method[c], request[c]).payload
    BY <2>1, RoutedAreMethods DEF Admitted, Taken
  <2>3. Design(method[c], payload[c])
    BY <2>2, DecodedIsDesigned
  <2>4. Secured(method[c]) => payload[c].token = Credential(request[c].auth)
    BY <2>2, DecodedToken
  <2> QED BY <2>1, <2>3, <2>4 DEF Admitted
<1> QED BY <1>1, Invariant, PTL

-----------------------------------------------------------------------------
(* Commands. *)

\* What a command is routed to is its own method, with its own request.
LEMMA CommandOnRoute ==
    ASSUME NEW c \in Calls, ByCommand(c), Asked(c)
    PROVE  /\ ask[c].method \in AllMethods /\ Travels(ask[c].method, Given(ask[c].flags))
           /\ request[c] = Sends(ask[c].method,
                                 Builds(ask[c].method, Given(ask[c].flags)).payload)
           /\ Routes(request[c]) # {}
           /\ OnRoute(c) => method[c] = ask[c].method
<1>1. ask[c] \in Asks[c] /\ ask[c].by = "cli" /\ Sent(ask[c]) /\ request[c] = RequestOf(ask[c])
  BY DEF ByCommand, Asked
<1>2. /\ ask[c].method \in AllMethods /\ Travels(ask[c].method, Given(ask[c].flags))
      /\ request[c] = Sends(ask[c].method,
                            Builds(ask[c].method, Given(ask[c].flags)).payload)
  BY <1>1, CommandTravels
<1> QED BY <1>2, RoutedAsSent DEF OnRoute

\* A payload that is there was decoded from the request.
LEMMA PayloadIsTaken ==
    ASSUME NEW c \in Calls, Typed, Stage(c), payload[c] # Nil
    PROVE  Taken(c)
BY DEF Typed, Stage, Clean, Written, Unrouted, Refused, Unauthorized, Answered, Panicked,
       Finished, Admitted

\* What a flag means is one thing, said in two ways.
LEMMA MeantIs ==
    ASSUME NEW a, NEW p, NEW f, AsMeant(p, Given(a.flags), f)
    PROVE  SameField(f, p[f], Meant(a, f))
<1> DEFINE g == Given(a.flags)
           there == g.body.is = "object" /\ f \in DOMAIN g.body
<1> HIDE DEF g
<1>1. Meant(a, f) = CASE f = "token" -> Credential(g.token)
                      [] f # "token" /\ there -> g.body[f]
                      [] f # "token" /\ ~there -> g[f]
  BY DEF Meant, g
<1>2. Meant(a, f) = IF f = "token" THEN Credential(g.token)
                    ELSE IF there THEN g.body[f] ELSE g[f]
  BY <1>1
<1> QED BY <1>2 DEF AsMeant, g

\* What a method receives is what the flags of the command said, field by field.
THEOREM FlagsArrive == Spec => []AsAsked
<1>1. ASSUME IInv PROVE AsAsked
  <2> SUFFICES ASSUME NEW c \in Calls, ByCommand(c), payload[c] # Nil,
                      NEW f \in DOMAIN payload[c]
               PROVE  SameField(f, payload[c][f], Meant(ask[c], f))
    BY DEF AsAsked
  <2>1. Taken(c)
    BY <1>1, PayloadIsTaken DEF IInv
  <2> DEFINE g == Given(ask[c].flags)
             m == ask[c].method
  <2>2. /\ Travels(m, g) /\ method[c] = m /\ request[c] = Sends(m, Builds(m, g).payload)
    BY <2>1, CommandOnRoute DEF Taken, OnRoute
  <2> HIDE DEF g, m
  <2>3. AsMeant(payload[c], g, f)
    BY <2>1, <2>2 DEF Taken, Travels
  <2> QED BY <2>3, MeantIs DEF g
<1> QED BY <1>1, Invariant, PTL

\* The decoder refuses no command that the command line accepts, unless its body did
\* not arrive, its --limit was empty, or its body is over the server's 1 MiB, which only
\* a note and a login can be.
THEOREM ValidationsAgree == Spec => []CommandsAgree
<1>1. ASSUME IInv PROVE CommandsAgree
  <2> SUFFICES ASSUME NEW c \in Calls, ByCommand(c), response[c] # Nil, ran[c] = Nil,
                      told[c] # [is |-> "lost"]
               PROVE  \/ response[c].status = 401
                      \/ /\ ask[c].method = <<"entries", "list">>
                         /\ Given(ask[c].flags).limit = Nil
                      \/ ask[c].method \in Unbounded /\ request[c].body \in Oversized
    BY DEF CommandsAgree
  <2>1. Written(c)
    BY <1>1, AnswersAreWritten DEF IInv
  <2>2. CASE Unrouted(c)
    BY <2>2, CommandOnRoute DEF Unrouted
  <2>3. CASE Refused(c)
    <3> DEFINE g == Given(ask[c].flags)
               m == ask[c].method
    <3>1. /\ Travels(m, g) /\ method[c] = m /\ request[c] = Sends(m, Builds(m, g).payload)
      BY <2>3, CommandOnRoute DEF Refused, OnRoute
    <3>2. ~Decodes(method[c], request[c]).ok
      BY <2>3 DEF Refused, Lost
    <3> HIDE DEF g, m
    <3>3. \/ m = <<"entries", "list">> /\ g.limit = Nil
          \/ m \in Unbounded /\ request[c].body \in Oversized
      BY <3>1, <3>2 DEF Travels
    <3> QED BY <3>3 DEF g, m
  <2>4. CASE Unauthorized(c)
    <3>1. response[c] = Response(StatusOf["unauthorized"], ErrorBody("unauthorized"))
      BY <2>4, DeclaredErrors, RoutedAreMethods DEF Unauthorized, Taken
    <3> QED BY <3>1 DEF StatusOf, Response
  <2>5. CASE Answered(c)
    BY <2>5, FinishedIsNotNil DEF Answered
  <2> QED BY <2>1, <2>2, <2>3, <2>4, <2>5 DEF Written
<1> QED BY <1>1, Invariant, PTL

-----------------------------------------------------------------------------
(* The refinement of Rpc: what a client is told is what the method did. *)

\* What it means that a client that asked a is told t when the method has done v.
Sense(a, t, v) ==
    IF t = Nil THEN Nil
    ELSE IF a.by = "cli" THEN
        CASE t.is \in {"usage", "lost"} ->
                [is |-> IF t.is = "usage" THEN "refused" ELSE "lost"]
          [] t.is = "error" /\ v = Nil      -> [is |-> "refused"]
          [] t.is = "unexpected" /\ v = Nil -> [is |-> "refused"]
          [] t.is = "unexpected" /\ v # Nil /\ t.status = 500 -> [is |-> "failed"]
          [] OTHER -> t
    ELSE IF t.is = "lost" THEN t
    ELSE IF v = Nil THEN [is |-> "refused"]
    ELSE IF v.is = "failure" THEN [is |-> "failed"]
    ELSE v

\* What Rpc!Tell allows to tell of v.
MayTell(v, n) ==
    \/ v = Nil /\ n = [is |-> "refused"]
    \/ v # Nil /\ v.is \in {"result", "error"} /\ n = v
    \/ v # Nil /\ v.is = "failure" /\ n = [is |-> "failed"]

\* The answer to a refused command is no result of the method.
LEMMA RefusalMeans ==
    ASSUME NEW a, a.by = "cli", NEW t, t # Nil, t.is \in {"error", "unexpected"}
    PROVE  Sense(a, t, Nil) = [is |-> "refused"]
BY DEF Sense

\* Whatever the answer of the server makes a client believe is so.
LEMMA HeardIsTrue ==
    ASSUME NEW c \in Calls, Written(c), Heard(c) # Nil
    PROVE  MayTell(ran[c], Sense(ask[c], Heard(c), ran[c]))
<1>1. CASE ask[c].by # "cli"
  <2>1. Heard(c).is = "response"
    BY <1>1 DEF Heard
  <2>2. CASE ran[c] = Nil
    BY <1>1, <2>1, <2>2 DEF Sense, MayTell
  <2>3. CASE ran[c] # Nil
    <3>1. Answered(c)
      BY <2>3 DEF Written, Unrouted, Refused, Unauthorized
    <3>2. ran[c].is \in {"result", "error", "failure"}
      <4>1. \/ \E v \in Results(method[c], payload[c]) : ran[c] = Result(v)
            \/ \E n \in Errors(method[c]) : ran[c] = ServiceError(n)
            \/ ran[c] = OtherError
        BY <3>1, OutcomeKinds DEF Answered
      <4>2. CASE \E v \in Results(method[c], payload[c]) : ran[c] = Result(v)
        BY <4>2 DEF Result
      <4>3. CASE \E n \in Errors(method[c]) : ran[c] = ServiceError(n)
        BY <4>3 DEF ServiceError
      <4> QED BY <4>1, <4>2, <4>3 DEF OtherError
    <3> QED BY <1>1, <2>1, <2>3, <3>2 DEF Sense, MayTell
  <2> QED BY <2>2, <2>3
<1>2. CASE ask[c].by = "cli"
  <2> DEFINE m == ask[c].method
             t == Heard(c)
  <2>1. t = Hears(m, response[c])
    BY <1>2 DEF Heard
  <2>2. Asked(c) /\ ByCommand(c)
    BY <1>2, AskedIsNotNil
    DEF Written, Unrouted, Refused, Unauthorized, Answered, Finished, Admitted, Taken,
        OnRoute, ByCommand
  <2>3. m \in AllMethods /\ Routes(request[c]) # {} /\ (OnRoute(c) => method[c] = m)
    BY <2>2, CommandOnRoute
  <2> HIDE DEF t
  <2>4. CASE Refused(c)
    <3>1. PICK e \in Errors3 : response[c] = Fails(method[c], ServiceError(e))
      BY <2>4 DEF Refused, Errors3
    <3>2. response[c] = Response(400, ErrorBody(e)) /\ ran[c] = Nil
      BY <2>3, <2>4, <3>1, DecoderStatus DEF Refused
    <3>3. t.is \in {"error", "unexpected"}
      BY <2>1, <2>3, <3>2, HearsRefusal
    <3> QED BY <1>2, <3>2, <3>3, RefusalMeans DEF MayTell, t
  <2>5. CASE Unauthorized(c)
    <3>1. OnRoute(c) /\ Secured(method[c]) /\ ran[c] = Nil
      BY <2>5 DEF Unauthorized, Taken
    <3>2. response[c] = Response(StatusOf["unauthorized"], ErrorBody("unauthorized"))
      BY <2>3, <2>5, <3>1, DeclaredErrors DEF Unauthorized
    <3>3. StatusOf["unauthorized"] = 401
      BY DEF StatusOf
    <3>4. t.is \in {"error", "unexpected"}
      BY <2>1, <2>3, <3>2, <3>3, HearsRefusal
    <3> QED BY <1>2, <3>1, <3>4, RefusalMeans DEF MayTell, t
  <2>6. CASE Answered(c)
    <3>1. /\ Finished(c) /\ Taken(c) /\ OnRoute(c) /\ ran[c] # Nil /\ ran[c] # Panic
          /\ response[c] = Answer(m, ran[c]) /\ method[c] = m
      BY <2>3, <2>6, FinishedIsNotNil DEF Answered, Finished, Admitted, Taken
    <3>2. CASE \E v \in Results(method[c], payload[c]) : ran[c] = Result(v)
      <4>1. PICK v \in Results(m, payload[c]) : ran[c] = Result(v)
        BY <3>1, <3>2
      <4>2. response[c] = Answers(m, v)
        BY <3>1, <4>1 DEF Answer, Result
      <4>3. Fit(m, payload[c])
        <5>1. /\ Decodes(m, request[c]).ok /\ payload[c] = Decodes(m, request[c]).payload
          BY <3>1 DEF Taken
        <5>2. /\ Travels(m, Given(ask[c].flags))
              /\ request[c] = Sends(m, Builds(m, Given(ask[c].flags)).payload)
          BY <2>2, CommandOnRoute
        <5>3. m = <<"tags", "update">> => Decodes(m, request[c]).payload.id # Nil
          BY <5>2 DEF Travels
        <5> HIDE DEF m
        <5> QED BY <2>3, <5>1, <5>3, DecodedFits
      <4>4. t = ran[c] /\ ran[c].is = "result"
        BY <2>1, <2>3, <4>1, <4>2, <4>3, HearsResult DEF Result
      <4> QED BY <1>2, <3>1, <4>4 DEF Sense, MayTell, t
    <3>3. CASE \E n \in Errors(method[c]) : ran[c] = ServiceError(n)
      <4>1. PICK n \in Errors(m) : ran[c] = ServiceError(n)
        BY <3>1, <3>3
      <4>2. response[c] = Fails(m, ran[c])
        BY <3>1, <4>1 DEF Answer, ServiceError
      <4>3. t = ran[c] /\ ran[c].is = "error"
        BY <2>1, <2>3, <4>1, <4>2, HearsError DEF ServiceError
      <4> QED BY <1>2, <3>1, <4>3 DEF Sense, MayTell, t
    <3>4. CASE ran[c] = OtherError
      <4>1. response[c] = Fails(m, OtherError) /\ ran[c].is = "failure"
        BY <3>1, <3>4 DEF Answer, OtherError
      <4>2. t.is = "unexpected" /\ t.status = 500
        BY <2>1, <2>3, <4>1, HearsFault DEF Unexpected
      <4> QED BY <1>2, <3>1, <4>1, <4>2 DEF Sense, MayTell, t
    <3> QED BY <3>1, <3>2, <3>3, <3>4, OutcomeKinds
  <2>7. ~Unrouted(c)
    BY <2>3 DEF Unrouted
  <2> QED BY <2>4, <2>5, <2>6, <2>7 DEF Written
<1> QED BY <1>1, <1>2

\* What a command has been told, written without the state of the other exchanges.
LEMMA MeaningIsSense ==
    ASSUME NEW c \in Calls
    PROVE  /\ Meaning(c) = Sense(ask[c], told[c], ran[c])
           /\ Meaning(c)' = Sense(ask'[c], told'[c], ran'[c])
BY DEF Meaning, Sense

\* What nobody was told, or that no answer came, tells nothing of what ran.
LEMMA NothingTold ==
    ASSUME NEW c \in Calls, told[c] \in {Nil, Lost}, told'[c] = told[c], ask'[c] = ask[c]
    PROVE  /\ Meaning(c) \in {Nil, Lost} /\ Meaning(c)' = Meaning(c)
BY NilAssumption, MeaningIsSense DEF Sense, Lost

\* Steps that neither run a method nor tell anything.
LEMMA Unheard ==
    ASSUME IInv, NEW c \in Calls,
           \/ Begin(c) \/ Route(c) \/ NoRoute(c) \/ Decode(c) \/ DecodeFails(c) \/ JWTAuth(c)
           \/ RejectToken(c) \/ Encode(c) \/ Log(c) \/ LogPanic(c)
    PROVE  ask' = ask /\ told' = told /\ ran' = ran
BY DEF Begin, Route, NoRoute, Decode, DecodeFails, JWTAuth, RejectToken, Encode, Log, LogPanic

\* A client is told once.
LEMMA Tells ==
    ASSUME IInv, NEW c \in Calls, Command(c) \/ Hear(c)
    PROVE  /\ ran' = ran /\ Meaning(c) = Nil
           /\ Meaning(c)' = Nil \/ MayTell(ran[c], Meaning(c)')
<1>1. CallOK(c) /\ Typed
  BY DEF IInv, CallOK
<1>2. CASE Command(c)
  <2>1. pc[c] = "idle" /\ ran' = ran
    BY <1>2 DEF Command, Goes
  <2>2. told[c] = Nil /\ ran[c] = Nil
    BY <1>1, <2>1, NilAssumption DEF CallOK, Stage, Unrun, Informed
  <2>3. PICK a \in Asks[c] :
          /\ a.by = "cli" /\ ask'[c] = a
          /\ told'[c] = (IF Sent(a) THEN Nil ELSE [is |-> "usage"])
    BY <1>1, <1>2 DEF Command, Typed, Sets
  <2>4. Meaning(c) = Nil /\ Meaning(c)' \in {Nil, [is |-> "refused"]}
    BY <2>1, <2>2, <2>3, MeaningIsSense DEF Sense
  <2> QED BY <2>1, <2>2, <2>4 DEF MayTell
<1>3. CASE Hear(c)
  <2>1. /\ told[c] = Nil /\ response[c] # Nil /\ told'[c] = Heard(c)
        /\ ask' = ask /\ ran' = ran
    BY <1>1, <1>3 DEF Hear, Waiting, Typed, Sets, Heard
  <2>2. Written(c)
    BY <1>1, <2>1, AnswersAreWritten DEF CallOK
  <2>3. /\ Meaning(c) = Nil /\ Meaning(c)' = Sense(ask[c], Heard(c), ran[c])
        /\ Heard(c) = Nil => Meaning(c)' = Nil
    BY <2>1, MeaningIsSense DEF Sense
  <2> QED BY <2>1, <2>2, <2>3, HeardIsTrue
<1> QED BY <1>2, <1>3

\* A command is told what its method did and nothing else, a refusal that it did
\* nothing and will not, and the method runs at most once.
THEOREM TellsWhatRan == Spec => RpcSpec
<1>1. Init => RpcCalls!Init
  BY DEF Init, Everywhere, Meaning, RpcCalls!Init
<1>2. ASSUME IInv, [Next]_vars PROVE [RpcCalls!Next]_RpcCalls!vars
  <2>1. ASSUME ran' = ran, \A d \in Calls : Meaning(d)' = Meaning(d)
        PROVE  UNCHANGED RpcCalls!vars
    BY <2>1 DEF RpcCalls!vars
  <2>2. CASE UNCHANGED vars
    BY <2>1, <2>2 DEF vars, Meaning
  <2>3. ASSUME NEW c \in Calls, Step(c) PROVE [RpcCalls!Next]_RpcCalls!vars
    <3>1. Typed /\ CallOK(c)
      BY <1>2 DEF IInv, CallOK
    <3>2. \A d \in Calls \ {c} : Same(d)
      BY <2>3, <3>1, OnlyItself
    <3>3. \A d \in Calls \ {c} : Meaning(d)' = Meaning(d)
      BY <3>2, MeaningIsSense DEF Same
    <3>4. CASE Command(c) \/ Hear(c)
      <4>1. /\ ran' = ran /\ Meaning(c) = Nil
            /\ Meaning(c)' = Nil \/ MayTell(ran[c], Meaning(c)')
        BY <1>2, <3>4, Tells
      <4>2. CASE Meaning(c)' = Nil
        BY <2>1, <3>3, <4>1, <4>2
      <4>3. CASE MayTell(ran[c], Meaning(c)')
        <5>1. RpcCalls!Tell(c)
          BY <3>3, <4>1, <4>3
          DEF RpcCalls!Tell, RpcCalls!Only, RpcCalls!Refused, RpcCalls!Failed, MayTell
        <5> QED BY <5>1 DEF RpcCalls!Next
      <4> QED BY <4>1, <4>2, <4>3
    <3>5. CASE HearNothing(c)
      <4>1. told[c] = Nil /\ told'[c] = Lost /\ ran' = ran /\ ask' = ask
        BY <3>1, <3>5 DEF HearNothing, Waiting, Typed, Sets, Lost
      <4>2. Meaning(c) = Nil /\ Meaning(c)' = [is |-> "lost"]
        BY <4>1, NilAssumption, MeaningIsSense DEF Sense, Lost
      <4>3. RpcCalls!Lose(c)
        BY <3>3, <4>1, <4>2 DEF RpcCalls!Lose, RpcCalls!Only, RpcCalls!Lost
      <4> QED BY <4>3 DEF RpcCalls!Next
    <3>6. CASE OtherClient(c)
      <4>1. pc[c] = "idle" /\ ran' = ran /\ told' = told
        BY <3>6 DEF OtherClient, Goes
      <4>2. told[c] = Nil
        BY <3>1, <4>1, NilAssumption DEF CallOK, Stage, Unrun, Informed
      <4>3. Meaning(c)' = Meaning(c)
        BY <4>1, <4>2, MeaningIsSense DEF Sense
      <4> QED BY <2>1, <3>3, <4>1, <4>3
    <3>7. CASE Run(c)
      <4>1. /\ pc[c] = "entered" /\ ask' = ask /\ told' = told /\ pc'[c] = "ran"
        BY <3>1, <3>7 DEF Run, Goes, Typed
      <4>2. ran[c] = Nil /\ told[c] \in {Nil, Lost}
        BY <3>1, <4>1 DEF CallOK, Stage, Unrun, Informed
      <4>3. Meaning(c) \in {Nil, Lost} /\ Meaning(c)' = Meaning(c)
        BY <4>1, <4>2, NothingTold
      <4>4. Admitted(c)
        BY <3>1, <4>1 DEF CallOK, Stage
      <4>5. ran'[c] \in Outcomes(method[c], payload[c])
        BY <3>1, <3>7 DEF Run, Sets, Typed
      <4>6. ran'[c] # Nil
        BY <4>4, <4>5, OutcomeIsNotNil
      <4>7. RpcCalls!Run(c)
        BY <3>2, <3>3, <4>2, <4>3, <4>6
        DEF RpcCalls!Run, RpcCalls!Only, RpcCalls!Lost, Lost, Same
      <4> QED BY <4>7 DEF RpcCalls!Next
    <3>8. CASE Begin(c) \/ (Serve(c) /\ ~Run(c))
      <4>1. ask' = ask /\ told' = told /\ ran' = ran
        BY <1>2, <3>8, Unheard DEF Serve
      <4> QED BY <2>1, <3>3, <4>1, MeaningIsSense
    <3> QED BY <2>3, <3>4, <3>5, <3>6, <3>7, <3>8 DEF Step
  <2> QED BY <1>2, <2>2, <2>3 DEF Next, Step
<1> QED BY <1>1, <1>2, Invariant, PTL DEF Spec, RpcSpec, RpcCalls!Spec

=============================================================================
