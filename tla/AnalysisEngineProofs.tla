------------------------ MODULE AnalysisEngineProofs ------------------------
(***************************************************************************)
(* For any number of analysis threads and requests: each accepted request  *)
(* gets exactly one final response, a termination never hits another       *)
(* request's search, and no deleted request is used.  And, for any set of  *)
(* search requests, about the bots that the analysis threads own: the      *)
(* invariants of AsyncBot, its two action properties, and the safety part  *)
(* of "AsyncBot implements SearchService".                                 *)
(***************************************************************************)
EXTENDS AnalysisEngine, AsyncBot, TLAPS

Closing == {"closeAnalyze", "stopBots", "killBots", "join", "done"}
Quitting == quitWithoutWaiting /\ apiPc \in {"stopBots", "killBots", "join", "done"}
Claimed == {"prepare", "launch", "begin", "search", "report"}
Begun == {"search", "report", "clear", "erase"}

\* Where a request is: in the reading thread's hands, queued, with one
\* analysis thread, or deleted; and open until the last.
PlaceInv ==
  /\ \A r \in Requests : r >= nextId => status[r] = "unseen"
  /\ \A r \in openRequests \cup deleted : status[r] # "unseen"
  /\ queue \subseteq openRequests
  /\ openRequests \cap deleted = {}
  /\ \A t \in Threads : request[t] \in Requests =>
       request[t] \in openRequests /\ request[t] \notin queue
  /\ \A t, u \in Threads : request[t] = request[u] /\ request[t] \in Requests => t = u

\* What the reading thread's loop has left to do.
TargetInv ==
  /\ apiPc = "push" =>
       \A r \in targets : /\ r \in openRequests /\ r \notin queue
                          /\ status[r] = "inQueue"
                          /\ \A t \in Threads : request[t] # r
  /\ apiPc \in {"terminate", "act"} => targets \subseteq openRequests
  /\ apiPc \in {"read", "closeAnalyze", "join", "done"} => targets = {}
  /\ apiPc \in {"stopBots", "killBots"} => targets \subseteq Threads
  /\ apiPc = "act" => victim \in openRequests /\ status[victim] = "terminated"
  /\ apiPc # "act" => victim = NoRequest

\* The status agrees with where the analysis thread is.
StatusInv ==
  /\ \A r \in queue : status[r] \in {"inQueue", "terminated"}
  /\ \A t \in Threads :
       /\ worker[t] = "claim" => status[request[t]] \in {"inQueue", "terminated"}
       /\ worker[t] \in {"prepare", "launch", "begin"} =>
            status[request[t]] \in {"popped", "terminated"}
       /\ worker[t] \in Begun => status[request[t]] \notin {"unseen", "inQueue"}
  /\ \A r \in openRequests, t \in Threads :
       status[r] = t => request[t] = r /\ worker[t] \in Begun
  /\ apiPc = "act" /\ prevStatus \in Threads =>
       request[prevStatus] = victim /\ worker[prevStatus] \in Begun

\* A stop set while a search begins or runs is meant for it.
StopInv ==
  /\ apiPc \notin Closing => writeOpen
  /\ quitWithoutWaiting /\ apiPc \in Closing => ~writeOpen
  /\ apiPc \in {"stopBots", "killBots"} => quitWithoutWaiting
  /\ \A t \in Threads :
       /\ killed[t] => ~writeOpen
       /\ worker[t] = "begin" /\ stop[t] => Quitting
       /\ worker[t] = "search" /\ stop[t] => status[request[t]] = "terminated" \/ Quitting
       /\ worker[t] = "report" /\ ~root[t] =>
            status[request[t]] = "terminated" \/ ~writeOpen

\* The reading thread took the writing upon itself and has not done it yet.
ApiOwes(r) == apiPc = "act" /\ victim = r /\ prevStatus = "inQueue"

\* Exactly one of the two writes.
FinalInv ==
  /\ \A r \in Requests :
       /\ finals[r] \in {0, 1}
       /\ status[r] \in {"unseen", "inQueue"} \/ ApiOwes(r) => finals[r] = 0
  /\ \A t \in Threads :
       /\ worker[t] \in Claimed => finals[request[t]] = 0 /\ ~ApiOwes(request[t])
       /\ worker[t] = "claim" /\ status[request[t]] = "terminated" =>
            ApiOwes(request[t]) \/ finals[request[t]] = 1
       /\ worker[t] \in {"clear", "erase"} =>
            ApiOwes(request[t]) \/ finals[request[t]] = 1 \/ ~writeOpen
  /\ \A r \in queue : status[r] = "terminated" => ApiOwes(r) \/ finals[r] = 1
  /\ \A r \in deleted : finals[r] = 1 \/ ~writeOpen

IInv == TypeOK /\ PlaceInv /\ TargetInv /\ StatusInv /\ StopInv /\ FinalInv

USE AnalysisConstants

\* The engine starts with no request, no thread working and nothing written.
LEMMA InitInv == Init => IInv
BY DEF Init, IInv, TypeOK, Types, RequestHeld, PlaceInv, TargetInv, StatusInv, StopInv, FinalInv,
       ApiOwes, Closing, Quitting, Claimed, Begun, Requests

\* Every action of the reading thread and of the analysis threads keeps the
\* five conjuncts; those that hand a request over are split by conjunct.
LEMMA StepInv == IInv /\ [Next]_vars => IInv'
<1> SUFFICES ASSUME IInv, [Next]_vars PROVE IInv'
  OBVIOUS
<1> USE DEF IInv, TypeOK,
            vars, requestVars, outputVars, workerVars, botVars, apiVars, closeVars
<1>1. ASSUME NEW n \in 1..MaxTurns, ReadQuery(n) PROVE IInv'
  <2>1. PICK new : new = nextId..(nextId + n - 1)
    OBVIOUS
  <2>2. /\ new \subseteq Requests
        /\ nextId' \in 1..(MaxRequests + 1)
        /\ \A r \in new : r >= nextId
        /\ \A r \in Requests : r >= nextId' => r >= nextId /\ r \notin new
    BY <1>1, <2>1 DEF ReadQuery, Types, Requests
  <2>3. /\ apiPc = "read" /\ apiPc' = "push" /\ targets' = new
        /\ status' = [r \in Requests |-> IF r \in new THEN "inQueue" ELSE status[r]]
        /\ openRequests' = openRequests \cup new
        /\ UNCHANGED <<queue, deleted, outputVars, workerVars, botVars, victim,
                       prevStatus, closeVars>>
    BY <1>1, <2>1 DEF ReadQuery
  <2>4. /\ \A r \in new : /\ status[r] = "unseen" /\ r \notin queue /\ r \notin deleted
                          /\ r \notin openRequests
                          /\ \A t \in Threads : request[t] # r
        /\ \A r \in openRequests : r \notin new /\ status'[r] = status[r]
    BY <2>2, <2>3 DEF PlaceInv, Types
  <2>5. Types'
    BY <2>2, <2>3, <2>4 DEF Types, RequestHeld
  <2>6. RequestHeld'
    BY <2>2, <2>3, <2>4 DEF Types, RequestHeld
  <2>7. PlaceInv'
    BY <2>2, <2>3, <2>4 DEF Types, RequestHeld, PlaceInv
  <2>8. TargetInv'
    BY <2>2, <2>3, <2>4 DEF Types, RequestHeld, PlaceInv, TargetInv, StatusInv
  <2>9. StatusInv'
    BY <2>2, <2>3, <2>4 DEF Types, RequestHeld, PlaceInv, TargetInv, StatusInv, Begun
  <2>10. StopInv'
    BY <2>2, <2>3, <2>4 DEF Types, RequestHeld, PlaceInv, StatusInv, StopInv, Closing, Quitting
  <2>11. FinalInv'
    BY <2>2, <2>3, <2>4 DEF Types, RequestHeld, PlaceInv, StatusInv, TargetInv, FinalInv, ApiOwes, Claimed
  <2> QED
    BY <2>5, <2>6, <2>7, <2>8, <2>9, <2>10, <2>11
<1>2. ASSUME NEW n \in 1..MaxTurns, RejectQuery(n) PROVE IInv'
  <2>1. Types'
    BY <1>2 DEF RejectQuery, Types, RequestHeld
  <2>2. RequestHeld'
    BY <1>2 DEF RejectQuery, Types, RequestHeld
  <2>3. PlaceInv'
    BY <1>2 DEF RejectQuery, Types, RequestHeld, PlaceInv, Requests
  <2>4. TargetInv'
    BY <1>2 DEF RejectQuery, Types, RequestHeld, PlaceInv, TargetInv, StatusInv
  <2>5. StatusInv'
    BY <1>2 DEF RejectQuery, Types, RequestHeld, PlaceInv, TargetInv, StatusInv, Begun
  <2>6. StopInv'
    BY <1>2 DEF RejectQuery, Types, RequestHeld, PlaceInv, TargetInv, StatusInv, StopInv, Begun, Closing, Quitting
  <2>7. FinalInv'
    BY <1>2 DEF RejectQuery, Types, RequestHeld, PlaceInv, TargetInv, StatusInv, StopInv, FinalInv, ApiOwes, Begun, Closing, Claimed, Quitting
  <2> QED
    BY <2>1, <2>2, <2>3, <2>4, <2>5, <2>6, <2>7
<1>3. ASSUME NEW matching \in SUBSET openRequests, BeginTerminate(matching) PROVE IInv'
  <2>1. Types'
    BY <1>3 DEF BeginTerminate, Types, RequestHeld
  <2>2. RequestHeld'
    BY <1>3 DEF BeginTerminate, Types, RequestHeld
  <2>3. PlaceInv'
    BY <1>3 DEF BeginTerminate, Types, RequestHeld, PlaceInv, TargetInv
  <2>4. TargetInv'
    BY <1>3 DEF BeginTerminate, Types, RequestHeld, PlaceInv, TargetInv, StatusInv
  <2>5. StatusInv'
    BY <1>3 DEF BeginTerminate, Types, RequestHeld, PlaceInv, TargetInv, StatusInv, Begun
  <2>6. StopInv'
    BY <1>3 DEF BeginTerminate, Types, RequestHeld, PlaceInv, TargetInv, StatusInv, StopInv, Begun, Closing, Quitting
  <2>7. FinalInv'
    BY <1>3 DEF BeginTerminate, Types, RequestHeld, PlaceInv, TargetInv, StatusInv, StopInv, FinalInv, ApiOwes, Begun, Closing, Claimed, Quitting
  <2> QED
    BY <2>1, <2>2, <2>3, <2>4, <2>5, <2>6, <2>7
<1>4. CASE EndOfInput
  <2>1. Types'
    BY <1>4 DEF EndOfInput, Types, RequestHeld
  <2>2. RequestHeld'
    BY <1>4 DEF EndOfInput, Types, RequestHeld
  <2>3. PlaceInv'
    BY <1>4 DEF EndOfInput, Types, RequestHeld, PlaceInv, TargetInv
  <2>4. TargetInv'
    BY <1>4 DEF EndOfInput, Types, RequestHeld, PlaceInv, TargetInv, StatusInv
  <2>5. StatusInv'
    BY <1>4 DEF EndOfInput, Types, RequestHeld, PlaceInv, TargetInv, StatusInv, Begun
  <2>6. StopInv'
    BY <1>4 DEF EndOfInput, Types, RequestHeld, PlaceInv, TargetInv, StatusInv, StopInv, Begun, Closing, Quitting
  <2>7. FinalInv'
    BY <1>4 DEF EndOfInput, Types, RequestHeld, PlaceInv, TargetInv, StatusInv, StopInv, FinalInv, ApiOwes, Begun, Closing, Claimed, Quitting
  <2> QED
    BY <2>1, <2>2, <2>3, <2>4, <2>5, <2>6, <2>7
<1>5. ASSUME NEW r \in targets \cap Requests, PushRequest(r) PROVE IInv'
  <2>1. Types'
    BY <1>5 DEF PushRequest, First, Types, RequestHeld
  <2>2. RequestHeld'
    BY <1>5 DEF PushRequest, First, Types, RequestHeld
  <2>3. PlaceInv'
    BY <1>5 DEF PushRequest, First, Types, RequestHeld, PlaceInv, TargetInv
  <2>4. TargetInv'
    BY <1>5 DEF PushRequest, First, Types, RequestHeld, PlaceInv, TargetInv, StatusInv
  <2>5. StatusInv'
    BY <1>5 DEF PushRequest, First, Types, RequestHeld, PlaceInv, TargetInv, StatusInv, Begun
  <2>6. StopInv'
    BY <1>5 DEF PushRequest, First, Types, RequestHeld, PlaceInv, TargetInv, StatusInv, StopInv, Begun, Closing, Quitting
  <2>7. FinalInv'
    BY <1>5 DEF PushRequest, First, Types, RequestHeld, PlaceInv, TargetInv, StatusInv, StopInv, FinalInv, ApiOwes, Begun, Closing, Claimed, Quitting
  <2> QED
    BY <2>1, <2>2, <2>3, <2>4, <2>5, <2>6, <2>7
<1>6. ASSUME NEW r \in targets \cap Requests, FlagTerminated(r) PROVE IInv'
  <2>1. Types'
    BY <1>6 DEF FlagTerminated, First, Types, RequestHeld
  <2>2. RequestHeld'
    BY <1>6 DEF FlagTerminated, First, Types, RequestHeld
  <2>3. PlaceInv'
    BY <1>6 DEF FlagTerminated, First, Types, RequestHeld, PlaceInv, TargetInv
  <2>4. TargetInv'
    BY <1>6 DEF FlagTerminated, First, Types, RequestHeld, PlaceInv, TargetInv, StatusInv
  <2>5. StatusInv'
    BY <1>6 DEF FlagTerminated, First, Types, RequestHeld, PlaceInv, TargetInv, StatusInv, Begun
  <2>6. StopInv'
    BY <1>6 DEF FlagTerminated, First, Types, RequestHeld, PlaceInv, TargetInv, StatusInv, StopInv, Begun, Closing, Quitting
  <2>7. FinalInv'
    BY <1>6 DEF FlagTerminated, First, Types, RequestHeld, PlaceInv, TargetInv, StatusInv, StopInv, FinalInv, ApiOwes, Begun, Closing, Claimed, Quitting
  <2> QED
    BY <2>1, <2>2, <2>3, <2>4, <2>5, <2>6, <2>7
<1>7. CASE ActOnTerminated
  <2>1. Types'
    BY <1>7 DEF ActOnTerminated, WritesFor, WriteFinal, Types, RequestHeld
  <2>2. RequestHeld'
    BY <1>7 DEF ActOnTerminated, WritesFor, WriteFinal, Types, RequestHeld
  <2>3. PlaceInv'
    BY <1>7 DEF ActOnTerminated, WritesFor, WriteFinal, Types, RequestHeld, PlaceInv, TargetInv
  <2>4. TargetInv'
    BY <1>7 DEF ActOnTerminated, WritesFor, WriteFinal, Types, RequestHeld, PlaceInv, TargetInv, StatusInv
  <2>5. StatusInv'
    BY <1>7 DEF ActOnTerminated, WritesFor, WriteFinal, Types, RequestHeld, PlaceInv, TargetInv, StatusInv, Begun
  <2>6. StopInv'
    BY <1>7 DEF ActOnTerminated, WritesFor, WriteFinal, Types, RequestHeld, PlaceInv, TargetInv, StatusInv, StopInv, Begun, Closing, Quitting
  <2>7. FinalInv'
    BY <1>7 DEF ActOnTerminated, WritesFor, WriteFinal, Types, RequestHeld, PlaceInv, TargetInv, StatusInv, StopInv, FinalInv, ApiOwes, Begun, Closing, Claimed, Quitting
  <2> QED
    BY <2>1, <2>2, <2>3, <2>4, <2>5, <2>6, <2>7
<1>8. CASE CloseAnalyze
  <2>1. Types'
    BY <1>8 DEF CloseAnalyze, Types, RequestHeld
  <2>2. RequestHeld'
    BY <1>8 DEF CloseAnalyze, Types, RequestHeld
  <2>3. PlaceInv'
    BY <1>8 DEF CloseAnalyze, Types, RequestHeld, PlaceInv, TargetInv
  <2>4. TargetInv'
    BY <1>8 DEF CloseAnalyze, Types, RequestHeld, PlaceInv, TargetInv, StatusInv
  <2>5. StatusInv'
    BY <1>8 DEF CloseAnalyze, Types, RequestHeld, PlaceInv, TargetInv, StatusInv, Begun
  <2>6. StopInv'
    BY <1>8 DEF CloseAnalyze, Types, RequestHeld, PlaceInv, TargetInv, StatusInv, StopInv, Begun, Closing, Quitting
  <2>7. FinalInv'
    BY <1>8 DEF CloseAnalyze, Types, RequestHeld, PlaceInv, TargetInv, StatusInv, StopInv, FinalInv, ApiOwes, Begun, Closing, Claimed, Quitting
  <2> QED
    BY <2>1, <2>2, <2>3, <2>4, <2>5, <2>6, <2>7
<1>9. ASSUME NEW t \in Threads, StopBot(t) PROVE IInv'
  <2>1. Types'
    BY <1>9 DEF StopBot, Types, RequestHeld
  <2>2. RequestHeld'
    BY <1>9 DEF StopBot, Types, RequestHeld
  <2>3. PlaceInv'
    BY <1>9 DEF StopBot, Types, RequestHeld, PlaceInv, TargetInv
  <2>4. TargetInv'
    BY <1>9 DEF StopBot, Types, RequestHeld, PlaceInv, TargetInv, StatusInv
  <2>5. StatusInv'
    BY <1>9 DEF StopBot, Types, RequestHeld, PlaceInv, TargetInv, StatusInv, Begun
  <2>6. StopInv'
    BY <1>9 DEF StopBot, Types, RequestHeld, PlaceInv, TargetInv, StatusInv, StopInv, Begun, Closing, Quitting
  <2>7. FinalInv'
    BY <1>9 DEF StopBot, Types, RequestHeld, PlaceInv, TargetInv, StatusInv, StopInv, FinalInv, ApiOwes, Begun, Closing, Claimed, Quitting
  <2> QED
    BY <2>1, <2>2, <2>3, <2>4, <2>5, <2>6, <2>7
<1>10. ASSUME NEW t \in Threads, KillBot(t) PROVE IInv'
  <2>1. Types'
    BY <1>10 DEF KillBot, StopKilled, Types, RequestHeld
  <2>2. RequestHeld'
    BY <1>10 DEF KillBot, StopKilled, Types, RequestHeld
  <2>3. PlaceInv'
    BY <1>10 DEF KillBot, StopKilled, Types, RequestHeld, PlaceInv, TargetInv
  <2>4. TargetInv'
    BY <1>10 DEF KillBot, StopKilled, Types, RequestHeld, PlaceInv, TargetInv, StatusInv
  <2>5. StatusInv'
    BY <1>10 DEF KillBot, StopKilled, Types, RequestHeld, PlaceInv, TargetInv, StatusInv, Begun
  <2>6. StopInv'
    BY <1>10 DEF KillBot, StopKilled, Types, RequestHeld, PlaceInv, TargetInv, StatusInv, StopInv, Begun, Closing, Quitting
  <2>7. FinalInv'
    BY <1>10 DEF KillBot, StopKilled, Types, RequestHeld, PlaceInv, TargetInv, StatusInv, StopInv, FinalInv, ApiOwes, Begun, Closing, Claimed, Quitting
  <2> QED
    BY <2>1, <2>2, <2>3, <2>4, <2>5, <2>6, <2>7
<1>11. CASE JoinThreads
  <2>1. Types'
    BY <1>11 DEF JoinThreads, Types, RequestHeld
  <2>2. RequestHeld'
    BY <1>11 DEF JoinThreads, Types, RequestHeld
  <2>3. PlaceInv'
    BY <1>11 DEF JoinThreads, Types, RequestHeld, PlaceInv, TargetInv
  <2>4. TargetInv'
    BY <1>11 DEF JoinThreads, Types, RequestHeld, PlaceInv, TargetInv, StatusInv
  <2>5. StatusInv'
    BY <1>11 DEF JoinThreads, Types, RequestHeld, PlaceInv, TargetInv, StatusInv, Begun
  <2>6. StopInv'
    BY <1>11 DEF JoinThreads, Types, RequestHeld, PlaceInv, TargetInv, StatusInv, StopInv, Begun, Closing, Quitting
  <2>7. FinalInv'
    BY <1>11 DEF JoinThreads, Types, RequestHeld, PlaceInv, TargetInv, StatusInv, StopInv, FinalInv, ApiOwes, Begun, Closing, Claimed, Quitting
  <2> QED
    BY <2>1, <2>2, <2>3, <2>4, <2>5, <2>6, <2>7
<1>12. ASSUME NEW t \in Threads, NEW r \in queue, PopRequest(t, r) PROVE IInv'
  <2>1. Types'
    BY <1>12 DEF PopRequest, Go, Best, Types, RequestHeld
  <2>2. RequestHeld'
    BY <1>12 DEF PopRequest, Go, Best, Types, RequestHeld
  <2>3. PlaceInv'
    BY <1>12 DEF PopRequest, Go, Best, Types, RequestHeld, PlaceInv, TargetInv
  <2>4. TargetInv'
    BY <1>12 DEF PopRequest, Go, Best, Types, RequestHeld, PlaceInv, TargetInv, StatusInv
  <2>5. StatusInv'
    BY <1>12 DEF PopRequest, Go, Best, Types, RequestHeld, PlaceInv, TargetInv, StatusInv, Begun
  <2>6. StopInv'
    BY <1>12 DEF PopRequest, Go, Best, Types, RequestHeld, PlaceInv, TargetInv, StatusInv, StopInv, Begun, Closing, Quitting
  <2>7. FinalInv'
    BY <1>12 DEF PopRequest, Go, Best, Types, RequestHeld, PlaceInv, TargetInv, StatusInv, StopInv, FinalInv, ApiOwes, Begun, Closing, Claimed, Quitting
  <2> QED
    BY <2>1, <2>2, <2>3, <2>4, <2>5, <2>6, <2>7
<1>13. ASSUME NEW t \in Threads, QueueClosed(t) PROVE IInv'
  <2>1. Types'
    BY <1>13 DEF QueueClosed, Go, Types, RequestHeld
  <2>2. RequestHeld'
    BY <1>13 DEF QueueClosed, Go, Types, RequestHeld
  <2>3. PlaceInv'
    BY <1>13 DEF QueueClosed, Go, Types, RequestHeld, PlaceInv, TargetInv
  <2>4. TargetInv'
    BY <1>13 DEF QueueClosed, Go, Types, RequestHeld, PlaceInv, TargetInv, StatusInv
  <2>5. StatusInv'
    BY <1>13 DEF QueueClosed, Go, Types, RequestHeld, PlaceInv, TargetInv, StatusInv, Begun
  <2>6. StopInv'
    BY <1>13 DEF QueueClosed, Go, Types, RequestHeld, PlaceInv, TargetInv, StatusInv, StopInv, Begun, Closing, Quitting
  <2>7. FinalInv'
    BY <1>13 DEF QueueClosed, Go, Types, RequestHeld, PlaceInv, TargetInv, StatusInv, StopInv, FinalInv, ApiOwes, Begun, Closing, Claimed, Quitting
  <2> QED
    BY <2>1, <2>2, <2>3, <2>4, <2>5, <2>6, <2>7
<1>14. ASSUME NEW t \in Threads, ClaimRequest(t) PROVE IInv'
  <2>1. Types'
    BY <1>14 DEF ClaimRequest, Go, Types, RequestHeld
  <2>2. RequestHeld'
    BY <1>14 DEF ClaimRequest, Go, Types, RequestHeld
  <2>3. PlaceInv'
    BY <1>14 DEF ClaimRequest, Go, Types, RequestHeld, PlaceInv, TargetInv
  <2>4. TargetInv'
    BY <1>14 DEF ClaimRequest, Go, Types, RequestHeld, PlaceInv, TargetInv, StatusInv
  <2>5. StatusInv'
    BY <1>14 DEF ClaimRequest, Go, Types, RequestHeld, PlaceInv, TargetInv, StatusInv, Begun
  <2>6. StopInv'
    BY <1>14 DEF ClaimRequest, Go, Types, RequestHeld, PlaceInv, TargetInv, StatusInv, StopInv, Begun, Closing, Quitting
  <2>7. FinalInv'
    BY <1>14 DEF ClaimRequest, Go, Types, RequestHeld, PlaceInv, TargetInv, StatusInv, StopInv, FinalInv, ApiOwes, Begun, Closing, Claimed, Quitting
  <2> QED
    BY <2>1, <2>2, <2>3, <2>4, <2>5, <2>6, <2>7
<1>15. ASSUME NEW t \in Threads, SkipTerminated(t) PROVE IInv'
  <2>1. Types'
    BY <1>15 DEF SkipTerminated, Go, Types, RequestHeld
  <2>2. RequestHeld'
    BY <1>15 DEF SkipTerminated, Go, Types, RequestHeld
  <2>3. PlaceInv'
    BY <1>15 DEF SkipTerminated, Go, Types, RequestHeld, PlaceInv, TargetInv
  <2>4. TargetInv'
    BY <1>15 DEF SkipTerminated, Go, Types, RequestHeld, PlaceInv, TargetInv, StatusInv
  <2>5. StatusInv'
    BY <1>15 DEF SkipTerminated, Go, Types, RequestHeld, PlaceInv, TargetInv, StatusInv, Begun
  <2>6. StopInv'
    BY <1>15 DEF SkipTerminated, Go, Types, RequestHeld, PlaceInv, TargetInv, StatusInv, StopInv, Begun, Closing, Quitting
  <2>7. FinalInv'
    BY <1>15 DEF SkipTerminated, Go, Types, RequestHeld, PlaceInv, TargetInv, StatusInv, StopInv, FinalInv, ApiOwes, Begun, Closing, Claimed, Quitting
  <2> QED
    BY <2>1, <2>2, <2>3, <2>4, <2>5, <2>6, <2>7
<1>16. ASSUME NEW t \in Threads, PrepareBot(t) PROVE IInv'
  <2>1. Types'
    BY <1>16 DEF PrepareBot, Go, Types, RequestHeld
  <2>2. RequestHeld'
    BY <1>16 DEF PrepareBot, Go, Types, RequestHeld
  <2>3. PlaceInv'
    BY <1>16 DEF PrepareBot, Go, Types, RequestHeld, PlaceInv, TargetInv
  <2>4. TargetInv'
    BY <1>16 DEF PrepareBot, Go, Types, RequestHeld, PlaceInv, TargetInv, StatusInv
  <2>5. StatusInv'
    BY <1>16 DEF PrepareBot, Go, Types, RequestHeld, PlaceInv, TargetInv, StatusInv, Begun
  <2>6. StopInv'
    BY <1>16 DEF PrepareBot, Go, Types, RequestHeld, PlaceInv, TargetInv, StatusInv, StopInv, Begun, Closing, Quitting
  <2>7. FinalInv'
    BY <1>16 DEF PrepareBot, Go, Types, RequestHeld, PlaceInv, TargetInv, StatusInv, StopInv, FinalInv, ApiOwes, Begun, Closing, Claimed, Quitting
  <2> QED
    BY <2>1, <2>2, <2>3, <2>4, <2>5, <2>6, <2>7
<1>17. ASSUME NEW t \in Threads, LaunchSearch(t) PROVE IInv'
  <2>1. Types'
    BY <1>17 DEF LaunchSearch, Go, Types, RequestHeld
  <2>2. RequestHeld'
    BY <1>17 DEF LaunchSearch, Go, Types, RequestHeld
  <2>3. PlaceInv'
    BY <1>17 DEF LaunchSearch, Go, Types, RequestHeld, PlaceInv, TargetInv
  <2>4. TargetInv'
    BY <1>17 DEF LaunchSearch, Go, Types, RequestHeld, PlaceInv, TargetInv, StatusInv
  <2>5. StatusInv'
    BY <1>17 DEF LaunchSearch, Go, Types, RequestHeld, PlaceInv, TargetInv, StatusInv, Begun
  <2>6. StopInv'
    BY <1>17 DEF LaunchSearch, Go, Types, RequestHeld, PlaceInv, TargetInv, StatusInv, StopInv, Begun, Closing, Quitting
  <2>7. FinalInv'
    BY <1>17 DEF LaunchSearch, Go, Types, RequestHeld, PlaceInv, TargetInv, StatusInv, StopInv, FinalInv, ApiOwes, Begun, Closing, Claimed, Quitting
  <2> QED
    BY <2>1, <2>2, <2>3, <2>4, <2>5, <2>6, <2>7
<1>18. ASSUME NEW t \in Threads, RefuseLaunch(t) PROVE IInv'
  <2>1. Types'
    BY <1>18 DEF RefuseLaunch, Go, Types, RequestHeld
  <2>2. RequestHeld'
    BY <1>18 DEF RefuseLaunch, Go, Types, RequestHeld
  <2>3. PlaceInv'
    BY <1>18 DEF RefuseLaunch, Go, Types, RequestHeld, PlaceInv, TargetInv
  <2>4. TargetInv'
    BY <1>18 DEF RefuseLaunch, Go, Types, RequestHeld, PlaceInv, TargetInv, StatusInv
  <2>5. StatusInv'
    BY <1>18 DEF RefuseLaunch, Go, Types, RequestHeld, PlaceInv, TargetInv, StatusInv, Begun
  <2>6. StopInv'
    BY <1>18 DEF RefuseLaunch, Go, Types, RequestHeld, PlaceInv, TargetInv, StatusInv, StopInv, Begun, Closing, Quitting
  <2>7. FinalInv'
    BY <1>18 DEF RefuseLaunch, Go, Types, RequestHeld, PlaceInv, TargetInv, StatusInv, StopInv, FinalInv, ApiOwes, Begun, Closing, Claimed, Quitting
  <2> QED
    BY <2>1, <2>2, <2>3, <2>4, <2>5, <2>6, <2>7
<1>19. ASSUME NEW t \in Threads, SearchBegun(t) PROVE IInv'
  <2>1. Types'
    BY <1>19 DEF SearchBegun, Go, StopsAtOnce, Types, RequestHeld
  <2>2. RequestHeld'
    BY <1>19 DEF SearchBegun, Go, StopsAtOnce, Types, RequestHeld
  <2>3. PlaceInv'
    BY <1>19 DEF SearchBegun, Go, StopsAtOnce, Types, RequestHeld, PlaceInv, TargetInv
  <2>4. TargetInv'
    BY <1>19 DEF SearchBegun, Go, StopsAtOnce, Types, RequestHeld, PlaceInv, TargetInv, StatusInv
  <2>5. StatusInv'
    BY <1>19 DEF SearchBegun, Go, StopsAtOnce, Types, RequestHeld, PlaceInv, TargetInv, StatusInv, Begun
  <2>6. StopInv'
    BY <1>19 DEF SearchBegun, Go, StopsAtOnce, Types, RequestHeld, PlaceInv, TargetInv, StatusInv, StopInv, Begun, Closing, Quitting
  <2>7. FinalInv'
    BY <1>19 DEF SearchBegun, Go, StopsAtOnce, Types, RequestHeld, PlaceInv, TargetInv, StatusInv, StopInv, FinalInv, ApiOwes, Begun, Closing, Claimed, Quitting
  <2> QED
    BY <2>1, <2>2, <2>3, <2>4, <2>5, <2>6, <2>7
<1>20. ASSUME NEW t \in Threads, SearchEnds(t) PROVE IInv'
  <2>1. Types'
    BY <1>20 DEF SearchEnds, Go, Types, RequestHeld
  <2>2. RequestHeld'
    BY <1>20 DEF SearchEnds, Go, Types, RequestHeld
  <2>3. PlaceInv'
    BY <1>20 DEF SearchEnds, Go, Types, RequestHeld, PlaceInv, TargetInv
  <2>4. TargetInv'
    BY <1>20 DEF SearchEnds, Go, Types, RequestHeld, PlaceInv, TargetInv, StatusInv
  <2>5. StatusInv'
    BY <1>20 DEF SearchEnds, Go, Types, RequestHeld, PlaceInv, TargetInv, StatusInv, Begun
  <2>6. StopInv'
    BY <1>20 DEF SearchEnds, Go, Types, RequestHeld, PlaceInv, TargetInv, StatusInv, StopInv, Begun, Closing, Quitting
  <2>7. FinalInv'
    BY <1>20 DEF SearchEnds, Go, Types, RequestHeld, PlaceInv, TargetInv, StatusInv, StopInv, FinalInv, ApiOwes, Begun, Closing, Claimed, Quitting
  <2> QED
    BY <2>1, <2>2, <2>3, <2>4, <2>5, <2>6, <2>7
<1>21. ASSUME NEW t \in Threads, ReportFinal(t) PROVE IInv'
  <2>1. Types'
    BY <1>21 DEF ReportFinal, Go, HasResponse, WriteFinal, Types, RequestHeld
  <2>2. RequestHeld'
    BY <1>21 DEF ReportFinal, Go, HasResponse, WriteFinal, Types, RequestHeld
  <2>3. PlaceInv'
    BY <1>21 DEF ReportFinal, Go, HasResponse, WriteFinal, Types, RequestHeld, PlaceInv, TargetInv
  <2>4. TargetInv'
    BY <1>21 DEF ReportFinal, Go, HasResponse, WriteFinal, Types, RequestHeld, PlaceInv, TargetInv, StatusInv
  <2>5. StatusInv'
    BY <1>21 DEF ReportFinal, Go, HasResponse, WriteFinal, Types, RequestHeld, PlaceInv, TargetInv, StatusInv, Begun
  <2>6. StopInv'
    BY <1>21 DEF ReportFinal, Go, HasResponse, WriteFinal, Types, RequestHeld, PlaceInv, TargetInv, StatusInv, StopInv, Begun, Closing, Quitting
  <2>7. FinalInv'
    BY <1>21 DEF ReportFinal, Go, HasResponse, WriteFinal, Types, RequestHeld, PlaceInv, TargetInv, StatusInv, StopInv, FinalInv, ApiOwes, Begun, Closing, Claimed, Quitting
  <2> QED
    BY <2>1, <2>2, <2>3, <2>4, <2>5, <2>6, <2>7
<1>22. ASSUME NEW t \in Threads, ClearSearch(t) PROVE IInv'
  <2>1. Types'
    BY <1>22 DEF ClearSearch, Go, Types, RequestHeld
  <2>2. RequestHeld'
    BY <1>22 DEF ClearSearch, Go, Types, RequestHeld
  <2>3. PlaceInv'
    BY <1>22 DEF ClearSearch, Go, Types, RequestHeld, PlaceInv, TargetInv
  <2>4. TargetInv'
    BY <1>22 DEF ClearSearch, Go, Types, RequestHeld, PlaceInv, TargetInv, StatusInv
  <2>5. StatusInv'
    BY <1>22 DEF ClearSearch, Go, Types, RequestHeld, PlaceInv, TargetInv, StatusInv, Begun
  <2>6. StopInv'
    BY <1>22 DEF ClearSearch, Go, Types, RequestHeld, PlaceInv, TargetInv, StatusInv, StopInv, Begun, Closing, Quitting
  <2>7. FinalInv'
    BY <1>22 DEF ClearSearch, Go, Types, RequestHeld, PlaceInv, TargetInv, StatusInv, StopInv, FinalInv, ApiOwes, Begun, Closing, Claimed, Quitting
  <2> QED
    BY <2>1, <2>2, <2>3, <2>4, <2>5, <2>6, <2>7
<1>23. ASSUME NEW t \in Threads, CloseRequest(t) PROVE IInv'
  <2>1. Types'
    BY <1>23 DEF CloseRequest, Go, MutexFree, Types, RequestHeld
  <2>2. RequestHeld'
    BY <1>23 DEF CloseRequest, Go, MutexFree, Types, RequestHeld
  <2>3. PlaceInv'
    BY <1>23 DEF CloseRequest, Go, MutexFree, Types, RequestHeld, PlaceInv, TargetInv
  <2>4. TargetInv'
    BY <1>23 DEF CloseRequest, Go, MutexFree, Types, RequestHeld, PlaceInv, TargetInv, StatusInv
  <2>5. StatusInv'
    BY <1>23 DEF CloseRequest, Go, MutexFree, Types, RequestHeld, PlaceInv, TargetInv, StatusInv, Begun
  <2>6. StopInv'
    BY <1>23 DEF CloseRequest, Go, MutexFree, Types, RequestHeld, PlaceInv, TargetInv, StatusInv, StopInv, Begun, Closing, Quitting
  <2>7. FinalInv'
    BY <1>23 DEF CloseRequest, Go, MutexFree, Types, RequestHeld, PlaceInv, TargetInv, StatusInv, StopInv, FinalInv, ApiOwes, Begun, Closing, Claimed, Quitting
  <2> QED
    BY <2>1, <2>2, <2>3, <2>4, <2>5, <2>6, <2>7
<1>24. ASSUME NEW t \in Threads, BotPlayout(t) PROVE IInv'
  <2>1. Types'
    BY <1>24 DEF BotPlayout, Go, Types, RequestHeld
  <2>2. RequestHeld'
    BY <1>24 DEF BotPlayout, Go, Types, RequestHeld
  <2>3. PlaceInv'
    BY <1>24 DEF BotPlayout, Go, Types, RequestHeld, PlaceInv, TargetInv
  <2>4. TargetInv'
    BY <1>24 DEF BotPlayout, Go, Types, RequestHeld, PlaceInv, TargetInv, StatusInv
  <2>5. StatusInv'
    BY <1>24 DEF BotPlayout, Go, Types, RequestHeld, PlaceInv, TargetInv, StatusInv, Begun
  <2>6. StopInv'
    BY <1>24 DEF BotPlayout, Go, Types, RequestHeld, PlaceInv, TargetInv, StatusInv, StopInv, Begun, Closing, Quitting
  <2>7. FinalInv'
    BY <1>24 DEF BotPlayout, Go, Types, RequestHeld, PlaceInv, TargetInv, StatusInv, StopInv, FinalInv, ApiOwes, Begun, Closing, Claimed, Quitting
  <2> QED
    BY <2>1, <2>2, <2>3, <2>4, <2>5, <2>6, <2>7
<1>25. ASSUME NEW t \in Threads, ReportDuringSearch(t) PROVE IInv'
  <2>1. Types'
    BY <1>25 DEF ReportDuringSearch, MayReport, Types, RequestHeld
  <2>2. RequestHeld'
    BY <1>25 DEF ReportDuringSearch, MayReport, Types, RequestHeld
  <2>3. PlaceInv'
    BY <1>25 DEF ReportDuringSearch, MayReport, Types, RequestHeld, PlaceInv, TargetInv
  <2>4. TargetInv'
    BY <1>25 DEF ReportDuringSearch, MayReport, Types, RequestHeld, PlaceInv, TargetInv, StatusInv
  <2>5. StatusInv'
    BY <1>25 DEF ReportDuringSearch, MayReport, Types, RequestHeld, PlaceInv, TargetInv, StatusInv, Begun
  <2>6. StopInv'
    BY <1>25 DEF ReportDuringSearch, MayReport, Types, RequestHeld, PlaceInv, TargetInv, StatusInv, StopInv, Begun, Closing, Quitting
  <2>7. FinalInv'
    BY <1>25 DEF ReportDuringSearch, MayReport, Types, RequestHeld, PlaceInv, TargetInv, StatusInv, StopInv, FinalInv, ApiOwes, Begun, Closing, Claimed, Quitting
  <2> QED
    BY <2>1, <2>2, <2>3, <2>4, <2>5, <2>6, <2>7
<1>26. CASE UNCHANGED vars
  BY <1>26 DEF Types, RequestHeld, PlaceInv, TargetInv, StatusInv, StopInv,
               FinalInv, ApiOwes, Quitting
<1> QED
  BY <1>1, <1>2, <1>3, <1>4, <1>5, <1>6, <1>7, <1>8, <1>9, <1>10, <1>11, <1>12, <1>13, <1>14, <1>15, <1>16, <1>17, <1>18, <1>19, <1>20, <1>21, <1>22, <1>23, <1>24, <1>25, <1>26
  DEF Next, ApiReads, ApiStep, WorkerStep, Exited

\* The invariant the results below are read off holds in every behaviour.
THEOREM Inductive == Spec => []IInv
BY InitInv, StepInv, PTL DEF Spec

\* The engine's variables keep their types, and an analysis thread has a
\* request exactly inside the body of its loop.
THEOREM TypeCorrect == Spec => []TypeOK
BY Inductive, PTL DEF IInv

\* The reading thread and the analysis threads never both write the final
\* response of a request.
THEOREM OneResponse == Spec => []OneFinalResponse
<1>1. IInv => OneFinalResponse
  BY DEF IInv, FinalInv, OneFinalResponse
<1> QED
  BY <1>1, Inductive, PTL

\* A request is deleted only after its final response was written.
THEOREM AnsweredFirst == Spec => []AnsweredBeforeForgotten
<1>1. IInv => AnsweredBeforeForgotten
  BY DEF IInv, FinalInv, AnsweredBeforeForgotten
<1> QED
  BY <1>1, Inductive, PTL

\* Whoever takes the writing of the response over, there is exactly one for
\* each request that is over.
THEOREM ExactlyOne == Spec => []ExactlyOneFinalResponse
BY OneResponse, AnsweredFirst, PTL DEF ExactlyOneFinalResponse

\* A late terminate never stops the search of the thread's next request.
THEOREM StopsMeant == Spec => []StopMeantForRequest
<1>1. IInv => StopMeantForRequest
  BY DEF IInv, StopInv, Quitting, StopMeantForRequest
<1> QED
  BY <1>1, Inductive, PTL

\* The terminate loop, the queue and the analysis threads hold no request
\* that was deleted.
THEOREM NoDangling == Spec => []NoUseAfterDelete
<1>1. ASSUME IInv PROVE NoUseAfterDelete
  <2>1. (openRequests \cup queue \cup {request[t] : t \in Threads}) \cap deleted = {}
    BY <1>1 DEF IInv, TypeOK, Types, PlaceInv
  <2>2. victim \notin deleted
    BY <1>1 DEF IInv, TypeOK, Types, PlaceInv, TargetInv
  <2>3. targets \cap deleted = {}
    BY <1>1 DEF IInv, TypeOK, Types, PlaceInv, TargetInv
  <2> QED
    BY <2>1, <2>2, <2>3 DEF NoUseAfterDelete
<1> QED
  BY <1>1, Inductive, PTL

\* No report of a search follows the final response of its request.
THEOREM LastIsFinal == Spec => FinalIsLast
<1>1. ASSUME IInv, [Next]_vars, NEW r \in Requests, partials'[r] # partials[r]
      PROVE  finals[r] = 0
  <2>1. PICK t \in Threads : ReportDuringSearch(t)
    BY <1>1
    DEF Next, ApiReads, ApiStep, WorkerStep, Exited, vars, outputVars,
        ReadQuery, RejectQuery, BeginTerminate, EndOfInput, PushRequest,
        FlagTerminated, ActOnTerminated, CloseAnalyze, StopBot, KillBot,
        JoinThreads, PopRequest, QueueClosed, ClaimRequest, SkipTerminated,
        PrepareBot, LaunchSearch, RefuseLaunch, SearchBegun, SearchEnds,
        ReportFinal, ClearSearch, CloseRequest, BotPlayout
  <2>2. r = request[t] /\ worker[t] = "search"
    BY <1>1, <2>1 DEF ReportDuringSearch, MayReport, IInv, TypeOK, Types
  <2> QED
    BY <1>1, <2>2 DEF IInv, FinalInv, Claimed
<1>2. IInv /\ [Next]_vars =>
        \A r \in Requests : partials'[r] # partials[r] => finals[r] = 0
  BY <1>1
<1> QED
  BY <1>2, Inductive, PTL DEF Spec, FinalIsLast

\* Whatever the reading thread does meanwhile, an analysis thread asks of its
\* bot only what SearchService allows.
THEOREM BotsAsService == Spec => BotsServe
<1>1. Init => \A t \in Threads : BotOf(t)!Init
  BY DEF Init, BotOf!Init
<1>2. ASSUME IInv, [Next]_vars, NEW t \in Threads
      PROVE  BotOf(t)!Next \/ UNCHANGED BotOf(t)!serviceVars
  <2>. DEFINE Active(w, r) == IF w \in {"begin", "search"} THEN r ELSE NoRequest
              Same == /\ worker'[t] = worker[t] /\ request'[t] = request[t]
                      /\ stop'[t] = stop[t] /\ killed'[t] = killed[t]
  <2>0. Types /\ RequestHeld
    BY <1>2 DEF IInv, TypeOK
  <2>1. ASSUME Active(worker'[t], request'[t]) = Active(worker[t], request[t]),
               killed'[t] = killed[t], stop'[t] \in {stop[t], TRUE}
        PROVE  BotOf(t)!Next \/ UNCHANGED BotOf(t)!serviceVars
    BY <2>1 DEF BotOf!Next, BotOf!RequestStop, BotOf!serviceVars
  <2>2. ASSUME Same PROVE BotOf(t)!Next \/ UNCHANGED BotOf(t)!serviceVars
    BY <2>1, <2>2
  <2>3. CASE ApiReads \/ Exited \/ UNCHANGED vars
    <3>1. Same
      BY <2>3 DEF ApiReads, ReadQuery, RejectQuery, BeginTerminate, EndOfInput, Exited,
                  vars, workerVars, botVars
    <3>. QED
      BY <2>2, <3>1
  <2>4. ASSUME NEW r, PushRequest(r) \/ FlagTerminated(r) \/ CloseAnalyze \/ JoinThreads
        PROVE  Same
    BY <2>4 DEF PushRequest, FlagTerminated, CloseAnalyze, JoinThreads, workerVars, botVars
  <2>5. CASE ActOnTerminated
    <3>1. stop'[t] \in {stop[t], TRUE}
      BY <2>0, <2>5 DEF ActOnTerminated, Types
    <3>. QED
      BY <2>1, <2>5, <3>1 DEF ActOnTerminated, workerVars
  <2>6. ASSUME NEW u \in Threads, StopBot(u)
        PROVE  BotOf(t)!Next \/ UNCHANGED BotOf(t)!serviceVars
    <3>1. stop'[t] \in {stop[t], TRUE}
      BY <2>0, <2>6 DEF StopBot, Types
    <3>. QED
      BY <2>1, <2>6, <3>1 DEF StopBot, workerVars
  <2>7. ASSUME NEW u \in Threads, KillBot(u)
        PROVE  BotOf(t)!Next \/ UNCHANGED BotOf(t)!serviceVars
    <3>1. CASE u = t
      <4>1. stop'[t] = TRUE /\ killed'[t] = TRUE
        BY <2>0, <2>7, <3>1 DEF KillBot, StopKilled, Types
      <4>. QED
        BY <2>7, <4>1 DEF KillBot, workerVars, BotOf!Next, BotOf!Kill
    <3>2. CASE u # t
      <4>1. Same
        BY <2>0, <2>7, <3>2 DEF KillBot, StopKilled, workerVars, Types
      <4>. QED
        BY <2>2, <4>1
    <3>. QED
      BY <3>1, <3>2
  <2>8. ASSUME NEW u \in Threads, u # t \/ BotPlayout(u) \/ ReportDuringSearch(u),
               WorkerStep(u) \/ BotPlayout(u) \/ ReportDuringSearch(u)
        PROVE  Same
    <3>1. CASE BotPlayout(u) \/ ReportDuringSearch(u)
      BY <3>1 DEF BotPlayout, ReportDuringSearch, workerVars, botVars
    <3>2. CASE u # t /\ WorkerStep(u)
      BY <2>0, <3>2
      DEF WorkerStep, PopRequest, QueueClosed, ClaimRequest, SkipTerminated, PrepareBot,
          LaunchSearch, RefuseLaunch, SearchBegun, SearchEnds, ReportFinal, ClearSearch,
          CloseRequest, Go, botVars, Types
    <3>. QED
      BY <2>8, <3>1, <3>2
  <2>9. CASE WorkerStep(t)
    <3>1. CASE \/ \E r \in queue : PopRequest(t, r)
               \/ QueueClosed(t) \/ ClaimRequest(t) \/ SkipTerminated(t) \/ PrepareBot(t)
               \/ ReportFinal(t) \/ ClearSearch(t) \/ CloseRequest(t)
      <4>0. worker \in [Threads -> {worker[u] : u \in Threads}] /\ stop \in [Threads -> BOOLEAN]
        BY <2>0 DEF Types
      <4>1. worker[t] \notin {"begin", "search"} /\ worker'[t] \notin {"begin", "search"}
        BY <4>0, <3>1
        DEF PopRequest, QueueClosed, ClaimRequest, SkipTerminated, PrepareBot,
            ReportFinal, ClearSearch, CloseRequest, Go
      <4>2. killed' = killed /\ (stop' = stop \/ stop' = [stop EXCEPT ![t] = TRUE])
        BY <3>1
        DEF PopRequest, QueueClosed, ClaimRequest, SkipTerminated, PrepareBot,
            ReportFinal, ClearSearch, CloseRequest, botVars
      <4>3. killed'[t] = killed[t] /\ stop'[t] \in {stop[t], TRUE}
        BY <4>0, <4>2
      <4>. QED
        BY <2>1, <4>1, <4>3
    <3>2. CASE LaunchSearch(t)
      <4>1. request[t] \in Requests
        BY <2>0, <3>2 DEF LaunchSearch, Go, Types, RequestHeld
      <4>2. BotOf(t)!Launch(request[t])
        BY <2>0, <3>2 DEF LaunchSearch, Go, Types, BotOf!Launch
      <4>. QED
        BY <4>1, <4>2 DEF BotOf!Next
    <3>3. CASE RefuseLaunch(t)
      <4>1. request[t] # NoRequest /\ killed[t] /\ request'[t] = request[t]
            /\ stop'[t] = stop[t] /\ killed'[t] = killed[t] /\ worker'[t] = "report"
            /\ worker[t] \in {"launch", "begin"}
        BY <2>0, <3>3 DEF RefuseLaunch, Go, Types, RequestHeld, botVars
      <4>2. CASE worker[t] = "begin"
        BY <4>1, <4>2 DEF BotOf!Next, BotOf!Abandon
      <4>3. CASE worker[t] = "launch"
        BY <2>1, <4>1, <4>3
      <4>. QED
        BY <4>1, <4>2, <4>3
    <3>4. CASE SearchBegun(t)
      <4>1. /\ worker[t] = "begin" /\ worker'[t] = "search" /\ request'[t] = request[t]
            /\ killed'[t] = killed[t] /\ stop'[t] \in {stop[t], TRUE}
        BY <2>0, <3>4 DEF SearchBegun, Go, Types
      <4>. QED
        BY <2>1, <4>1
    <3>5. CASE SearchEnds(t)
      <4>1. /\ request[t] # NoRequest /\ worker[t] = "search" /\ worker'[t] = "report"
            /\ stop[t] \/ request[t] \in LimitedRequests
            /\ stop'[t] = stop[t] /\ killed'[t] = killed[t]
        BY <2>0, <3>5 DEF SearchEnds, Go, Types, RequestHeld, botVars
      <4>. QED
        BY <4>1 DEF BotOf!Next, BotOf!Finish
    <3>. QED
      BY <2>9, <3>1, <3>2, <3>3, <3>4, <3>5 DEF WorkerStep
  <2>. QED
    BY <1>2, <2>2, <2>3, <2>4, <2>5, <2>6, <2>7, <2>8, <2>9 DEF Next, ApiStep
<1>3. IInv /\ [Next]_vars =>
        \A t \in Threads : BotOf(t)!Next \/ UNCHANGED BotOf(t)!serviceVars
  BY <1>2
<1> QED
  BY <1>1, <1>3, Inductive, PTL DEF Spec, BotsServe

HIDE AnalysisConstants

(***************************************************************************)
(* The bots.  From here on the theorems are about BotSpec.                 *)
(***************************************************************************)
\* What the user thread's position says about the request.
UserInv ==
  /\ userOp = "launch" => asked \in Searches /\ asked \in launched
  /\ userPc \in {"check", "asleep"} /\ userOp = "launch" =>
       asked \notin delivered /\ (isRunning => queued # asked)
  /\ userPc = "idle" => userOp = "none"
  /\ userPc = "mutate" => userOp = "set"
  /\ userPc \in {"kill", "join", "gone"} => userOp = "destroy"
  /\ userPc = "notify" => userOp \in {"launch", "destroy"}
  /\ userPc \in {"mutate", "kill", "join", "gone"} => ~isRunning
  /\ userPc = "notify" /\ userOp = "destroy" => ~isRunning
  /\ delivered \subseteq launched
  /\ isRunning => queued \in launched

\* A request is in progress exactly while the search thread has to act on it.
ThreadInv ==
  /\ InSearch \/ thread = "dead" => isRunning
  /\ thread = "exited" => isKilled /\ ~isRunning
  /\ thread \in {"stopLoop", "join", "deliver"} =>
       shouldStopNow \/ queued \in Limited

\* The callback thread lives inside one search and knows how far it is.
CallbackInv ==
  callback # "none" =>
    /\ thread \in {"begin", "search", "stopLoop", "join"}
    /\ queued \in Reporting
    /\ isSearchBegun <=> thread # "begin"
    /\ callbackLoopShouldStop <=> thread = "join"
    /\ callback \in {"timed", "calling"} => isSearchBegun
    /\ callback = "calling" => gotReportYet
    /\ gotReportYet => isSearchBegun /\ rootReady

\* A request whose onMove has still to be called is the one in progress.
MoveInv ==
  asked \in Moving /\ (userOp = "wait" \/ (userOp = "launch" /\ userPc = "notify")) =>
    \/ isRunning /\ queued = asked
    \/ asked \in delivered
    \/ isKilled

BotInv ==
  /\ BotTypeOK /\ UserInv /\ ThreadInv /\ CallbackInv /\ MoveInv /\ NoLostWakeup

\* BotTypeOK in two parts: the flags, and where everybody is.
FlagsOK ==
  /\ isRunning \in BOOLEAN /\ isKilled \in BOOLEAN /\ shouldStopNow \in BOOLEAN
  /\ rootReady \in BOOLEAN /\ gotReportYet \in BOOLEAN
  /\ isSearchBegun \in BOOLEAN /\ callbackLoopShouldStop \in BOOLEAN
PlacesOK ==
  /\ queued \in Searches \cup {None} /\ (isRunning => queued \in Searches)
  /\ userPc \in {"idle", "check", "asleep", "notify", "mutate", "kill", "join", "gone"}
  /\ userOp \in {"none", "launch", "stop", "set", "wait", "destroy"}
  /\ asked \in Searches \cup {None}
  /\ launched \subseteq Searches /\ delivered \subseteq Searches
  /\ thread \in {"top", "asleep", "begin", "search", "stopLoop", "join",
                 "deliver", "exited", "dead"}
  /\ callback \in {"none", "start", "asleep", "woken", "timed", "calling", "exited"}

USE AsyncBotConstants

(***************************************************************************)
(* The inductive invariant of the bots.                                    *)
(***************************************************************************)
\* A new bot has no request, a search thread and no callback thread.
LEMMA BotInitInv == BotInit => BotInv
BY DEF BotInit, BotInv, BotTypeOK, UserInv, ThreadInv, CallbackInv, MoveInv,
       NoLostWakeup, InSearch

\* The searchBegun lambda leaves a Boolean in isSearchBegun.
LEMMA BeginSetsFlag == BeginSearch => isSearchBegun' \in BOOLEAN
<1>1. ASSUME NEW b, b = (queued \in Reporting) PROVE b \in BOOLEAN
  BY <1>1
<1> QED
  BY <1>1 DEF BeginSearch

\* Every step of the user thread, the search thread, the callback thread and
\* of another thread that stops or kills the bot keeps the invariant.
LEMMA BotStepInv == BotInv /\ [BotNext]_asyncVars => BotInv'
<1> SUFFICES ASSUME BotInv, [BotNext]_asyncVars PROVE BotInv'
  OBVIOUS
<1> USE DEF BotInv, BotTypeOK, UserInv, ThreadInv, CallbackInv, MoveInv,
            NoLostWakeup, InSearch,
            asyncVars, flagVars, userVars, loopVars
<1>1. ASSUME NEW s \in Searches, AskSearch(s) PROVE BotInv'
  BY <1>1 DEF AskSearch
<1>2. ASSUME NEW op \in {"stop", "set", "destroy"}, AskStop(op) PROVE BotInv'
  BY <1>2 DEF AskStop
<1>3. CASE WaitForSearchToEnd
  BY <1>3 DEF WaitForSearchToEnd, Pondering
<1>4. CASE RefuseSearch
  BY <1>4 DEF RefuseSearch, AfterLaunch, Pondering
<1>5. CASE QueueSearch
  BY <1>5 DEF QueueSearch, MayQueue, FillRequest
<1>6. CASE NotifyThread
  BY <1>6 DEF NotifyThread, AfterLaunch, WakeThread
<1>7. CASE SearchHasEnded
  BY <1>7 DEF SearchHasEnded, WaitIsOver
<1>8. CASE MutateSearch
  <2>1. BotTypeOK'
    <3>1. FlagsOK /\ PlacesOK
      BY Zenon DEF FlagsOK, PlacesOK
    <3>2. FlagsOK'
      BY <1>8, <3>1, Zenon DEF FlagsOK, MutateSearch
    <3>3. PlacesOK'
      BY <1>8, <3>1 DEF PlacesOK, MutateSearch
    <3> QED
      BY <3>2, <3>3, Zenon DEF FlagsOK, PlacesOK
  <2>2. UserInv'
    BY <1>8 DEF MutateSearch
  <2>3. ThreadInv'
    BY <1>8 DEF MutateSearch
  <2>4. CallbackInv'
    BY <1>8 DEF MutateSearch
  <2>5. MoveInv'
    BY <1>8 DEF MutateSearch
  <2>6. NoLostWakeup'
    BY <1>8 DEF MutateSearch
  <2> QED
    BY <2>1, <2>2, <2>3, <2>4, <2>5, <2>6
<1>9. CASE DestructorKills
  BY <1>9 DEF DestructorKills
<1>10. CASE DestructorJoins
  BY <1>10 DEF DestructorJoins
<1>11. CASE ThreadSleeps
  BY <1>11 DEF ThreadSleeps
<1>12. CASE ThreadExits
  <2>1. BotTypeOK'
    <3>1. FlagsOK /\ PlacesOK
      BY Zenon DEF FlagsOK, PlacesOK
    <3>2. FlagsOK'
      BY <1>12, <3>1, Zenon DEF FlagsOK, ThreadExits, WakeUser
    <3>3. PlacesOK'
      BY <1>12, <3>1 DEF PlacesOK, ThreadExits, WakeUser
    <3> QED
      BY <3>2, <3>3, Zenon DEF FlagsOK, PlacesOK
  <2>2. UserInv'
    BY <1>12 DEF ThreadExits, WakeUser
  <2>3. ThreadInv'
    BY <1>12 DEF ThreadExits, WakeUser
  <2>4. CallbackInv'
    BY <1>12 DEF ThreadExits, WakeUser
  <2>5. MoveInv'
    BY <1>12 DEF ThreadExits, WakeUser
  <2>6. NoLostWakeup'
    BY <1>12 DEF ThreadExits, WakeUser
  <2> QED
    BY <2>1, <2>2, <2>3, <2>4, <2>5, <2>6
<1>13. CASE TakeSearch
  <2>1. BotTypeOK'
    <3>1. FlagsOK /\ PlacesOK
      BY Zenon DEF FlagsOK, PlacesOK
    <3>2. FlagsOK'
      BY <1>13, <3>1, Zenon DEF FlagsOK, TakeSearch
    <3>3. PlacesOK'
      BY <1>13, <3>1 DEF PlacesOK, TakeSearch
    <3> QED
      BY <3>2, <3>3, Zenon DEF FlagsOK, PlacesOK
  <2>2. UserInv'
    BY <1>13 DEF TakeSearch
  <2>3. ThreadInv'
    BY <1>13 DEF TakeSearch
  <2>4. CallbackInv'
    BY <1>13 DEF TakeSearch
  <2>5. MoveInv'
    BY <1>13 DEF TakeSearch
  <2>6. NoLostWakeup'
    BY <1>13 DEF TakeSearch
  <2> QED
    BY <2>1, <2>2, <2>3, <2>4, <2>5, <2>6
<1>14. CASE BeginSearch
  <2>1. BotTypeOK'
    <3>1. FlagsOK /\ PlacesOK
      BY Zenon DEF FlagsOK, PlacesOK
    <3>2. FlagsOK'
      BY <1>14, BeginSetsFlag, <3>1, Zenon DEF FlagsOK, BeginSearch
    <3>3. PlacesOK'
      BY <1>14, <3>1 DEF PlacesOK, BeginSearch
    <3> QED
      BY <3>2, <3>3, Zenon DEF FlagsOK, PlacesOK
  <2>2. UserInv'
    BY <1>14 DEF BeginSearch
  <2>3. ThreadInv'
    BY <1>14 DEF BeginSearch
  <2>4. CallbackInv'
    BY <1>14 DEF BeginSearch
  <2>5. MoveInv'
    BY <1>14 DEF BeginSearch
  <2>6. NoLostWakeup'
    BY <1>14 DEF BeginSearch
  <2> QED
    BY <2>1, <2>2, <2>3, <2>4, <2>5, <2>6
<1>15. CASE SearchThrows
  BY <1>15 DEF SearchThrows
<1>16. CASE StopCallbackLoop
  BY <1>16 DEF StopCallbackLoop
<1>17. CASE JoinCallbackThread
  BY <1>17 DEF JoinCallbackThread
<1>18. CASE Deliver
  <2>1. BotTypeOK'
    <3>1. FlagsOK /\ PlacesOK
      BY Zenon DEF FlagsOK, PlacesOK
    <3>2. FlagsOK'
      BY <1>18, <3>1, Zenon DEF FlagsOK, Deliver, WakeUser, CallOnMove
    <3>3. PlacesOK'
      BY <1>18, <3>1 DEF PlacesOK, Deliver, WakeUser, CallOnMove
    <3> QED
      BY <3>2, <3>3, Zenon DEF FlagsOK, PlacesOK
  <2>2. UserInv'
    BY <1>18 DEF Deliver, WakeUser, CallOnMove
  <2>3. ThreadInv'
    BY <1>18 DEF Deliver, WakeUser, CallOnMove
  <2>4. CallbackInv'
    BY <1>18 DEF Deliver, WakeUser, CallOnMove
  <2>5. MoveInv'
    BY <1>18 DEF Deliver, WakeUser, CallOnMove
  <2>6. NoLostWakeup'
    BY <1>18 DEF Deliver, WakeUser, CallOnMove
  <2> QED
    BY <2>1, <2>2, <2>3, <2>4, <2>5, <2>6
<1>19. CASE Playout
  BY <1>19 DEF Playout
<1>20. CASE EndSearch
  BY <1>20 DEF EndSearch, ShouldStop
<1>21. CASE CallbackStarts
  BY <1>21 DEF CallbackStarts, NextWait
<1>22. CASE CallbackWoken
  BY <1>22 DEF CallbackWoken, NextWait
<1>23. CASE CallbackTimeout
  <2>1. BotTypeOK'
    <3>1. FlagsOK /\ PlacesOK
      BY Zenon DEF FlagsOK, PlacesOK
    <3>2. FlagsOK'
      BY <1>23, <3>1, Zenon DEF FlagsOK, CallbackTimeout
    <3>3. PlacesOK'
      BY <1>23, <3>1 DEF PlacesOK, CallbackTimeout
    <3> QED
      BY <3>2, <3>3, Zenon DEF FlagsOK, PlacesOK
  <2>2. UserInv'
    BY <1>23 DEF CallbackTimeout
  <2>3. ThreadInv'
    BY <1>23 DEF CallbackTimeout
  <2>4. CallbackInv'
    BY <1>23 DEF CallbackTimeout
  <2>5. MoveInv'
    BY <1>23 DEF CallbackTimeout
  <2>6. NoLostWakeup'
    BY <1>23 DEF CallbackTimeout
  <2> QED
    BY <2>1, <2>2, <2>3, <2>4, <2>5, <2>6
<1>24. CASE CallbackReturns
  BY <1>24 DEF CallbackReturns, NextWait
<1>25. CASE StopWithoutWait
  BY <1>25 DEF StopWithoutWait
<1>26. CASE SetKilled
  BY <1>26 DEF SetKilled, WakeThread
<1>27. CASE SpuriousWakeup
  BY <1>27 DEF SpuriousWakeup
<1>28. CASE AskWait
  BY <1>28 DEF AskWait
<1>29. CASE UNCHANGED asyncVars
  BY <1>29
<1> QED
  BY <1>1, <1>2, <1>3, <1>4, <1>5, <1>6, <1>7, <1>8, <1>9, <1>10, <1>11, <1>12, <1>13, <1>14, <1>15, <1>16, <1>17, <1>18, <1>19, <1>20, <1>21, <1>22, <1>23, <1>24, <1>25, <1>26, <1>27, <1>28, <1>29
  DEF BotNext, UserAsks, UserStep, ThreadStep, CallbackStep, Destroyed

\* The invariant the results below are read off holds in every behaviour.
THEOREM BotInductive == BotSpec => []BotInv
BY BotInitInv, BotStepInv, PTL DEF BotSpec

\* AsyncBot's variables keep their types, and there is a request whenever one
\* is in progress.
THEOREM BotTypeCorrect == BotSpec => []BotTypeOK
BY BotInductive, PTL DEF BotInv

\* No setter of the bot touches the Search while a search or a report runs.
THEOREM SearchExclusive == BotSpec => []SearchNotMutatedWhileRunning
<1>1. BotInv => SearchNotMutatedWhileRunning
  BY DEF BotInv, UserInv, ThreadInv, CallbackInv, InSearch, BotTypeOK,
         SearchNotMutatedWhileRunning
<1> QED
  BY <1>1, BotInductive, PTL

\* Every analysis callback falls inside the search it was requested with.
THEOREM ReportsInside == BotSpec => []ReportsOnlyDuringSearch
<1>1. BotInv => ReportsOnlyDuringSearch
  BY DEF BotInv, ThreadInv, CallbackInv, InSearch, BotTypeOK, ReportsOnlyDuringSearch
<1> QED
  BY <1>1, BotInductive, PTL

\* No thread sleeps through the event it waits for.
THEOREM WakeupsKept == BotSpec => []NoLostWakeup
BY BotInductive, PTL DEF BotInv

\* A request in progress is never replaced.
THEOREM RequestKept == BotSpec => RequestKeptWhileRunning
<1>1. BotInv /\ [BotNext]_asyncVars => (isRunning => queued' = queued)
  BY DEF BotNext, UserAsks, UserStep, ThreadStep, CallbackStep, Destroyed,
         asyncVars, flagVars, userVars, loopVars,
         AskSearch, AskStop, AskWait, WaitForSearchToEnd, RefuseSearch,
         QueueSearch, MayQueue, NotifyThread, SearchHasEnded, MutateSearch,
         DestructorKills, DestructorJoins, StopWithoutWait, SetKilled,
         ThreadSleeps, ThreadExits, TakeSearch, BeginSearch, SearchThrows,
         Playout, EndSearch, StopCallbackLoop, JoinCallbackThread, Deliver,
         CallbackStarts, CallbackWoken, CallbackTimeout, CallbackReturns,
         SpuriousWakeup
<1> QED
  BY <1>1, BotInductive, PTL DEF BotSpec, RequestKeptWhileRunning

\* genMoveSynchronous returns a move unless the bot was killed: only
\* SearchHasEnded ends a wait, and MoveInv says what is then the case.
THEOREM SyncMoves == BotSpec => SyncReturnsMove
<1> DEFINE Returns == userOp = "wait" /\ userOp' = "none" /\ asked \in Sync
<1>1. BotInv /\ [BotNext]_asyncVars /\ Returns => SearchHasEnded
  BY DEF BotInv, UserInv,
         BotNext, UserAsks, UserStep, ThreadStep, CallbackStep, Destroyed,
         asyncVars, flagVars, userVars, loopVars,
         AskSearch, AskStop, AskWait, WaitForSearchToEnd, RefuseSearch,
         QueueSearch, NotifyThread, AfterLaunch, MutateSearch,
         DestructorKills, DestructorJoins, StopWithoutWait, SetKilled,
         ThreadSleeps, ThreadExits, TakeSearch, BeginSearch, SearchThrows,
         Playout, EndSearch, StopCallbackLoop, JoinCallbackThread, Deliver,
         CallbackStarts, CallbackWoken, CallbackTimeout, CallbackReturns,
         SpuriousWakeup
<1>2. BotInv /\ SearchHasEnded /\ Returns => asked \in delivered \/ isKilled
  BY DEF BotInv, MoveInv, SearchHasEnded, WaitIsOver
<1>3. BotInv /\ [BotNext]_asyncVars =>
        (userOp = "wait" /\ userOp' = "none" /\ asked \in Sync
           => asked \in delivered \/ isKilled)
  BY <1>1, <1>2
<1> QED
  BY <1>3, BotInductive, PTL DEF BotSpec, SyncReturnsMove

(***************************************************************************)
(* Refinement.  QueueSearch launches, Deliver finishes, ThreadExits        *)
(* abandons a search that was not taken up; all else asks to stop, kills,  *)
(* or is not seen by the service.                                          *)
(***************************************************************************)
ServiceState == <<isRunning, queued, shouldStopNow, isKilled, delivered>>

\* A step that keeps the flags, the request and the moves is a stutter of the
\* service.
LEMMA Unseen == UNCHANGED ServiceState => UNCHANGED Service!serviceVars
BY DEF ServiceState, Service!serviceVars

\* Each step of the threads is one of SearchService or a stutter of it.
LEMMA StepRefines == BotInv /\ [BotNext]_asyncVars => [Service!Next]_Service!serviceVars
<1> SUFFICES ASSUME BotInv, [BotNext]_asyncVars
             PROVE [Service!Next]_Service!serviceVars
  OBVIOUS
<1>1. ASSUME NEW op \in {"stop", "set", "destroy"}, AskStop(op)
      PROVE Service!RequestStop
  BY <1>1 DEF AskStop, Service!RequestStop
<1>2. CASE StopWithoutWait
  <2>1. Service!RequestStop
    BY <1>2 DEF StopWithoutWait, Service!RequestStop
  <2> QED
    BY <2>1 DEF Service!Next
<1>3. CASE WaitForSearchToEnd
  <2>1. Service!RequestStop \/ UNCHANGED ServiceState
    BY <1>3 DEF WaitForSearchToEnd, Service!RequestStop, ServiceState, BotInv, BotTypeOK
  <2> QED
    BY <2>1, Unseen DEF Service!Next
<1>4. CASE SetKilled \/ DestructorKills
  <2>1. Service!Kill
    BY <1>4 DEF SetKilled, DestructorKills, Service!Kill
  <2> QED
    BY <2>1 DEF Service!Next
<1>5. CASE QueueSearch
  <2>1. asked \in Searches /\ asked \notin delivered
    BY <1>5 DEF QueueSearch, BotInv, UserInv
  <2>2. Service!Launch(asked)
    BY <1>5, <2>1 DEF QueueSearch, MayQueue, FillRequest, Service!Launch
  <2> QED
    BY <2>1, <2>2 DEF Service!Next
<1>6. CASE Deliver
  <2>1. isRunning /\ queued \in Searches /\ queued # None
    BY <1>6 DEF Deliver, BotInv, BotTypeOK, ThreadInv, InSearch
  <2>2. shouldStopNow \/ queued \in Limited
    BY <1>6 DEF Deliver, BotInv, ThreadInv
  <2>3. delivered' = IF queued \in Moving THEN delivered \cup {queued} ELSE delivered
    BY <1>6 DEF Deliver, CallOnMove
  <2>4. Service!Finish
    BY <1>6, <2>1, <2>2, <2>3 DEF Deliver, Service!Finish
  <2> QED
    BY <2>4 DEF Service!Next
<1>7. CASE ThreadExits
  <2>1. isRunning => queued # None
    BY DEF BotInv, BotTypeOK
  <2>2. Service!Abandon \/ UNCHANGED Service!serviceVars
    BY <1>7, <2>1 DEF ThreadExits, Service!Abandon, Service!serviceVars, BotInv, BotTypeOK
  <2> QED
    BY <2>2 DEF Service!Next
<1>8. ASSUME NEW s \in Searches, AskSearch(s) PROVE UNCHANGED ServiceState
  BY <1>8 DEF AskSearch, ServiceState, flagVars
<1>9. CASE AskWait \/ RefuseSearch \/ NotifyThread \/ SearchHasEnded \/ MutateSearch
           \/ DestructorJoins \/ UNCHANGED asyncVars
  <2>1. UNCHANGED ServiceState
    BY <1>9 DEF AskWait, RefuseSearch, NotifyThread, SearchHasEnded,
                MutateSearch, DestructorJoins, ServiceState, flagVars, asyncVars
  <2> QED
    BY <2>1, Unseen
<1>10. CASE \/ ThreadSleeps \/ TakeSearch \/ BeginSearch \/ SearchThrows \/ Playout
            \/ EndSearch \/ StopCallbackLoop \/ JoinCallbackThread
            \/ CallbackStep \/ SpuriousWakeup
  <2>1. UNCHANGED ServiceState
    BY <1>10 DEF ThreadSleeps, TakeSearch, BeginSearch, SearchThrows, Playout,
                 EndSearch, StopCallbackLoop, JoinCallbackThread, CallbackStep,
                 CallbackStarts, CallbackWoken, CallbackTimeout, CallbackReturns,
                 SpuriousWakeup, ServiceState, flagVars
  <2> QED
    BY <2>1, Unseen
<1> QED
  BY <1>1, <1>2, <1>3, <1>4, <1>5, <1>6, <1>7, <1>8, <1>9, <1>10, Unseen
  DEF BotNext, UserAsks, UserStep, ThreadStep, Destroyed, Service!Next

\* Every behaviour of the threads is one of SearchService, its fairness aside.
THEOREM Refinement == BotSpec => ServiceSteps
<1>1. BotInit => Service!Init
  BY DEF BotInit, Service!Init
<1> QED
  BY <1>1, BotInductive, StepRefines, PTL DEF BotSpec, ServiceSteps
=============================================================================
