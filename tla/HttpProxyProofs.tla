--------------------------- MODULE HttpProxyProofs ---------------------------
(***************************************************************************)
(* What a connection of the proxy reaches, delivers and answers, for every *)
(* whitelist, set of hosts and requests, and every bound.                  *)
(***************************************************************************)
EXTENDS HttpProxy, SequenceTheorems, TLAPS

\* What is true before which point of the task.
Unread     == {"headers", "parse"}
Unanswered == Unread \cup {"connect", "establish", "forward", "response"}
Unlinked   == Unread \cup {"refuse", "connect"}
Uncopied   == Unlinked \cup {"establish", "forward"}

\* The task's progress, its request and what it has done so far.
Stages ==
  /\ task \in Unread => dropped = 0
  /\ task = "headers" => lines < HeaderLines
  /\ task \in Unread /\ request.kind = "garbage" => lines = 0
  /\ task = "connect" => request.kind \in {"connect", "http"}
  /\ task \in Unanswered => answer = 0
  /\ task \in Unlinked => peer = NoHost
  /\ task \in Uncopied => up = 0 /\ fetched = 0 /\ down = 0
  /\ task = "tunnel" => answer = 200
  /\ task \in {"establish", "tunnel"} => request.kind = "connect"
  /\ task \in {"forward", "response"} => request.kind = "http" /\ remote # "none"
  /\ task = "refuse" => answer # 0
  /\ task # "closed" => ending = "none"

\* Only an allowed host gets as far as a connection.
Admitted ==
  /\ task \in {"connect", "establish", "forward", "tunnel", "response"} =>
       IsAllowed(request.host)
  /\ peer # NoHost => peer = request.host /\ IsAllowed(peer)

\* 403 is only given to hosts that the list refuses.
Refused == answer = 403 => ~IsAllowed(request.host)

Inv == TypeOK /\ Stages /\ Admitted /\ Refused /\ OneAnswer /\ ToldUnlessGone

Kinds == {"connect", "http", "relative", "short", "garbage"}

\* What a request is.
LEMMA Asked == request \in Requests => request.kind \in Kinds /\ request.host \in Hosts
  BY RequestsAssumption DEF RequestType, Kinds

\* Types are preserved by every step.
LEMMA TypeStep == Inv /\ [Next]_vars => TypeOK'
<1> SUFFICES ASSUME Inv, [Next]_vars
             PROVE  TypeOK'
  OBVIOUS
<1>0. request.kind \in Kinds /\ request.host \in Hosts
  BY Asked DEF Inv, TypeOK
<1> USE BoundsAssumption, <1>0
    DEF Inv, TypeOK, clientVars, headVars, copyVars, remoteVars,
        Kinds, TaskStates, Stages, Unread, Unlinked, Uncopied
<1>1. CASE FillBuffer
  BY <1>1 DEF FillBuffer
<1>2. CASE ReadLine
  BY <1>2 DEF ReadLine, End
<1>3. CASE HeadersEnd
  BY <1>3 DEF HeadersEnd, End
<1>4. CASE Decide
  BY <1>4 DEF Decide, Refuse, Blocked
<1>5. CASE EndRefusal
  BY <1>5 DEF EndRefusal, End
<1>6. CASE Connect
  BY <1>6 DEF Connect, AfterConnect
<1>7. CASE ConnectFails
  BY <1>7 DEF ConnectFails, Refuse, TimedOut
<1>8. CASE Establish
  BY <1>8 DEF Establish, End, TransferTimer
<1>9. CASE ForwardHeaders
  BY <1>9 DEF ForwardHeaders, End, TransferTimer
<1>10. CASE ReadClient
  BY <1>10 DEF ReadClient, InFlight
<1>11. CASE WriteRemote
  BY <1>11 DEF WriteRemote, InFlight
<1>12. CASE ReadRemote
  BY <1>12 DEF ReadRemote, CopyStates
<1>13. CASE WriteClient
  BY <1>13 DEF WriteClient, CopyStates
<1>14. CASE EndTransfer
  BY <1>14 DEF EndTransfer, End, CopyStates, UpDone, DownDone, UpFails, DownFails, InFlight
<1>15. CASE Shutdown
  BY <1>15 DEF Shutdown, End
<1>16. CASE ClientSends
  BY <1>16 DEF ClientSends
<1>17. CASE ClientStops
  BY <1>17 DEF ClientStops
<1>18. CASE RemoteSends
  BY <1>18 DEF RemoteSends
<1>19. CASE RemoteStops
  BY <1>19 DEF RemoteStops
<1>20. CASE Expire
  BY <1>20 DEF Expire
<1>21. CASE UNCHANGED vars
  BY <1>21 DEF vars
<1> QED
  BY <1>1, <1>2, <1>3, <1>4, <1>5, <1>6, <1>7, <1>8, <1>9, <1>10, <1>11,
     <1>12, <1>13, <1>14, <1>15, <1>16, <1>17, <1>18, <1>19, <1>20, <1>21
  DEF Next, Progress, Over

\* The task goes through its states in order.
LEMMA StagesStep == Inv /\ [Next]_vars => Stages'
<1> SUFFICES ASSUME Inv, [Next]_vars
             PROVE  Stages'
  OBVIOUS
<1>0. request.kind \in Kinds /\ request.host \in Hosts
  BY Asked DEF Inv, TypeOK
<1> USE BoundsAssumption, <1>0
    DEF Inv, TypeOK, clientVars, headVars, copyVars, remoteVars,
        Kinds, TaskStates, Stages, Unread, Unanswered, Unlinked, Uncopied
<1>1. CASE FillBuffer
  BY <1>1 DEF FillBuffer
<1>2. CASE ReadLine
  BY <1>2 DEF ReadLine, End
<1>3. CASE HeadersEnd
  BY <1>3 DEF HeadersEnd, End
<1>4. CASE Decide
  BY <1>4 DEF Decide, Refuse, Blocked
<1>5. CASE EndRefusal
  BY <1>5 DEF EndRefusal, End
<1>6. CASE Connect
  BY <1>6 DEF Connect, AfterConnect
<1>7. CASE ConnectFails
  BY <1>7 DEF ConnectFails, Refuse, TimedOut
<1>8. CASE Establish
  BY <1>8 DEF Establish, End, TransferTimer
<1>9. CASE ForwardHeaders
  BY <1>9 DEF ForwardHeaders, End, TransferTimer
<1>10. CASE ReadClient
  BY <1>10 DEF ReadClient, InFlight
<1>11. CASE WriteRemote
  BY <1>11 DEF WriteRemote, InFlight
<1>12. CASE ReadRemote
  BY <1>12 DEF ReadRemote, CopyStates
<1>13. CASE WriteClient
  BY <1>13 DEF WriteClient, CopyStates
<1>14. CASE EndTransfer
  BY <1>14 DEF EndTransfer, End, CopyStates, UpDone, DownDone, UpFails, DownFails, InFlight
<1>15. CASE Shutdown
  BY <1>15 DEF Shutdown, End
<1>16. CASE ClientSends
  BY <1>16 DEF ClientSends
<1>17. CASE ClientStops
  BY <1>17 DEF ClientStops
<1>18. CASE RemoteSends
  BY <1>18 DEF RemoteSends
<1>19. CASE RemoteStops
  BY <1>19 DEF RemoteStops
<1>20. CASE Expire
  BY <1>20 DEF Expire
<1>21. CASE UNCHANGED vars
  BY <1>21 DEF vars
<1> QED
  BY <1>1, <1>2, <1>3, <1>4, <1>5, <1>6, <1>7, <1>8, <1>9, <1>10, <1>11,
     <1>12, <1>13, <1>14, <1>15, <1>16, <1>17, <1>18, <1>19, <1>20, <1>21
  DEF Next, Progress, Over

\* The check comes before the connection, which goes to the checked host.
LEMMA AdmittedStep == Inv /\ [Next]_vars => Admitted'
<1> SUFFICES ASSUME Inv, [Next]_vars
             PROVE  Admitted'
  OBVIOUS
<1>0. request.kind \in Kinds /\ request.host \in Hosts
  BY Asked DEF Inv, TypeOK
<1> USE BoundsAssumption, <1>0
    DEF Inv, TypeOK, clientVars, headVars, copyVars, remoteVars,
        Kinds, Stages, Admitted, Unread, Unlinked
<1>1. CASE FillBuffer
  BY <1>1 DEF FillBuffer
<1>2. CASE ReadLine
  BY <1>2 DEF ReadLine, End
<1>3. CASE HeadersEnd
  BY <1>3 DEF HeadersEnd, End
<1>4. CASE Decide
  BY <1>4 DEF Decide, Refuse, Blocked
<1>5. CASE EndRefusal
  BY <1>5 DEF EndRefusal, End
<1>6. CASE Connect
  BY <1>6 DEF Connect, AfterConnect
<1>7. CASE ConnectFails
  BY <1>7 DEF ConnectFails, Refuse, TimedOut
<1>8. CASE Establish
  BY <1>8 DEF Establish, End, TransferTimer
<1>9. CASE ForwardHeaders
  BY <1>9 DEF ForwardHeaders, End, TransferTimer
<1>10. CASE ReadClient
  BY <1>10 DEF ReadClient, InFlight
<1>11. CASE WriteRemote
  BY <1>11 DEF WriteRemote, InFlight
<1>12. CASE ReadRemote
  BY <1>12 DEF ReadRemote, CopyStates
<1>13. CASE WriteClient
  BY <1>13 DEF WriteClient, CopyStates
<1>14. CASE EndTransfer
  BY <1>14 DEF EndTransfer, End, CopyStates, UpDone, DownDone, UpFails, DownFails, InFlight
<1>15. CASE Shutdown
  BY <1>15 DEF Shutdown, End
<1>16. CASE ClientSends
  BY <1>16 DEF ClientSends
<1>17. CASE ClientStops
  BY <1>17 DEF ClientStops
<1>18. CASE RemoteSends
  BY <1>18 DEF RemoteSends
<1>19. CASE RemoteStops
  BY <1>19 DEF RemoteStops
<1>20. CASE Expire
  BY <1>20 DEF Expire
<1>21. CASE UNCHANGED vars
  BY <1>21 DEF vars
<1> QED
  BY <1>1, <1>2, <1>3, <1>4, <1>5, <1>6, <1>7, <1>8, <1>9, <1>10, <1>11,
     <1>12, <1>13, <1>14, <1>15, <1>16, <1>17, <1>18, <1>19, <1>20, <1>21
  DEF Next, Progress, Over

\* An answer is given once.
LEMMA RefusedStep == Inv /\ [Next]_vars => Refused'
<1> SUFFICES ASSUME Inv, [Next]_vars
             PROVE  Refused'
  OBVIOUS
<1>0. request.kind \in Kinds /\ request.host \in Hosts
  BY Asked DEF Inv, TypeOK
<1> USE BoundsAssumption, <1>0
    DEF Inv, TypeOK, clientVars, headVars, copyVars, remoteVars,
        Kinds, Stages, Refused, Unanswered, Unread
<1>1. CASE FillBuffer
  BY <1>1 DEF FillBuffer
<1>2. CASE ReadLine
  BY <1>2 DEF ReadLine, End
<1>3. CASE HeadersEnd
  BY <1>3 DEF HeadersEnd, End
<1>4. CASE Decide
  BY <1>4 DEF Decide, Refuse, Blocked
<1>5. CASE EndRefusal
  BY <1>5 DEF EndRefusal, End
<1>6. CASE Connect
  BY <1>6 DEF Connect, AfterConnect
<1>7. CASE ConnectFails
  BY <1>7 DEF ConnectFails, Refuse, TimedOut
<1>8. CASE Establish
  BY <1>8 DEF Establish, End, TransferTimer
<1>9. CASE ForwardHeaders
  BY <1>9 DEF ForwardHeaders, End, TransferTimer
<1>10. CASE ReadClient
  BY <1>10 DEF ReadClient, InFlight
<1>11. CASE WriteRemote
  BY <1>11 DEF WriteRemote, InFlight
<1>12. CASE ReadRemote
  BY <1>12 DEF ReadRemote, CopyStates
<1>13. CASE WriteClient
  BY <1>13 DEF WriteClient, CopyStates
<1>14. CASE EndTransfer
  BY <1>14 DEF EndTransfer, End, CopyStates, UpDone, DownDone, UpFails, DownFails, InFlight
<1>15. CASE Shutdown
  BY <1>15 DEF Shutdown, End
<1>16. CASE ClientSends
  BY <1>16 DEF ClientSends
<1>17. CASE ClientStops
  BY <1>17 DEF ClientStops
<1>18. CASE RemoteSends
  BY <1>18 DEF RemoteSends
<1>19. CASE RemoteStops
  BY <1>19 DEF RemoteStops
<1>20. CASE Expire
  BY <1>20 DEF Expire
<1>21. CASE UNCHANGED vars
  BY <1>21 DEF vars
<1> QED
  BY <1>1, <1>2, <1>3, <1>4, <1>5, <1>6, <1>7, <1>8, <1>9, <1>10, <1>11,
     <1>12, <1>13, <1>14, <1>15, <1>16, <1>17, <1>18, <1>19, <1>20, <1>21
  DEF Next, Progress, Over

\* Refusals and data exclude each other.
LEMMA OneAnswerStep == Inv /\ [Next]_vars => OneAnswer'
<1> SUFFICES ASSUME Inv, [Next]_vars
             PROVE  OneAnswer'
  OBVIOUS
<1>0. request.kind \in Kinds /\ request.host \in Hosts
  BY Asked DEF Inv, TypeOK
<1> USE BoundsAssumption, <1>0
    DEF Inv, TypeOK, clientVars, headVars, copyVars, remoteVars,
        Kinds, Stages, OneAnswer, Unread, Unanswered, Unlinked, Uncopied
<1>1. CASE FillBuffer
  BY <1>1 DEF FillBuffer
<1>2. CASE ReadLine
  BY <1>2 DEF ReadLine, End
<1>3. CASE HeadersEnd
  BY <1>3 DEF HeadersEnd, End
<1>4. CASE Decide
  BY <1>4 DEF Decide, Refuse, Blocked
<1>5. CASE EndRefusal
  BY <1>5 DEF EndRefusal, End
<1>6. CASE Connect
  BY <1>6 DEF Connect, AfterConnect
<1>7. CASE ConnectFails
  BY <1>7 DEF ConnectFails, Refuse, TimedOut
<1>8. CASE Establish
  BY <1>8 DEF Establish, End, TransferTimer
<1>9. CASE ForwardHeaders
  BY <1>9 DEF ForwardHeaders, End, TransferTimer
<1>10. CASE ReadClient
  BY <1>10 DEF ReadClient, InFlight
<1>11. CASE WriteRemote
  BY <1>11 DEF WriteRemote, InFlight
<1>12. CASE ReadRemote
  BY <1>12 DEF ReadRemote, CopyStates
<1>13. CASE WriteClient
  BY <1>13 DEF WriteClient, CopyStates
<1>14. CASE EndTransfer
  BY <1>14 DEF EndTransfer, End, CopyStates, UpDone, DownDone, UpFails, DownFails, InFlight
<1>15. CASE Shutdown
  BY <1>15 DEF Shutdown, End
<1>16. CASE ClientSends
  BY <1>16 DEF ClientSends
<1>17. CASE ClientStops
  BY <1>17 DEF ClientStops
<1>18. CASE RemoteSends
  BY <1>18 DEF RemoteSends
<1>19. CASE RemoteStops
  BY <1>19 DEF RemoteStops
<1>20. CASE Expire
  BY <1>20 DEF Expire
<1>21. CASE UNCHANGED vars
  BY <1>21 DEF vars
<1> QED
  BY <1>1, <1>2, <1>3, <1>4, <1>5, <1>6, <1>7, <1>8, <1>9, <1>10, <1>11,
     <1>12, <1>13, <1>14, <1>15, <1>16, <1>17, <1>18, <1>19, <1>20, <1>21
  DEF Next, Progress, Over

\* The task only ends in silence where the client is gone or heard from a remote.
LEMMA ToldUnlessGoneStep == Inv /\ [Next]_vars => ToldUnlessGone'
<1> SUFFICES ASSUME Inv, [Next]_vars
             PROVE  ToldUnlessGone'
  OBVIOUS
<1>0. request.kind \in Kinds /\ request.host \in Hosts
  BY Asked DEF Inv, TypeOK
<1> USE BoundsAssumption, <1>0
    DEF Inv, TypeOK, clientVars, headVars, copyVars, remoteVars,
        Kinds, Stages, ToldUnlessGone, Unread, Unlinked
<1>1. CASE FillBuffer
  BY <1>1 DEF FillBuffer
<1>2. CASE ReadLine
  BY <1>2 DEF ReadLine, End
<1>3. CASE HeadersEnd
  BY <1>3 DEF HeadersEnd, End
<1>4. CASE Decide
  BY <1>4 DEF Decide, Refuse, Blocked
<1>5. CASE EndRefusal
  BY <1>5 DEF EndRefusal, End
<1>6. CASE Connect
  BY <1>6 DEF Connect, AfterConnect
<1>7. CASE ConnectFails
  BY <1>7 DEF ConnectFails, Refuse, TimedOut
<1>8. CASE Establish
  BY <1>8 DEF Establish, End, TransferTimer
<1>9. CASE ForwardHeaders
  BY <1>9 DEF ForwardHeaders, End, TransferTimer
<1>10. CASE ReadClient
  BY <1>10 DEF ReadClient, InFlight
<1>11. CASE WriteRemote
  BY <1>11 DEF WriteRemote, InFlight
<1>12. CASE ReadRemote
  BY <1>12 DEF ReadRemote, CopyStates
<1>13. CASE WriteClient
  BY <1>13 DEF WriteClient, CopyStates
<1>14. CASE EndTransfer
  BY <1>14 DEF EndTransfer, End, CopyStates, UpDone, DownDone, UpFails, DownFails, InFlight
<1>15. CASE Shutdown
  BY <1>15 DEF Shutdown, End
<1>16. CASE ClientSends
  BY <1>16 DEF ClientSends
<1>17. CASE ClientStops
  BY <1>17 DEF ClientStops
<1>18. CASE RemoteSends
  BY <1>18 DEF RemoteSends
<1>19. CASE RemoteStops
  BY <1>19 DEF RemoteStops
<1>20. CASE Expire
  BY <1>20 DEF Expire
<1>21. CASE UNCHANGED vars
  BY <1>21 DEF vars
<1> QED
  BY <1>1, <1>2, <1>3, <1>4, <1>5, <1>6, <1>7, <1>8, <1>9, <1>10, <1>11,
     <1>12, <1>13, <1>14, <1>15, <1>16, <1>17, <1>18, <1>19, <1>20, <1>21
  DEF Next, Progress, Over

\* The invariant holds in every reachable state.
THEOREM Invariance == Spec => []Inv
<1>1. Init => Inv
  BY RequestsAssumption, HostsAssumption, BoundsAssumption
  DEF Init, Inv, TypeOK, TaskStates, Stages, Admitted, Refused, OneAnswer, ToldUnlessGone,
      Unread, Unanswered, Unlinked, Uncopied
<1>2. Inv /\ [Next]_vars => Inv'
  BY TypeStep, StagesStep, AdmittedStep, RefusedStep, OneAnswerStep, ToldUnlessGoneStep
  DEF Inv
<1> QED BY <1>1, <1>2, PTL DEF Spec

\* Every variable has its type, and nothing is written that was not read.
THEOREM TypeCorrect == Spec => []TypeOK
<1>1. Inv => TypeOK
  BY DEF Inv
<1> QED BY <1>1, Invariance, PTL

\* Refusals and data exclude each other, and a tunnel starts with its 200.
THEOREM AnsweredOnce == Spec => []OneAnswer
<1>1. Inv => OneAnswer
  BY DEF Inv
<1> QED BY <1>1, Invariance, PTL

\* No client that is still there is left without an answer, but where the task
\* was dropped or the request had reached its remote.
THEOREM Told == Spec => []ToldUnlessGone
<1>1. Inv => ToldUnlessGone
  BY DEF Inv
<1> QED BY <1>1, Invariance, PTL

\* A longer suffix can be shortened.
LEMMA ShorterSuffix ==
  ASSUME NEW name \in Seq(Characters), NEW suffix \in Seq(Characters), NEW c \in Characters,
         EndsWith(name, <<c>> \o suffix)
  PROVE  EndsWith(name, suffix)
<1> DEFINE long == <<c>> \o suffix
           n    == Len(name)
           m    == Len(suffix)
<1>1. /\ m \in Nat /\ n \in Nat
      /\ <<c>> \in Seq(Characters) /\ Len(<<c>>) = 1
  <2>1. <<c>> \in Seq(Characters) /\ Len(<<c>>) = 1
    OBVIOUS
  <2>2. Len(name) \in Nat /\ Len(suffix) \in Nat
    BY LenProperties
  <2> QED BY <2>1, <2>2
<1>2. /\ Len(long) = m + 1
      /\ \A i \in 1 .. m : long[i + 1] = suffix[i]
  <2>1. /\ Len(long) = 1 + m
        /\ \A i \in 1 .. 1 + m : long[i] = IF i <= 1 THEN <<c>>[i] ELSE suffix[i - 1]
    BY <1>1, ConcatProperties, Zenon
  <2> HIDE DEF long, m
  <2> QED BY <1>1, <2>1
<1>3. m + 1 <= n /\ SubSeq(name, n - (m + 1) + 1, n) = long
  BY <1>2 DEF EndsWith
<1>4. \A i \in 1 .. n : name[i] \in Characters
  BY ElementOfSeq
<1>5. \A k \in 1 .. n :
        /\ SubSeq(name, k, n) \in Seq(Characters)
        /\ Len(SubSeq(name, k, n)) = n - k + 1
        /\ \A i \in 1 .. n - k + 1 : SubSeq(name, k, n)[i] = name[k + i - 1]
  <2> TAKE k \in 1 .. n
  <2>1. k \in Int /\ n \in Int /\ k <= n
    BY <1>1
  <2>2. \A i \in k .. n : name[i] \in Characters
    BY <1>1, <1>4
  <2> HIDE DEF n
  <2> QED BY <2>1, <2>2, SubSeqProperties
<1> HIDE DEF long, n, m
<1>6. CASE m = 0
  <2>1. suffix = << >> /\ SubSeq(name, n + 1, n) = << >>
    BY <1>1, <1>6, EmptySeq, SubSeqEmpty DEF m
  <2> QED BY <1>1, <1>6, <2>1 DEF EndsWith, m, n
<1>7. CASE m > 0
  <2>1. n - m \in 1 .. n /\ n - m + 1 \in 1 .. n
    BY <1>1, <1>3, <1>7
  <2>2. SubSeq(name, n - m, n) = long
    BY <1>1, <1>3
  <2>3. ASSUME NEW i \in 1 .. m
        PROVE  SubSeq(name, n - m + 1, n)[i] = suffix[i]
    <3>1. SubSeq(name, n - m + 1, n)[i] = name[n - m + i]
      BY <1>1, <1>5, <2>1
    <3>2. i + 1 \in 1 .. m + 1 /\ n - m + (i + 1) - 1 = n - m + i
      BY <1>1
    <3>3. long[i + 1] = name[n - m + i]
      BY <1>1, <1>5, <2>1, <2>2, <3>2
    <3> QED BY <1>2, <3>1, <3>3
  <2>4. SubSeq(name, n - m + 1, n) \in Seq(Characters) /\ Len(SubSeq(name, n - m + 1, n)) = m
    BY <1>1, <1>5, <2>1
  <2>5. SubSeq(name, n - m + 1, n) = suffix
    BY <2>3, <2>4, SeqEqual DEF m
  <2> QED BY <1>1, <1>3, <2>5 DEF EndsWith, m, n
<1> QED BY <1>1, <1>6, <1>7

\* Names in lower case are names.
LEMMA LowerType == ASSUME NEW name \in Seq(Characters) PROVE Lower(name) \in Seq(Characters)
<1>1. Len(name) \in Nat /\ \A i \in 1 .. Len(name) : name[i] \in Characters
  BY LenProperties, ElementOfSeq
<1>2. \A i \in 1 .. Len(name) : LowerChar(name[i]) \in Characters
  BY <1>1, CharactersAssumption DEF LowerChar
<1>3. Lower(name) \in [1 .. Len(name) -> Characters]
  BY <1>2 DEF Lower
<1> QED BY <1>1, <1>3, SeqDef

\* Whatever the documentation lets a pattern in lower case cover, is_allowed
\* allows.
LEMMA DocumentedAllowed ==
  ASSUME NEW p \in Whitelist, NEW host \in Seq(Characters),
         p.name = Lower(p.name), Documented(p, host)
  PROVE  IsAllowed(host)
<1>1. p.name \in Seq(Characters) /\ p.wild \in BOOLEAN
  BY WhitelistAssumption DEF PatternType
<1>2. Lower(host) \in Seq(Characters)
  BY LowerType
<1>3. CASE p.wild
  <2>1. EndsWith(Lower(host), <<".">> \o p.name)
    BY <1>3 DEF Documented
  <2>2. EndsWith(Lower(host), p.name)
    <3>1. "." \in Characters
      BY CharactersAssumption
    <3> QED BY <1>1, <1>2, <2>1, <3>1, ShorterSuffix, Zenon
  <2> QED BY <1>3, <2>2 DEF IsAllowed
<1>4. CASE ~p.wild
  BY <1>4 DEF Documented, IsAllowed
<1> QED BY <1>3, <1>4

\* Lower case is lower case already.
LEMMA LowerTwice == ASSUME NEW name \in Seq(Characters) PROVE Lower(Lower(name)) = Lower(name)
<1>1. Lower(name) = [i \in 1 .. Len(name) |-> LowerChar(name[i])]
  BY DEF Lower
<1>2. Len(name) \in Nat /\ DOMAIN Lower(name) = 1 .. Len(Lower(name))
  BY LenProperties, LowerType
<1>3. Len(Lower(name)) \in Nat /\ DOMAIN Lower(name) = 1 .. Len(name)
  BY <1>1, LenProperties, LowerType
<1>4. Len(Lower(name)) = Len(name)
  BY <1>2, <1>3
<1>5. \A i \in 1 .. Len(name) : LowerChar(Lower(name)[i]) = Lower(name)[i]
  BY <1>1 DEF LowerChar
<1>6. Lower(Lower(name)) = [i \in 1 .. Len(name) |-> LowerChar(Lower(name)[i])]
  BY <1>4 DEF Lower
<1> QED BY <1>1, <1>5, <1>6

\* With a whitelist of plain names the proxy reaches nothing but what the
\* documentation says, whatever the case a host is written in.  With a wildcard
\* it is not so.
THEOREM Guarded ==
  ASSUME \A p \in Whitelist : ~p.wild
  PROVE  Spec => []ReachedAsDocumented
<1>1. Inv => ReachedAsDocumented
  <2> SUFFICES ASSUME Inv, peer # NoHost
               PROVE  \E p \in Whitelist : Documented(p, peer)
    BY DEF ReachedAsDocumented
  <2>1. PICK p \in Whitelist : Lower(peer) = p.name
    BY DEF Inv, Admitted, IsAllowed
  <2>2. peer \in Seq(Characters)
    BY HostsAssumption DEF Inv, TypeOK
  <2>3. Lower(p.name) = Lower(peer)
    BY <2>1, <2>2, LowerTwice
  <2> QED BY <2>3 DEF Documented
<1> QED BY <1>1, Invariance, PTL

\* A host the documented whitelist covers is never answered with 403.
THEOREM CoveredServed == Spec => []CoveredNotRefused
<1>1. Inv => CoveredNotRefused
  <2> SUFFICES ASSUME Inv, answer = 403, NEW p \in Whitelist, p.name = Lower(p.name)
               PROVE  ~Documented(p, request.host)
    BY DEF CoveredNotRefused
  <2>1. request.host \in Seq(Characters)
    BY RequestsAssumption, HostsAssumption DEF Inv, TypeOK, RequestType
  <2>2. ~IsAllowed(request.host)
    BY DEF Inv, Refused
  <2> QED BY <2>1, <2>2, DocumentedAllowed
<1> QED BY <1>1, Invariance, PTL

-----------------------------------------------------------------------------
(* Liveness.  Weak fairness speaks of when an action is ENABLED, which the   *)
(* proof takes from ReadyStepsEnabled and does not look into.                *)

\* A timer covers the connect and the copies.
Timed == task \in {"connect"} \cup CopyStates => timer \in {"running", "fired"}

\* The task's way, told apart by what moves it on.
AtHeaders    == task = "headers"
AtParse      == task = "parse"
AtRefuse     == task = "refuse"
Connecting   == task = "connect" /\ timer = "running"
ConnectLate  == task = "connect" /\ timer = "fired"
AtEstablish  == task = "establish"
AtForward    == task = "forward" /\ ~request.large
ForwardLarge == task = "forward" /\ request.large
Copying      == task \in CopyStates /\ timer = "running"
CopyLate     == task \in CopyStates /\ timer = "fired"

\* The headers end with a request to decide on, or the task does.
LEMMA HeadersNext ==
  /\ Inv /\ Timed /\ AtHeaders /\ [Next]_vars => AtHeaders' \/ AtParse' \/ Closed'
<1>1. Inv /\ Timed /\ AtHeaders /\ [Next]_vars => AtHeaders' \/ AtParse' \/ Closed'
  BY Asked DEF AtHeaders, AtParse, Closed, Inv, TypeOK, Stages, Timed, Kinds, Unread,
         Next, Progress, FillBuffer, ReadLine, HeadersEnd, Decide, EndRefusal, Connect,
         ConnectFails, Establish, ForwardHeaders, ReadClient, WriteRemote, ReadRemote,
         WriteClient, EndTransfer, Shutdown, ClientSends, ClientStops, RemoteSends,
         RemoteStops, Expire, Over, End, Refuse, TimedOut, AfterConnect, TransferTimer,
         CopyStates, vars, clientVars, headVars, copyVars, remoteVars
<1> QED BY <1>1

\* A request is decided at once.
LEMMA ParseNext ==
  /\ Inv /\ Timed /\ AtParse /\ [Next]_vars => AtParse' \/ AtRefuse' \/ Connecting'
  /\ Inv /\ Timed /\ AtParse /\ <<Progress>>_vars => AtRefuse' \/ Connecting'
  /\ AtParse /\ ReadyStepsEnabled => ENABLED <<Progress>>_vars
<1>1. Inv /\ Timed /\ AtParse /\ [Next]_vars => AtParse' \/ AtRefuse' \/ Connecting'
  BY Asked DEF AtParse, AtRefuse, Connecting, Inv, TypeOK, Stages, Timed, Kinds, Unread,
         Next, Progress, FillBuffer, ReadLine, HeadersEnd, Decide, EndRefusal, Connect,
         ConnectFails, Establish, ForwardHeaders, ReadClient, WriteRemote, ReadRemote,
         WriteClient, EndTransfer, Shutdown, ClientSends, ClientStops, RemoteSends,
         RemoteStops, Expire, Over, End, Refuse, TimedOut, AfterConnect, TransferTimer,
         CopyStates, vars, clientVars, headVars, copyVars, remoteVars
<1>2. Inv /\ Timed /\ AtParse /\ <<Progress>>_vars => AtRefuse' \/ Connecting'
  BY Asked DEF AtParse, AtRefuse, Connecting, Inv, TypeOK, Stages, Timed, Kinds, Unread,
         Next, Progress, FillBuffer, ReadLine, HeadersEnd, Decide, EndRefusal, Connect,
         ConnectFails, Establish, ForwardHeaders, ReadClient, WriteRemote, ReadRemote,
         WriteClient, EndTransfer, Shutdown, ClientSends, ClientStops, RemoteSends,
         RemoteStops, Expire, Over, End, Refuse, TimedOut, AfterConnect, TransferTimer,
         CopyStates, vars, clientVars, headVars, copyVars, remoteVars
<1>3. AtParse /\ ReadyStepsEnabled => ENABLED <<Progress>>_vars
  BY DEF AtParse, TaskReady, ReadyStepsEnabled, CopyStates
<1> QED BY <1>1, <1>2, <1>3

\* A refusal ends the task.
LEMMA RefuseNext ==
  /\ Inv /\ Timed /\ AtRefuse /\ [Next]_vars => AtRefuse' \/ Closed'
  /\ Inv /\ Timed /\ AtRefuse /\ <<Progress>>_vars => Closed'
  /\ AtRefuse /\ ReadyStepsEnabled => ENABLED <<Progress>>_vars
<1>1. Inv /\ Timed /\ AtRefuse /\ [Next]_vars => AtRefuse' \/ Closed'
  BY Asked DEF AtRefuse, Closed, Inv, TypeOK, Stages, Timed, Kinds, Unread,
         Next, Progress, FillBuffer, ReadLine, HeadersEnd, Decide, EndRefusal, Connect,
         ConnectFails, Establish, ForwardHeaders, ReadClient, WriteRemote, ReadRemote,
         WriteClient, EndTransfer, Shutdown, ClientSends, ClientStops, RemoteSends,
         RemoteStops, Expire, Over, End, Refuse, TimedOut, AfterConnect, TransferTimer,
         CopyStates, vars, clientVars, headVars, copyVars, remoteVars
<1>2. Inv /\ Timed /\ AtRefuse /\ <<Progress>>_vars => Closed'
  BY Asked DEF AtRefuse, Closed, Inv, TypeOK, Stages, Timed, Kinds, Unread,
         Next, Progress, FillBuffer, ReadLine, HeadersEnd, Decide, EndRefusal, Connect,
         ConnectFails, Establish, ForwardHeaders, ReadClient, WriteRemote, ReadRemote,
         WriteClient, EndTransfer, Shutdown, ClientSends, ClientStops, RemoteSends,
         RemoteStops, Expire, Over, End, Refuse, TimedOut, AfterConnect, TransferTimer,
         CopyStates, vars, clientVars, headVars, copyVars, remoteVars
<1>3. AtRefuse /\ ReadyStepsEnabled => ENABLED <<Progress>>_vars
  BY DEF AtRefuse, TaskReady, ReadyStepsEnabled, CopyStates
<1> QED BY <1>1, <1>2, <1>3

\* The connect succeeds, fails or is timed out.
LEMMA ConnectNext ==
  /\ Inv /\ Timed /\ Connecting /\ [Next]_vars => Connecting' \/ ConnectLate' \/ AtRefuse' \/ AtEstablish' \/ AtForward' \/ ForwardLarge' \/ Closed'
  /\ Inv /\ Timed /\ Connecting /\ <<Expire>>_vars => ConnectLate'
  /\ Connecting /\ ReadyStepsEnabled => ENABLED <<Expire>>_vars
<1>1. Inv /\ Timed /\ Connecting /\ [Next]_vars => Connecting' \/ ConnectLate' \/ AtRefuse' \/ AtEstablish' \/ AtForward' \/ ForwardLarge' \/ Closed'
  BY Asked DEF Connecting, ConnectLate, AtRefuse, AtEstablish, AtForward, ForwardLarge, Closed, Inv, TypeOK, Stages, Timed, Kinds, Unread,
         Next, Progress, FillBuffer, ReadLine, HeadersEnd, Decide, EndRefusal, Connect,
         ConnectFails, Establish, ForwardHeaders, ReadClient, WriteRemote, ReadRemote,
         WriteClient, EndTransfer, Shutdown, ClientSends, ClientStops, RemoteSends,
         RemoteStops, Expire, Over, End, Refuse, TimedOut, AfterConnect, TransferTimer,
         CopyStates, vars, clientVars, headVars, copyVars, remoteVars
<1>2. Inv /\ Timed /\ Connecting /\ <<Expire>>_vars => ConnectLate'
  BY Asked DEF Connecting, ConnectLate, AtRefuse, AtEstablish, AtForward, ForwardLarge, Closed, Inv, TypeOK, Stages, Timed, Kinds, Unread,
         Next, Progress, FillBuffer, ReadLine, HeadersEnd, Decide, EndRefusal, Connect,
         ConnectFails, Establish, ForwardHeaders, ReadClient, WriteRemote, ReadRemote,
         WriteClient, EndTransfer, Shutdown, ClientSends, ClientStops, RemoteSends,
         RemoteStops, Expire, Over, End, Refuse, TimedOut, AfterConnect, TransferTimer,
         CopyStates, vars, clientVars, headVars, copyVars, remoteVars
<1>3. Connecting /\ ReadyStepsEnabled => ENABLED <<Expire>>_vars
  BY DEF Connecting, TaskReady, ReadyStepsEnabled, CopyStates
<1> QED BY <1>1, <1>2, <1>3

\* A connect that is late gives up, unless it succeeds after all.
LEMMA ConnectLateNext ==
  /\ Inv /\ Timed /\ ConnectLate /\ [Next]_vars => ConnectLate' \/ AtRefuse' \/ AtEstablish' \/ AtForward' \/ ForwardLarge' \/ Closed'
  /\ Inv /\ Timed /\ ConnectLate /\ <<Progress>>_vars => AtRefuse'
  /\ ConnectLate /\ ReadyStepsEnabled => ENABLED <<Progress>>_vars
<1>1. Inv /\ Timed /\ ConnectLate /\ [Next]_vars => ConnectLate' \/ AtRefuse' \/ AtEstablish' \/ AtForward' \/ ForwardLarge' \/ Closed'
  BY Asked DEF ConnectLate, AtRefuse, AtEstablish, AtForward, ForwardLarge, Closed, Inv, TypeOK, Stages, Timed, Kinds, Unread,
         Next, Progress, FillBuffer, ReadLine, HeadersEnd, Decide, EndRefusal, Connect,
         ConnectFails, Establish, ForwardHeaders, ReadClient, WriteRemote, ReadRemote,
         WriteClient, EndTransfer, Shutdown, ClientSends, ClientStops, RemoteSends,
         RemoteStops, Expire, Over, End, Refuse, TimedOut, AfterConnect, TransferTimer,
         CopyStates, vars, clientVars, headVars, copyVars, remoteVars
<1>2. Inv /\ Timed /\ ConnectLate /\ <<Progress>>_vars => AtRefuse'
  BY Asked DEF ConnectLate, AtRefuse, AtEstablish, AtForward, ForwardLarge, Closed, Inv, TypeOK, Stages, Timed, Kinds, Unread,
         Next, Progress, FillBuffer, ReadLine, HeadersEnd, Decide, EndRefusal, Connect,
         ConnectFails, Establish, ForwardHeaders, ReadClient, WriteRemote, ReadRemote,
         WriteClient, EndTransfer, Shutdown, ClientSends, ClientStops, RemoteSends,
         RemoteStops, Expire, Over, End, Refuse, TimedOut, AfterConnect, TransferTimer,
         CopyStates, vars, clientVars, headVars, copyVars, remoteVars
<1>3. ConnectLate /\ ReadyStepsEnabled => ENABLED <<Progress>>_vars
  BY DEF ConnectLate, TaskReady, ReadyStepsEnabled, CopyStates
<1> QED BY <1>1, <1>2, <1>3

\* A tunnel is announced or the client is gone.
LEMMA EstablishNext ==
  /\ Inv /\ Timed /\ AtEstablish /\ [Next]_vars => AtEstablish' \/ Copying' \/ Closed'
  /\ Inv /\ Timed /\ AtEstablish /\ <<Progress>>_vars => Copying' \/ Closed'
  /\ AtEstablish /\ ReadyStepsEnabled => ENABLED <<Progress>>_vars
<1>1. Inv /\ Timed /\ AtEstablish /\ [Next]_vars => AtEstablish' \/ Copying' \/ Closed'
  BY Asked DEF AtEstablish, Copying, Closed, Inv, TypeOK, Stages, Timed, Kinds, Unread,
         Next, Progress, FillBuffer, ReadLine, HeadersEnd, Decide, EndRefusal, Connect,
         ConnectFails, Establish, ForwardHeaders, ReadClient, WriteRemote, ReadRemote,
         WriteClient, EndTransfer, Shutdown, ClientSends, ClientStops, RemoteSends,
         RemoteStops, Expire, Over, End, Refuse, TimedOut, AfterConnect, TransferTimer,
         CopyStates, vars, clientVars, headVars, copyVars, remoteVars
<1>2. Inv /\ Timed /\ AtEstablish /\ <<Progress>>_vars => Copying' \/ Closed'
  BY Asked DEF AtEstablish, Copying, Closed, Inv, TypeOK, Stages, Timed, Kinds, Unread,
         Next, Progress, FillBuffer, ReadLine, HeadersEnd, Decide, EndRefusal, Connect,
         ConnectFails, Establish, ForwardHeaders, ReadClient, WriteRemote, ReadRemote,
         WriteClient, EndTransfer, Shutdown, ClientSends, ClientStops, RemoteSends,
         RemoteStops, Expire, Over, End, Refuse, TimedOut, AfterConnect, TransferTimer,
         CopyStates, vars, clientVars, headVars, copyVars, remoteVars
<1>3. AtEstablish /\ ReadyStepsEnabled => ENABLED <<Progress>>_vars
  BY DEF AtEstablish, TaskReady, ReadyStepsEnabled, CopyStates
<1> QED BY <1>1, <1>2, <1>3

\* Headers that fit the socket are written whatever the remote does.
LEMMA ForwardNext ==
  /\ Inv /\ Timed /\ AtForward /\ [Next]_vars => AtForward' \/ Copying' \/ Closed'
  /\ Inv /\ Timed /\ AtForward /\ <<Progress>>_vars => Copying' \/ Closed'
  /\ AtForward /\ ReadyStepsEnabled => ENABLED <<Progress>>_vars
<1>1. Inv /\ Timed /\ AtForward /\ [Next]_vars => AtForward' \/ Copying' \/ Closed'
  BY Asked DEF AtForward, Copying, Closed, Inv, TypeOK, Stages, Timed, Kinds, Unread,
         Next, Progress, FillBuffer, ReadLine, HeadersEnd, Decide, EndRefusal, Connect,
         ConnectFails, Establish, ForwardHeaders, ReadClient, WriteRemote, ReadRemote,
         WriteClient, EndTransfer, Shutdown, ClientSends, ClientStops, RemoteSends,
         RemoteStops, Expire, Over, End, Refuse, TimedOut, AfterConnect, TransferTimer,
         CopyStates, vars, clientVars, headVars, copyVars, remoteVars
<1>2. Inv /\ Timed /\ AtForward /\ <<Progress>>_vars => Copying' \/ Closed'
  BY Asked DEF AtForward, Copying, Closed, Inv, TypeOK, Stages, Timed, Kinds, Unread,
         Next, Progress, FillBuffer, ReadLine, HeadersEnd, Decide, EndRefusal, Connect,
         ConnectFails, Establish, ForwardHeaders, ReadClient, WriteRemote, ReadRemote,
         WriteClient, EndTransfer, Shutdown, ClientSends, ClientStops, RemoteSends,
         RemoteStops, Expire, Over, End, Refuse, TimedOut, AfterConnect, TransferTimer,
         CopyStates, vars, clientVars, headVars, copyVars, remoteVars
<1>3. AtForward /\ ReadyStepsEnabled => ENABLED <<Progress>>_vars
  BY DEF AtForward, TaskReady, ReadyStepsEnabled, CopyStates
<1> QED BY <1>1, <1>2, <1>3

\* Others wait for the remote.
LEMMA ForwardLargeNext ==
  /\ Inv /\ Timed /\ ForwardLarge /\ [Next]_vars => ForwardLarge' \/ Copying' \/ Closed'
<1>1. Inv /\ Timed /\ ForwardLarge /\ [Next]_vars => ForwardLarge' \/ Copying' \/ Closed'
  BY Asked DEF ForwardLarge, Copying, Closed, Inv, TypeOK, Stages, Timed, Kinds, Unread,
         Next, Progress, FillBuffer, ReadLine, HeadersEnd, Decide, EndRefusal, Connect,
         ConnectFails, Establish, ForwardHeaders, ReadClient, WriteRemote, ReadRemote,
         WriteClient, EndTransfer, Shutdown, ClientSends, ClientStops, RemoteSends,
         RemoteStops, Expire, Over, End, Refuse, TimedOut, AfterConnect, TransferTimer,
         CopyStates, vars, clientVars, headVars, copyVars, remoteVars
<1> QED BY <1>1

\* The copies end or are timed out.
LEMMA CopyNext ==
  /\ Inv /\ Timed /\ Copying /\ [Next]_vars => Copying' \/ CopyLate' \/ Closed'
  /\ Inv /\ Timed /\ Copying /\ <<Expire>>_vars => CopyLate'
  /\ Copying /\ ReadyStepsEnabled => ENABLED <<Expire>>_vars
<1>1. Inv /\ Timed /\ Copying /\ [Next]_vars => Copying' \/ CopyLate' \/ Closed'
  BY Asked DEF Copying, CopyLate, Closed, Inv, TypeOK, Stages, Timed, Kinds, Unread,
         Next, Progress, FillBuffer, ReadLine, HeadersEnd, Decide, EndRefusal, Connect,
         ConnectFails, Establish, ForwardHeaders, ReadClient, WriteRemote, ReadRemote,
         WriteClient, EndTransfer, Shutdown, ClientSends, ClientStops, RemoteSends,
         RemoteStops, Expire, Over, End, Refuse, TimedOut, AfterConnect, TransferTimer,
         CopyStates, vars, clientVars, headVars, copyVars, remoteVars
<1>2. Inv /\ Timed /\ Copying /\ <<Expire>>_vars => CopyLate'
  BY Asked DEF Copying, CopyLate, Closed, Inv, TypeOK, Stages, Timed, Kinds, Unread,
         Next, Progress, FillBuffer, ReadLine, HeadersEnd, Decide, EndRefusal, Connect,
         ConnectFails, Establish, ForwardHeaders, ReadClient, WriteRemote, ReadRemote,
         WriteClient, EndTransfer, Shutdown, ClientSends, ClientStops, RemoteSends,
         RemoteStops, Expire, Over, End, Refuse, TimedOut, AfterConnect, TransferTimer,
         CopyStates, vars, clientVars, headVars, copyVars, remoteVars
<1>3. Copying /\ ReadyStepsEnabled => ENABLED <<Expire>>_vars
  BY DEF Copying, TaskReady, ReadyStepsEnabled, CopyStates
<1> QED BY <1>1, <1>2, <1>3

\* Copies that are late are ended.
LEMMA CopyLateNext ==
  /\ Inv /\ Timed /\ CopyLate /\ [Next]_vars => CopyLate' \/ Closed'
  /\ Inv /\ Timed /\ CopyLate /\ <<Progress>>_vars => Closed'
  /\ CopyLate /\ ReadyStepsEnabled => ENABLED <<Progress>>_vars
<1>1. Inv /\ Timed /\ CopyLate /\ [Next]_vars => CopyLate' \/ Closed'
  BY Asked DEF CopyLate, Closed, Inv, TypeOK, Stages, Timed, Kinds, Unread,
         Next, Progress, FillBuffer, ReadLine, HeadersEnd, Decide, EndRefusal, Connect,
         ConnectFails, Establish, ForwardHeaders, ReadClient, WriteRemote, ReadRemote,
         WriteClient, EndTransfer, Shutdown, ClientSends, ClientStops, RemoteSends,
         RemoteStops, Expire, Over, End, Refuse, TimedOut, AfterConnect, TransferTimer,
         CopyStates, vars, clientVars, headVars, copyVars, remoteVars
<1>2. Inv /\ Timed /\ CopyLate /\ <<Progress>>_vars => Closed'
  BY Asked DEF CopyLate, Closed, Inv, TypeOK, Stages, Timed, Kinds, Unread,
         Next, Progress, FillBuffer, ReadLine, HeadersEnd, Decide, EndRefusal, Connect,
         ConnectFails, Establish, ForwardHeaders, ReadClient, WriteRemote, ReadRemote,
         WriteClient, EndTransfer, Shutdown, ClientSends, ClientStops, RemoteSends,
         RemoteStops, Expire, Over, End, Refuse, TimedOut, AfterConnect, TransferTimer,
         CopyStates, vars, clientVars, headVars, copyVars, remoteVars
<1>3. CopyLate /\ ReadyStepsEnabled => ENABLED <<Progress>>_vars
  BY DEF CopyLate, TaskReady, ReadyStepsEnabled, CopyStates
<1> QED BY <1>1, <1>2, <1>3

\* The timers are set where they are needed.
LEMMA TimersSet == Spec => []Timed
<1>1. Init => Timed
  BY DEF Init, Timed, CopyStates
<1>2. Inv /\ Timed /\ [Next]_vars => Timed'
  BY DEF Inv, TypeOK, Timed,
         Next, Progress, FillBuffer, ReadLine, HeadersEnd, Decide, EndRefusal, Connect,
         ConnectFails, Establish, ForwardHeaders, ReadClient, WriteRemote, ReadRemote,
         WriteClient, EndTransfer, Shutdown, ClientSends, ClientStops, RemoteSends,
         RemoteStops, Expire, Over, End, Refuse, TimedOut, AfterConnect, TransferTimer,
         CopyStates, vars, clientVars, headVars, copyVars, remoteVars
<1> QED BY <1>1, <1>2, Invariance, PTL DEF Spec

\* Every connection ends, or waits for ever where no timeout covers it: no other
\* wait is unbounded, whatever the client and the remote do or fail to do.
THEOREM EndsUnlessUncovered == FairSpec /\ []ReadyStepsEnabled => EndsOrUncovered
<1>1. Inv /\ Timed => \/ AtHeaders \/ AtParse \/ AtRefuse \/ Connecting \/ ConnectLate
                      \/ AtEstablish \/ AtForward \/ ForwardLarge \/ Copying
                      \/ CopyLate \/ Closed
  BY DEF Inv, TypeOK, TaskStates, Timed, AtHeaders, AtParse, AtRefuse, Connecting,
         ConnectLate, AtEstablish, AtForward, ForwardLarge, Copying, CopyLate, Closed,
         CopyStates
<1>2. AtHeaders \/ ForwardLarge => Uncovered
  BY DEF AtHeaders, ForwardLarge, Uncovered
<1>3. FairSpec => Spec /\ []Inv /\ []Timed /\ WF_vars(Progress) /\ WF_vars(Expire)
  BY Invariance, TimersSet, PTL DEF FairSpec, Fairness
<1>4. FairSpec /\ []ReadyStepsEnabled =>
        (Copying ~> Closed) /\ (CopyLate ~> Closed)
  BY <1>3, CopyNext, CopyLateNext, PTL DEF Spec
<1>5. FairSpec /\ []ReadyStepsEnabled =>
        (AtEstablish ~> Closed) /\ (AtForward ~> Closed) /\ (AtRefuse ~> Closed)
  BY <1>3, <1>4, EstablishNext, ForwardNext, RefuseNext, PTL DEF Spec
<1>6. FairSpec /\ []ReadyStepsEnabled => (ForwardLarge ~> (Closed \/ []ForwardLarge))
  BY <1>3, <1>4, ForwardLargeNext, PTL DEF Spec
<1>7. FairSpec /\ []ReadyStepsEnabled =>
        (ConnectLate ~> (Closed \/ []ForwardLarge))
  BY <1>3, <1>5, <1>6, ConnectLateNext, PTL DEF Spec
<1>8. FairSpec /\ []ReadyStepsEnabled =>
        (Connecting ~> (Closed \/ []ForwardLarge))
  BY <1>3, <1>5, <1>6, <1>7, ConnectNext, PTL DEF Spec
<1>9. FairSpec /\ []ReadyStepsEnabled => (AtParse ~> (Closed \/ []ForwardLarge))
  BY <1>3, <1>5, <1>8, ParseNext, PTL DEF Spec
<1>10. FairSpec /\ []ReadyStepsEnabled =>
         (AtHeaders ~> (Closed \/ []ForwardLarge \/ []AtHeaders))
  BY <1>3, <1>9, HeadersNext, PTL DEF Spec
<1> QED
  BY <1>1, <1>2, <1>3, <1>4, <1>5, <1>6, <1>7, <1>8, <1>9, <1>10, PTL
  DEF EndsOrUncovered

=============================================================================
