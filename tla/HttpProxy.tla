------------------------------ MODULE HttpProxy ------------------------------
(***************************************************************************)
(* One connection of the whitelisting proxy (src/network/proxy.rs): the    *)
(* task that runs handle_connection, the client at one end, the remote     *)
(* host at the other, and the shutdown that may drop the task wherever it  *)
(* waits.                                                                  *)
(*                                                                         *)
(* What the client sends is a number of units: HeaderLines lines of        *)
(* headers, the last of them empty, then payload.  What the remote sends   *)
(* is a number of units.  Hosts and patterns are sequences of characters,  *)
(* few and short, since the whitelist compares them as strings.            *)
(***************************************************************************)
EXTENDS Integers, Sequences

CONSTANTS
  Characters,   \* of the names of hosts
  Requests,     \* the requests to explore, a subset of RequestType
  Hosts,        \* the host names in requests, sequences of characters
  Whitelist,    \* allowed_domains, a subset of PatternType
  HeaderLines,  \* lines of a client's headers, the empty one included
  MaxPayload,   \* bound on the units a client sends after its headers
  MaxReply,     \* bound on the units a remote sends
  BufferSize    \* units the BufReader takes from the socket at once

\* "connect": CONNECT host; "http": an absolute URL; "relative": any other;
\* "short": fewer than two words; "garbage": not UTF-8.  `large`: the headers
\* are more than the remote's socket takes without the remote reading.
RequestType ==
  [ kind  : {"connect", "http", "relative", "short", "garbage"},
    host  : Hosts,
    large : BOOLEAN ]

\* "*.name" when wild, else "name".
PatternType == [wild : BOOLEAN, name : Seq(Characters)]

ASSUME CharactersAssumption == {"X", "x", "."} \subseteq Characters
ASSUME RequestsAssumption == Requests \subseteq RequestType
ASSUME HostsAssumption == Hosts \subseteq Seq(Characters)
ASSUME WhitelistAssumption == Whitelist \subseteq PatternType
ASSUME BoundsAssumption ==
  /\ HeaderLines \in Nat \ {0} /\ BufferSize \in Nat \ {0}
  /\ MaxPayload \in Nat /\ MaxReply \in Nat

NoHost == << >>

VARIABLES
  request,   \* what the client asks for
  client,    \* "open", "finished" (it sends no more), "reset"
  sent,      \* units the client has sent
  \* --- the task
  task,      \* where handle_connection is
  taken,     \* units the task has taken from the client's socket
  lines,     \* header lines read out of the BufReader
  dropped,   \* payload units that were in the BufReader when it was dropped
  timer,     \* of the connect or the transfer timeout: "off", "running", "fired"
  answer,    \* status the client was given, 0 for none
  up,        \* payload units written to the remote
  fetched,   \* units read from the remote
  down,      \* units written to the client
  ending,    \* why the task is over
  \* --- the other end
  peer,      \* the host the task is connected to
  remote,    \* "none", "open", "finished", "reset"
  replied    \* units the remote has sent

clientVars == <<request, client, sent>>
headVars   == <<taken, lines, dropped>>
copyVars   == <<up, fetched, down>>
remoteVars == <<peer, remote, replied>>
vars == <<clientVars, task, headVars, timer, answer, copyVars, ending, remoteVars>>

-----------------------------------------------------------------------------
(* The whitelist *)

\* to_lowercase, on the one letter that differs.
LowerChar(c) == IF c = "X" THEN "x" ELSE c
Lower(name)  == [i \in 1 .. Len(name) |-> LowerChar(name[i])]

EndsWith(name, suffix) ==
  /\ Len(suffix) <= Len(name)
  /\ SubSeq(name, Len(name) - Len(suffix) + 1, Len(name)) = suffix

\* Mutant: the host is compared as it was written.
IsAllowedAsWritten(host) ==
  \E p \in Whitelist : IF p.wild THEN EndsWith(host, p.name) ELSE host = p.name

\* is_allowed: only the host is put in lower case, and what follows "*." may
\* be any suffix of it.
IsAllowed(host) ==
  \E p \in Whitelist :
    IF p.wild THEN EndsWith(Lower(host), p.name) ELSE Lower(host) = p.name

-----------------------------------------------------------------------------
(* Helpers *)

\* The task is over; both sockets are closed.
End(why) == task' = "closed" /\ ending' = why /\ timer' = "off"

\* send_error: an answer instead of a connection.
Refuse(code) ==
  /\ task' = "refuse"
  /\ answer' = code

\* Mutant: what the BufReader had taken counts as read by the copy.
InFlightOrDropped == taken - lines - up

\* Payload units that are in the copy loop, read but not written yet.
InFlight == taken - lines - dropped - up

-----------------------------------------------------------------------------
(* handle_connection: the headers *)

\* The BufReader is empty and takes what the socket has, payload included.
FillBuffer ==
  /\ task = "headers"
  /\ lines = taken /\ taken < sent
  /\ client # "reset"
  /\ taken' = IF sent - taken <= BufferSize THEN sent ELSE taken + BufferSize
  /\ UNCHANGED <<clientVars, task, lines, dropped, timer, answer, copyVars, ending,
                 remoteVars>>

\* read_line; a line that is not UTF-8 ends the task.
ReadLine ==
  /\ task = "headers"
  /\ lines < taken
  /\ lines' = lines + 1
  /\ IF request.kind = "garbage"
     THEN End("error")
     ELSE /\ task' = IF lines' = HeaderLines THEN "parse" ELSE "headers"
          /\ UNCHANGED <<ending, timer>>
  /\ UNCHANGED <<clientVars, taken, dropped, answer, copyVars, remoteVars>>

\* The client's end of stream ends the headers as well; a reset is an error.
HeadersEnd ==
  /\ task = "headers"
  /\ \/ /\ lines = sent /\ client = "finished"
        /\ task' = "parse"
        /\ UNCHANGED <<timer, ending>>
     \/ client = "reset" /\ End("error")
  /\ UNCHANGED <<clientVars, headVars, answer, copyVars, remoteVars>>

\* Both handlers ask is_allowed.
Blocked(r) == ~IsAllowed(r.host)

\* handle_connect and handle_http up to the connect: nothing is awaited.  The
\* BufReader is gone from here on, with what it held.
Decide ==
  /\ task = "parse"
  /\ LET kind == IF lines = 0 THEN "short" ELSE request.kind
     IN  CASE kind \in {"short", "relative"} -> Refuse(400) /\ UNCHANGED timer
           [] kind \in {"connect", "http"} /\ Blocked(request) ->
                Refuse(403) /\ UNCHANGED timer
           [] OTHER ->
                task' = "connect" /\ timer' = "running" /\ UNCHANGED answer
  /\ dropped' = taken - lines
  /\ UNCHANGED <<clientVars, taken, lines, copyVars, ending, remoteVars>>

\* send_error is over, by success or an error of the write.
EndRefusal ==
  /\ task = "refuse"
  /\ End("refused")
  /\ UNCHANGED <<clientVars, headVars, answer, copyVars, remoteVars>>

-----------------------------------------------------------------------------
(* The connection to the remote *)

\* Mutant: the copies of a tunnel start without telling the client.
CopyAtOnce(kind) == IF kind = "connect" THEN "tunnel" ELSE "forward"

\* A tunnel is first announced to the client, a request first sent on.
AfterConnect(kind) == IF kind = "connect" THEN "establish" ELSE "forward"

\* TcpStream::connect within CONNECT_TIMEOUT.
Connect ==
  /\ task = "connect"
  /\ peer' = request.host /\ remote' = "open"
  /\ task' = AfterConnect(request.kind)
  /\ timer' = "off"
  /\ UNCHANGED <<clientVars, headVars, answer, copyVars, ending, replied>>

\* Mutant: a connect that takes too long ends the task, as an error would.
TimedOutSilently == task' = "closed" /\ UNCHANGED answer

\* CONNECT_TIMEOUT is over.
TimedOut == Refuse(504)

ConnectFails ==
  /\ task = "connect"
  /\ timer' = "off"
  /\ \/ Refuse(502)
     \/ timer = "fired" /\ TimedOut
  /\ UNCHANGED <<clientVars, headVars, copyVars, ending, remoteVars>>

\* Mutant: the transfer has no timeout.
NoTransferTimer == "off"

\* tokio::time::timeout(TRANSFER_TIMEOUT, ..)
TransferTimer == "running"

\* 200 Connection Established; the copies start.
Establish ==
  /\ task = "establish"
  /\ IF client = "reset"
     THEN End("error") /\ UNCHANGED answer
     ELSE answer' = 200 /\ task' = "tunnel" /\ timer' = TransferTimer
          /\ UNCHANGED ending
  /\ UNCHANGED <<clientVars, headVars, copyVars, remoteVars>>

\* write_all of the rewritten headers, which no timeout covers.
ForwardHeaders ==
  /\ task = "forward"
  /\ IF remote = "reset"
     THEN End("error")
     ELSE task' = "response" /\ timer' = TransferTimer /\ UNCHANGED ending
  /\ UNCHANGED <<clientVars, headVars, answer, copyVars, remoteVars>>

-----------------------------------------------------------------------------
(* The copies.  A tunnel has one in each direction, an HTTP request only the *)
(* one to the client: its body is not forwarded.                             *)

CopyStates == {"tunnel", "response"}

\* tokio::io::copy from the client to the remote: read a unit, write a unit.
\* The first unit it reads is the first one the BufReader has not taken.
ReadClient ==
  /\ task = "tunnel"
  /\ InFlight = 0 /\ taken < sent
  /\ client # "reset"
  /\ taken' = taken + 1
  /\ UNCHANGED <<clientVars, task, lines, dropped, timer, answer, copyVars, ending,
                 remoteVars>>

WriteRemote ==
  /\ task = "tunnel"
  /\ InFlight > 0
  /\ remote # "reset"
  /\ up' = up + 1
  /\ UNCHANGED <<clientVars, task, headVars, timer, answer, fetched, down, ending,
                 remoteVars>>

\* The same from the remote to the client.
ReadRemote ==
  /\ task \in CopyStates
  /\ fetched = down /\ fetched < replied
  /\ remote # "reset"
  /\ fetched' = fetched + 1
  /\ UNCHANGED <<clientVars, task, headVars, timer, answer, up, down, ending,
                 remoteVars>>

WriteClient ==
  /\ task \in CopyStates
  /\ down < fetched
  /\ client # "reset"
  /\ down' = down + 1
  /\ UNCHANGED <<clientVars, task, headVars, timer, answer, up, fetched, ending,
                 remoteVars>>

\* A copy is over when its reader is and everything is written ..
UpDone   == client = "finished" /\ taken = sent /\ InFlight = 0
DownDone == remote = "finished" /\ fetched = replied /\ down = fetched

\* .. or by an error of the reader or the writer.
UpFails   == client = "reset" \/ (InFlight > 0 /\ remote = "reset")
DownFails == remote = "reset" \/ (down < fetched /\ client = "reset")

\* select!: whichever copy is over first ends both; what the other one has in
\* its buffer or in the socket is dropped.
EndTransfer ==
  /\ \/ task = "tunnel" /\ UpDone /\ End("up")
     \/ task \in CopyStates /\ DownDone /\ End("down")
     \/ task = "tunnel" /\ UpFails /\ End("error")
     \/ task \in CopyStates /\ DownFails /\ End("error")
     \/ task \in CopyStates /\ timer = "fired" /\ End("timeout")
  /\ UNCHANGED <<clientVars, headVars, answer, copyVars, remoteVars>>

\* The runtime is dropped, and the task with it, at whatever it waits for.
Shutdown ==
  /\ task \notin {"parse", "closed"}
  /\ End("shutdown")
  /\ UNCHANGED <<clientVars, headVars, answer, copyVars, remoteVars>>

-----------------------------------------------------------------------------
(* The environment *)

ClientSends ==
  /\ client = "open" /\ task # "closed"
  /\ sent < HeaderLines + MaxPayload
  /\ sent' = sent + 1
  /\ UNCHANGED <<request, client, task, headVars, timer, answer, copyVars, ending,
                 remoteVars>>

ClientStops ==
  /\ client = "open" /\ task # "closed"
  /\ client' \in {"finished", "reset"}
  /\ UNCHANGED <<request, sent, task, headVars, timer, answer, copyVars, ending,
                 remoteVars>>

RemoteSends ==
  /\ remote = "open" /\ task # "closed"
  /\ replied < MaxReply
  /\ replied' = replied + 1
  /\ UNCHANGED <<clientVars, task, headVars, timer, answer, copyVars, ending, peer,
                 remote>>

RemoteStops ==
  /\ remote = "open" /\ task # "closed"
  /\ remote' \in {"finished", "reset"}
  /\ UNCHANGED <<clientVars, task, headVars, timer, answer, copyVars, ending, peer,
                 replied>>

Expire ==
  /\ timer = "running"
  /\ timer' = "fired"
  /\ UNCHANGED <<clientVars, task, headVars, answer, copyVars, ending, remoteVars>>

Over == task = "closed" /\ UNCHANGED vars

-----------------------------------------------------------------------------
Init ==
  /\ request \in Requests /\ client = "open" /\ sent = 0
  /\ task = "headers" /\ taken = 0 /\ lines = 0 /\ dropped = 0
  /\ timer = "off" /\ answer = 0 /\ ending = "none"
  /\ up = 0 /\ fetched = 0 /\ down = 0
  /\ peer = NoHost /\ remote = "none" /\ replied = 0

\* What the task does without waiting for a peer.
Progress ==
  \/ FillBuffer \/ ReadLine \/ HeadersEnd \/ Decide \/ EndRefusal
  \/ Establish \/ EndTransfer
  \/ timer = "fired" /\ ConnectFails
  \/ ~request.large /\ ForwardHeaders

Next ==
  \/ Progress
  \/ Connect \/ ConnectFails \/ ForwardHeaders
  \/ ReadClient \/ WriteRemote \/ ReadRemote \/ WriteClient
  \/ Shutdown
  \/ ClientSends \/ ClientStops \/ RemoteSends \/ RemoteStops \/ Expire
  \/ Over

\* The runtime polls a task that can go on, and its timers fire.  Neither peer
\* owes the proxy anything: it need not send, read, answer or close.
Fairness == WF_vars(Progress) /\ WF_vars(Expire)

Spec     == Init /\ [][Next]_vars
FairSpec == Spec /\ Fairness

-----------------------------------------------------------------------------
(* Properties *)

TaskStates ==
  {"headers", "parse", "refuse", "connect", "establish", "forward", "tunnel",
   "response", "closed"}

\* Every variable has its type, and no direction of a copy writes anything that
\* it has not read.
TypeOK ==
  /\ request \in Requests
  /\ client \in {"open", "finished", "reset"}
  /\ remote \in {"none", "open", "finished", "reset"}
  /\ task \in TaskStates
  /\ timer \in {"off", "running", "fired"}
  /\ answer \in {0, 200, 400, 403, 502, 504}
  /\ ending \in {"none", "refused", "up", "down", "error", "timeout", "shutdown"}
  /\ peer \in Hosts \cup {NoHost}
  /\ sent \in 0 .. HeaderLines + MaxPayload
  /\ taken \in 0 .. sent
  /\ lines \in 0 .. taken /\ lines <= HeaderLines
  /\ dropped \in 0 .. taken - lines
  /\ up \in 0 .. taken - lines - dropped
  /\ replied \in 0 .. MaxReply /\ fetched \in 0 .. replied /\ down \in 0 .. fetched

\* docs/ARCHITECTURE.md, Whitelist Matching: an exact match of the host in
\* lower case, or the pattern without its star as suffix.
Documented(p, host) ==
  IF p.wild THEN EndsWith(Lower(host), <<".">> \o p.name)
            ELSE Lower(host) = Lower(p.name)

\* A host that a pattern in lower case covers according to the documentation
\* is never refused with 403, however it is written and requested.
CoveredNotRefused ==
  answer = 403 =>
    \A p \in Whitelist : p.name = Lower(p.name) => ~Documented(p, request.host)

\* The client hears one thing at a time: nothing of the remote before the
\* 200 of a tunnel, and nothing of it with an answer that refuses, whatever
\* failed in between.
OneAnswer ==
  /\ request.kind = "connect" /\ up + down > 0 => answer = 200
  /\ answer \notin {0, 200} => peer = NoHost /\ up + down = 0

\* A client that has asked for something, and is still there, hears how it went:
\* whatever failed or took too long on the way to the remote, the task does not
\* just close the connection.  The two exceptions are in the condition: a task
\* that is dropped, and a plain request that has reached its remote, where a
\* failure before the first unit of the response looks like an empty one.
ToldUnlessGone ==
  task = "closed" /\ answer = 0 /\ down = 0 =>
    \/ client = "reset"
    \/ ending = "shutdown"
    \/ request.kind = "garbage"
    \/ request.kind = "http" /\ remote # "none"

\* What no timeout covers: a client that does not end its headers, a remote
\* that does not read them.
Uncovered == task = "headers" \/ (task = "forward" /\ request.large)

Closed == task = "closed"

\* Every connection ends, or waits for ever for one of these two.
EndsOrUncovered == <>Closed \/ <>[]Uncovered

\* Where the task has a step of its own left, whatever the peers do.
TaskReady ==
  \/ task \in {"parse", "refuse", "establish"}
  \/ task = "forward" /\ ~request.large
  \/ task \in {"connect"} \cup CopyStates /\ timer = "fired"

\* Nothing but the task itself holds up such a step, nor a timer that runs.
ReadyStepsEnabled ==
  /\ TaskReady => ENABLED <<Progress>>_vars
  /\ timer = "running" => ENABLED <<Expire>>_vars

-----------------------------------------------------------------------------
(* What the repository says of the program and the code does not do *)

\* proxy.rs: all headers are read at once to avoid buffering issues.  Then
\* nothing the client sends after its headers is lost on the way.
NothingDropped == task \in CopyStates => dropped = 0

\* proxy.rs, is_allowed: what is stripped of "*." is ".example.com", so that
\* *.example.com stands for the subdomains and, "also", the base domain; nothing
\* else may be reached, by either handler.
ReachedAsDocumented ==
  peer # NoHost =>
    \E p \in Whitelist :
      Documented(p, peer) \/ (p.wild /\ Lower(peer) = Lower(p.name))

=============================================================================
