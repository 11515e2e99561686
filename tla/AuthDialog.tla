----------------------------- MODULE AuthDialog -----------------------------
(***************************************************************************)
(* One login: the client (identifier-cli/login and its flows) against the  *)
(* server's Identifier.Authenticate, which dispatches on the first message *)
(* to a flow (identifier/auth_provider.go, identifier/authflows/workos,    *)
(* auth/otp).  The stream is opened with a deadline before the flow runs,  *)
(* and the web flow then polls WorkOS until the user has signed in.        *)
(*                                                                         *)
(* Time is discrete.  The client's own steps take none, its HTTP requests  *)
(* to WorkOS at most Latency, a user at the keyboard any time.             *)
(***************************************************************************)
EXTENDS Naturals, Sequences

CONSTANTS ServerConfigs,  \* the flow lists a server may be configured with
          Interval,       \* between two polls (at least 5 s)
          ExpiresIn,      \* the lifetime of a device code
          Latency,        \* bound: of a request to WorkOS
          StreamTimeout   \* streamTimeout (5 minutes)

ServerFlows == {"otp", "token", "invite"}
ClientFlows == {"web", "token", "invite"}

ASSUME TimesAssumption ==
    /\ ServerConfigs \subseteq Seq(ServerFlows)
    /\ {Interval, ExpiresIn, StreamTimeout} \subseteq Nat \ {0} /\ Latency \in Nat

VARIABLES
    flows,      \* the dispatcher's flows; none: no handler is configured
    flow,       \* the flow the client runs
    now,        \* the time since the stream was opened
    client,     \* where the client is
    timer,      \* when its sleep ends, or when its poll was sent
    deadline,   \* of its polling
    answer,     \* what WorkOS answers the poll
    issued,     \* when WorkOS issued the device code
    decision,   \* what the user decided in the browser
    decided,    \* and when
    up, half,   \* the client's messages, and whether it closed its side
    down,       \* the server's messages
    got,        \* the last of them the client received
    server,     \* where the handler is
    secret,     \* the secret it received
    verified,   \* whether it has verified it
    stored,     \* whether the user is in the user map
    excuse      \* the user, the network or WorkOS has given a reason to fail

deviceVars == <<timer, deadline, answer, issued, decision, decided>>
handlerVars == <<server, secret, verified, stored>>
vars == <<flows, flow, now, client, deviceVars, up, half, down, got, handlerVars, excuse>>

Secrets   == {"token", "stale token", "otp", "code", "wrong code"}
Messages  == Secrets \cup {"name", "email"}
Resources == {"service_info", "code_sent", "authenticated"}
Ended     == {"ok", "failed"}

TypeOK ==
    /\ flows \in ServerConfigs /\ flow \in ClientFlows
    /\ {now, timer, deadline, issued, decided} \subseteq Nat
    /\ client \in {"start", "device", "issued", "loop", "sleep", "poll", "token", "name",
                   "info", "email", "status", "code", "result"} \cup Ended
    /\ answer \in {"none", "pending", "token", "denied", "expired"}
    /\ decision \in {"none", "approved", "denied"}
    /\ up \in Seq(Messages) /\ Len(up) <= 1 /\ down \in Seq(Resources) /\ Len(down) <= 1
    /\ got \in Resources \cup {"none"} /\ secret \in Secrets \cup {"none"}
    /\ server \in {"idle", "first", "otp", "getuser", "user", "info", "email", "invite",
                   "magic", "sent", "code", "verify", "authenticated", "store", "done"}
    /\ {half, verified, stored, excuse} \subseteq BOOLEAN

Init ==
    /\ flows \in ServerConfigs /\ flow \in ClientFlows
    /\ now = 0 /\ client = "start" /\ server = "idle"
    /\ timer = 0 /\ deadline = 0 /\ answer = "none"
    /\ issued = 0 /\ decision = "none" /\ decided = 0
    /\ up = <<>> /\ half = FALSE /\ down = <<>> /\ got = "none" /\ secret = "none"
    /\ verified = FALSE /\ stored = FALSE /\ excuse = FALSE

Expired == now >= StreamTimeout
Gone    == Expired \/ client \in Ended  \* login.Run cancels the stream as it returns

-----------------------------------------------------------------------------
(* The client.                                                             *)

\* A failure the client is given a reason for, and one it is not.
Excused == client' = "failed" /\ excuse' = TRUE
Fails   == client' = "failed" /\ UNCHANGED excuse

\* The Authority query fails, or the user declines to send the token.
Refuse ==
    /\ client = "start" /\ Excused
    /\ UNCHANGED <<flows, flow, now, deviceVars, up, half, down, got, handlerVars>>

FirstStep(f) == CASE f = "web" -> "device" [] f = "token" -> "token" [] f = "invite" -> "name"

\* Without a handler the server returns Unimplemented at once.
OpenStream ==
    /\ client = "start"
    /\ client' = FirstStep(flow)
    /\ server' = IF flows = <<>> THEN "done" ELSE "first"
    /\ UNCHANGED <<flows, flow, now, deviceVars, up, half, down, got, secret, verified,
                   stored, excuse>>

\* The user interrupts the client, or it dies.
ClientDies ==
    /\ client \notin Ended \cup {"start"} /\ Excused
    /\ UNCHANGED <<flows, flow, now, deviceVars, up, half, down, got, handlerVars>>

\* A Send fails when the stream has ended, which the client may not know yet.
SendOr(m, next, last, mayFail) ==
    \/ /\ up' = Append(up, m) /\ client' = next /\ half' = last
       /\ excuse' = (excuse \/ m \in {"stale token", "wrong code"})
    \/ /\ mayFail /\ Fails /\ UNCHANGED <<up, half>>

Send(m, next, last) ==
    /\ SendOr(m, next, last, Expired \/ server = "done")
    /\ UNCHANGED <<flows, flow, now, deviceVars, down, got, handlerVars>>

Has(f) == \E i \in DOMAIN flows : flows[i] = f

\* A server with an OTP provider prints the password its operator may use.
Otp == IF Has("otp") THEN {"otp"} ELSE {}

SendToken ==
    /\ client = "token"
    /\ \E t \in IF flow = "web" THEN {"token"} ELSE {"token", "stale token"} \cup Otp :
           Send(t, "result", TRUE)

\* Mutant: the client does not wait for the service info.
TypeNameNoWait == client = "name" /\ Send("name", "email", FALSE)

TypeName  == client = "name"  /\ Send("name", "info", FALSE)
TypeEmail == client = "email" /\ Send("email", "status", FALSE)
TypeCode  == client = "code"  /\ \E c \in {"code", "wrong code"} : Send(c, "result", TRUE)

\* An empty line where an email or a code is asked for.
TypeNothing ==
    /\ client \in {"email", "code"} /\ Excused
    /\ UNCHANGED <<flows, flow, now, deviceVars, up, half, down, got, handlerVars>>

NextStep == [info |-> "email", status |-> "code", result |-> "ok"]

\* The client takes the resource for what it expects, whatever its type.
Recv ==
    /\ client \in DOMAIN NextStep /\ down # <<>>
    /\ got' = Head(down) /\ down' = Tail(down) /\ client' = NextStep[client]
    /\ UNCHANGED <<flows, flow, now, deviceVars, up, half, handlerVars, excuse>>

\* The handler has returned (EOF or its status), or the deadline has passed.
RecvFails ==
    /\ client \in DOMAIN NextStep
    /\ (down = <<>> /\ server = "done") \/ Expired
    /\ Fails
    /\ UNCHANGED <<flows, flow, now, deviceVars, up, half, down, got, handlerVars>>

-----------------------------------------------------------------------------
(* The device flow: the client's polling loop, WorkOS and the user.        *)

dialogVars == <<flows, flow, up, half, down, got, handlerVars>>

IssueCode ==
    /\ client = "device"
    /\ client' = "issued" /\ issued' = now
    /\ UNCHANGED <<dialogVars, now, timer, deadline, answer, decision, decided, excuse>>

CodeReturns ==
    /\ client = "issued"
    /\ client' = "loop" /\ deadline' = now + ExpiresIn
    /\ UNCHANGED <<dialogVars, now, timer, answer, issued, decision, decided, excuse>>

\* Mutant: it backs off to twice the interval.
LoopTestBacksOff ==
    /\ client = "loop"
    /\ IF now < deadline
         THEN client' = "sleep" /\ timer' = now + 2 * Interval /\ UNCHANGED excuse
         ELSE Fails /\ UNCHANGED timer
    /\ UNCHANGED <<dialogVars, now, deadline, answer, issued, decision, decided>>

LoopTest ==
    /\ client = "loop"
    /\ IF now < deadline
         THEN client' = "sleep" /\ timer' = now + Interval /\ UNCHANGED excuse
         ELSE Fails /\ UNCHANGED timer
    /\ UNCHANGED <<dialogVars, now, deadline, answer, issued, decision, decided>>

Poll ==
    /\ client = "sleep" /\ now >= timer
    /\ client' = "poll" /\ timer' = now /\ answer' = "none"
    /\ UNCHANGED <<dialogVars, now, deadline, issued, decision, decided, excuse>>

\* What WorkOS says of the code: slow_down counts as pending.
Status == CASE now >= issued + ExpiresIn -> "expired"
            [] now < issued + ExpiresIn /\ decision = "none" -> "pending"
            [] now < issued + ExpiresIn /\ decision = "denied" -> "denied"
            [] now < issued + ExpiresIn /\ decision = "approved" -> "token"

WorkOSAnswers ==
    /\ client = "poll" /\ answer = "none"
    /\ answer' = Status
    /\ UNCHANGED <<dialogVars, now, client, timer, deadline, issued, decision, decided, excuse>>

PollDeviceToken ==
    /\ client = "poll" /\ answer # "none"
    /\ \/ answer = "pending" /\ client' = "loop" /\ UNCHANGED excuse
       \/ answer = "token" /\ client' = "token" /\ UNCHANGED excuse
       \/ answer \in {"denied", "expired"} /\ Fails
    /\ UNCHANGED <<dialogVars, now, deviceVars>>

\* A request that fails ends the flow; it is not retried.
RequestFails ==
    /\ client \in {"device", "issued", "poll"} /\ Excused
    /\ UNCHANGED <<dialogVars, now, deviceVars>>

\* The user has the URL once it is printed, and WorkOS takes it until it expires.
Decide(d) ==
    /\ client \in {"loop", "sleep", "poll"} /\ decision = "none" /\ now < issued + ExpiresIn
    /\ decision' = d /\ decided' = now /\ excuse' = (excuse \/ d = "denied")
    /\ UNCHANGED <<dialogVars, now, client, timer, deadline, answer, issued>>

Approve == Decide("approved")
Deny    == Decide("denied")

\* Time stands still for a step of the client that takes none; once the stream has
\* expired it only matters to the polling loop.
Tick ==
    /\ client \notin Ended \cup {"start", "loop"}
    /\ client = "issued" => now < issued + Latency
    /\ client = "sleep" => now < timer
    /\ client = "poll" => now < timer + Latency
    /\ client \in {"issued", "sleep", "poll"} \/ ~Expired
    /\ now' = now + 1
    /\ UNCHANGED <<dialogVars, client, deviceVars, excuse>>

-----------------------------------------------------------------------------
(* The server's handler.                                                   *)

clientVars == <<flows, flow, now, client, deviceVars, half, got>>

Match(f, m) == CASE f = "otp" -> m = "otp"
                 [] f = "token" -> m \in Secrets
                 [] f = "invite" -> m \notin Secrets

\* f is the first flow that matches, "none" if none does.
Dispatch(f, m) ==
    \/ \E i \in DOMAIN flows : /\ f = flows[i] /\ Match(f, m)
                               /\ \A j \in 1..(i - 1) : ~Match(flows[j], m)
    \/ f = "none" /\ \A i \in DOMAIN flows : ~Match(flows[i], m)

\* Mutant: the token is not verified.
EnterUnverified(f, m) == CASE f = "otp" -> "otp" [] f = "token" -> "getuser"
                           [] f = "invite" -> "info" [] f = "none" -> "done"

\* Where the first message takes the handler; the token's signature and claims are
\* checked locally (VerifyAccessToken), before the user is fetched.
Enter(f, m) == CASE f = "otp" -> "otp"
                 [] f = "token" -> IF m = "token" THEN "getuser" ELSE "done"
                 [] f = "invite" -> "info"
                 [] f = "none" -> "done"

Receive == up # <<>> /\ up' = Tail(up) /\ UNCHANGED <<clientVars, down, stored, excuse>>

HandleFirst ==
    /\ server = "first" /\ Receive
    /\ \E f \in ServerFlows \cup {"none"} :
           Dispatch(f, Head(up)) /\ server' = Enter(f, Head(up))
    /\ secret' = IF Head(up) \in Secrets THEN Head(up) ELSE "none"
    /\ verified' = (server' # "done" /\ Head(up) \in {"token", "otp"})

HandleEmail ==
    /\ server = "email" /\ Receive
    /\ server' = IF Head(up) = "email" THEN "invite" ELSE "done"
    /\ UNCHANGED <<secret, verified>>

HandleCode ==
    /\ server = "code" /\ Receive
    /\ server' = IF Head(up) \in Secrets THEN "verify" ELSE "done"
    /\ secret' = IF Head(up) \in Secrets THEN Head(up) ELSE "none"
    /\ UNCHANGED verified

\* Mutant: a Recv that does not see the end of the stream.
ReceiveFailsAtEOF ==
    /\ server \in {"first", "email", "code"} /\ up = <<>> /\ half
    /\ server' = "done"
    /\ UNCHANGED <<clientVars, up, down, secret, verified, stored, excuse>>

\* EOF once the client has closed its side, an error once the stream has ended.
ReceiveFails ==
    /\ server \in {"first", "email", "code"}
    /\ (up = <<>> /\ half) \/ Gone
    /\ server' = "done"
    /\ UNCHANGED <<clientVars, up, down, secret, verified, stored, excuse>>

\* Mutant: the invitation flow ends with its answer.
RepliesNoStore == [otp |-> <<"authenticated", "done">>, user |-> <<"authenticated", "done">>,
                   info |-> <<"service_info", "email">>, sent |-> <<"code_sent", "code">>,
                   authenticated |-> <<"authenticated", "done">>]

\* What is sent from where, and what comes next.
Replies == [otp |-> <<"authenticated", "done">>, user |-> <<"authenticated", "done">>,
            info |-> <<"service_info", "email">>, sent |-> <<"code_sent", "code">>,
            authenticated |-> <<"authenticated", "store">>]

Reply ==
    /\ server \in DOMAIN Replies
    /\ \/ down' = Append(down, Replies[server][1]) /\ server' = Replies[server][2]
       \/ Gone /\ server' = "done" /\ UNCHANGED down
    /\ UNCHANGED <<clientVars, up, secret, verified, stored, excuse>>

\* A request to WorkOS: what comes next, and what when it fails.
Request(pc, next, failed, blame) ==
    /\ server = pc
    /\ \/ server' = next /\ UNCHANGED excuse
       \/ server' = failed /\ excuse' = (excuse \/ blame)
    /\ UNCHANGED <<clientVars, up, down, secret, verified, stored>>

GetUser          == Request("getuser", "user", "done", TRUE)
CreateInvitation == Request("invite", "sent", "magic", FALSE)
SendMagicAuth    == Request("magic", "sent", "done", TRUE)

AuthenticateMagicAuth ==
    /\ server = "verify"
    /\ \/ secret = "code" /\ server' = "authenticated" /\ verified' = TRUE /\ UNCHANGED excuse
       \/ server' = "done" /\ excuse' = TRUE /\ UNCHANGED verified
    /\ UNCHANGED <<clientVars, up, down, secret, stored>>

StoreUser ==
    /\ server = "store"
    /\ stored' = TRUE /\ server' = "done"
    /\ UNCHANGED <<clientVars, up, down, secret, verified, excuse>>

-----------------------------------------------------------------------------
ClientStep == \/ OpenStream \/ SendToken \/ Recv \/ RecvFails
              \/ IssueCode \/ CodeReturns \/ LoopTest \/ Poll \/ WorkOSAnswers \/ PollDeviceToken

Handler == \/ HandleFirst \/ HandleEmail \/ HandleCode \/ ReceiveFails \/ Reply
           \/ GetUser \/ CreateInvitation \/ SendMagicAuth \/ AuthenticateMagicAuth \/ StoreUser

User == \/ Refuse \/ ClientDies \/ TypeName \/ TypeEmail \/ TypeCode \/ TypeNothing
        \/ Approve \/ Deny

Next == ClientStep \/ Handler \/ User \/ RequestFails \/ Tick

\* The processes run and time passes; a user need never do anything.
Spec == Init /\ [][Next]_vars /\ WF_vars(ClientStep) /\ WF_vars(Handler) /\ WF_vars(Tick)

-----------------------------------------------------------------------------
\* The client reports a login only on the resource the server sends once it has verified
\* the secret, although neither side looks at what kind of message it receives.
SuccessMeansVerified == client = "ok" => got = "authenticated" /\ verified

\* A token flow listed before the OTP flow takes the password for a token.
OtpFirst == \A i, j \in DOMAIN flows : flows[i] = "otp" /\ flows[j] = "token" => i < j

Served == /\ Has(IF flow = "invite" THEN "invite" ELSE "token")
          /\ flow = "token" => OtpFirst

InTime == /\ decision = "approved"
          /\ decided + Interval + 2 * Latency < issued + ExpiresIn

\* A user who does their part is logged in: without a fault, and while the stream lives,
\* a login only fails when the sign-in was not approved a poll before the code expired.
OnTimeLogsIn ==
    client = "failed" /\ Served /\ ~excuse /\ ~Expired => flow = "web" /\ ~InTime

\* Every handler returns, and so does a client that waits for no keyboard: the deadline of
\* the stream bounds the one, the expiry of the code the other.
DialogEnds == server # "idle" ~>
    server = "done" /\ (client \in Ended \/ client \in {"name", "email", "code"})

\* A user told they are logged in by the invitation flow is in the user map in the end.
ToldMeansStored == (client = "ok" /\ flow = "invite") ~> stored
=============================================================================
