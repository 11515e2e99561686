-------------------------- MODULE AuthDialog_proofs -------------------------
(***************************************************************************)
(* Proofs about AuthDialog, for any server configurations and any times.   *)
(*                                                                         *)
(* The inductive invariant Inv has five parts besides the types.  Dialog   *)
(* and Answering say that the two sides take turns: the client's place     *)
(* tells where the handler can be and what is under way, and the handler   *)
(* has verified what it answers (this carries TypeCorrect and Verified).   *)
(* Flow ties the place to the flow.  Answers says that with no reason to   *)
(* fail the handler is only done once it has answered with a login, and    *)
(* Times that a poll which missed the approval is followed by another one  *)
(* within an interval and two requests (these carry OnTime).               *)
(***************************************************************************)
EXTENDS AuthDialog, SequenceTheorems, TLAPS

Quiet == up = <<>> /\ down = <<>>

\* Where the client is tells where the handler can be, and what is under way.
Dialog ==
    /\ client = "start" => server = "idle" /\ Quiet /\ ~half
    /\ client \notin {"start", "failed"} => server # "idle"
    /\ client \in {"device", "issued", "loop", "sleep", "poll", "token", "name"} =>
           server \in {"first", "done"} /\ Quiet /\ ~half
    /\ client = "info" =>
           /\ ~half
           /\ \/ server = "first" /\ up = <<"name">> /\ down = <<>>
              \/ server = "info" /\ Quiet
              \/ server \in {"email", "done"} /\ up = <<>> /\ down = <<"service_info">>
              \/ server = "done" /\ down = <<>>
    /\ client = "email" => server \in {"email", "done"} /\ Quiet /\ ~half
    /\ client = "status" =>
           /\ ~half
           /\ \/ server = "email" /\ up = <<"email">> /\ down = <<>>
              \/ server \in {"invite", "magic", "sent"} /\ Quiet
              \/ server \in {"code", "done"} /\ up = <<>> /\ down = <<"code_sent">>
              \/ server = "done" /\ down = <<>>
    /\ client = "code" => server \in {"code", "done"} /\ Quiet /\ ~half
    /\ client = "result" =>
           \/ server \in {"first", "code"} /\ up # <<>> /\ Head(up) \in Secrets /\ down = <<>>
           \/ server \in {"otp", "getuser", "user", "verify", "authenticated"} /\ Quiet
           \/ server \in {"store", "done"} /\ down = <<"authenticated">> /\ verified
           \/ server = "done" /\ down = <<>>
    /\ client = "ok" => /\ server \in {"store", "done"} /\ down = <<>>
                        /\ got = "authenticated" /\ verified

\* The handler answers with a login only what it has verified, one resource at a time.
Answering ==
    /\ server \in {"otp", "getuser", "user", "authenticated", "store"} => verified
    /\ server \in DOMAIN Replies \cup {"first", "getuser", "invite", "magic", "verify"} =>
           down = <<>>
    /\ server \in {"email", "code"} /\ up # <<>> => down = <<>>
    /\ server \in {"info", "invite", "magic", "sent"} => up = <<>>

\* A queue of one message.
LEMMA Singles ==
    ASSUME NEW m
    PROVE  /\ Append(<<>>, m) = <<m>> /\ Head(<<m>>) = m /\ Tail(<<m>>) = <<>>
           /\ <<m>> # <<>> /\ Len(<<m>>) = 1 /\ Len(<<>>) = 0
  OBVIOUS

\* A queue that is not empty and holds at most one message holds one.
LEMMA ShortSeq ==
    ASSUME NEW S, NEW q \in Seq(S), Len(q) <= 1, q # <<>>
    PROVE  Head(q) \in S /\ q = <<Head(q)>>
  <1>0. Len(q) \in Nat /\ Len(q) # 0
    BY EmptySeq, LenProperties
  <1>1. Len(q) = 1
    BY <1>0
  <1>2. Head(q) \in S /\ Head(q) = q[1]
    BY <1>1
  <1>3. <<Head(q)>> \in Seq(S) /\ Len(<<Head(q)>>) = 1 /\ <<Head(q)>>[1] = Head(q)
    BY <1>2
  <1> QED
    BY <1>1, <1>2, <1>3, SeqEqual

\* Queues of messages of S.
LEMMA SeqShort ==
    ASSUME NEW S, NEW m \in S
    PROVE  <<>> \in Seq(S) /\ <<m>> \in Seq(S)
  OBVIOUS

\* The client's steps in the device flow, and a step of time: no message moves.
Waits == IssueCode \/ CodeReturns \/ LoopTest \/ Poll \/ WorkOSAnswers \/ PollDeviceToken
         \/ RequestFails \/ Approve \/ Deny \/ Tick

\* Where the first message can take the handler.
LEMMA Entered ==
    ASSUME NEW m, NEW f \in ServerFlows \cup {"none"}, Dispatch(f, m)
    PROVE  \/ Enter(f, m) = "otp" /\ m = "otp" /\ f = "otp"
           \/ Enter(f, m) = "getuser" /\ m = "token" /\ f = "token"
           \/ Enter(f, m) = "info" /\ m \notin Secrets /\ f = "invite"
           \/ Enter(f, m) = "done"
  BY DEF Dispatch, Match, Enter, ServerFlows, Secrets

\* A name and an email are no secrets.
LEMMA MessageTypes ==
    /\ {"stale token", "token", "otp", "code", "wrong code"} \subseteq Secrets
    /\ {"name", "email"} \cap Secrets = {}
    /\ Secrets \subseteq Messages /\ {"name", "email"} \subseteq Messages
  BY DEF Secrets, Messages

\* What one step may do to the dialog, in the terms of the invariant.
LEMMA Types == TypeOK /\ Dialog /\ Answering /\ [Next]_vars => TypeOK'
  <1> SUFFICES ASSUME TypeOK, Dialog, Answering, [Next]_vars
               PROVE  TypeOK'
    OBVIOUS
  <1> USE TimesAssumption DEF TypeOK, Ended
  <1>0. now + 1 \in Nat /\ now + Interval \in Nat /\ now + ExpiresIn \in Nat
    OBVIOUS
  <1>1. CASE UNCHANGED vars
    BY <1>1 DEF vars, deviceVars, handlerVars
  <1>2. CASE Waits
    <2> USE DEF dialogVars, deviceVars, handlerVars, Excused, Fails
    <2>1. CASE IssueCode \/ CodeReturns \/ Poll
      BY <1>0, <2>1 DEF IssueCode, CodeReturns, Poll
    <2>2. CASE LoopTest
      BY <1>0, <2>2 DEF LoopTest
    <2>3. CASE WorkOSAnswers
      <3>1. answer' \in {"none", "pending", "token", "denied", "expired"}
        BY <2>3 DEF WorkOSAnswers, Status
      <3> QED
        BY <2>3, <3>1 DEF WorkOSAnswers
    <2>4. CASE PollDeviceToken \/ RequestFails
      BY <2>4 DEF PollDeviceToken, RequestFails
    <2>5. CASE Approve \/ Deny
      <3>1. excuse' \in BOOLEAN /\ decision' \in {"approved", "denied"} /\ decided' = now
        BY <2>5 DEF Approve, Deny, Decide
      <3> QED
        BY <2>5, <3>1 DEF Approve, Deny, Decide
    <2>6. CASE Tick
      BY <1>0, <2>6 DEF Tick
    <2> QED
      BY <1>2, <2>1, <2>2, <2>3, <2>4, <2>5, <2>6 DEF Waits
  <1>3. CASE Refuse \/ ClientDies \/ TypeNothing \/ RecvFails
    BY <1>3 DEF Refuse, ClientDies, TypeNothing, RecvFails, Excused, Fails, deviceVars, handlerVars
  <1>4. CASE OpenStream
    BY <1>4 DEF OpenStream, FirstStep, ClientFlows, deviceVars, handlerVars
  <1>5. CASE SendToken \/ TypeName \/ TypeEmail \/ TypeCode
    <2>1. up = <<>>
      BY <1>5 DEF SendToken, TypeName, TypeEmail, TypeCode, Dialog, Quiet
    <2>2. PICK m \in Messages, next \in {"info", "status", "result"}, last \in BOOLEAN :
             Send(m, next, last)
      BY <1>5, MessageTypes DEF SendToken, TypeName, TypeEmail, TypeCode, Otp
    <2>3. Append(up, m) \in Seq(Messages) /\ Len(Append(up, m)) <= 1
      BY <2>1, <2>2, Singles, SeqShort
    <2> QED
      <3>1. half' \in BOOLEAN /\ excuse' \in BOOLEAN
        BY <2>2 DEF Send, SendOr, Fails
      <3>2. client' \in {"info", "status", "result", "failed"}
        BY <2>2 DEF Send, SendOr, Fails
      <3>3. up' \in Seq(Messages) /\ Len(up') <= 1
        BY <2>2, <2>3 DEF Send, SendOr
      <3>4. UNCHANGED <<flows, flow, now, deviceVars, down, got, handlerVars>>
        BY <2>2 DEF Send
      <3> QED
        BY <3>1, <3>2, <3>3, <3>4 DEF deviceVars, handlerVars
  <1>6. CASE Recv
    <2>1. down # <<>> /\ Head(down) \in Resources /\ Tail(down) = <<>> /\ <<>> \in Seq(Resources)
      BY <1>6, ShortSeq, Singles DEF Recv
    <2>2. client' \in {"email", "code", "ok"}
      BY <1>6 DEF Recv, NextStep
    <2> QED
      BY <1>6, <2>1, <2>2, Singles DEF Recv, deviceVars, handlerVars
  <1> DEFINE Places == {"idle", "first", "otp", "getuser", "user", "info", "email", "invite",
                        "magic", "sent", "code", "verify", "authenticated", "store", "done"}
  <1>7. CASE HandleFirst \/ HandleEmail \/ HandleCode
    <2>1. up # <<>> /\ Receive
      BY <1>7 DEF HandleFirst, HandleEmail, HandleCode, Receive
    <2>2. Tail(up) = <<>> /\ <<>> \in Seq(Messages)
      BY <2>1, ShortSeq, Singles
    <2>3. server' \in Places /\ secret' \in Secrets \cup {"none"} /\ verified' \in BOOLEAN
      <3>1. CASE HandleFirst
        BY <3>1, Entered DEF HandleFirst
      <3>2. CASE HandleEmail \/ HandleCode
        BY <3>2 DEF HandleEmail, HandleCode
      <3> QED
        BY <1>7, <3>1, <3>2
    <2> QED
      BY <2>1, <2>2, <2>3, Singles DEF Receive, clientVars, deviceVars
  <1>8. CASE Reply
    <2>1. down = <<>>
      BY <1>8 DEF Reply, Answering
    <2>2. Append(down, Replies[server][1]) \in Seq(Resources)
          /\ Len(Append(down, Replies[server][1])) <= 1 /\ Replies[server][2] \in Places
      BY <1>8, <2>1, Singles, SeqShort DEF Reply, Replies, Resources
    <2> QED
      BY <1>8, <2>2 DEF Reply, clientVars, deviceVars
  <1>9. CASE ReceiveFails \/ GetUser \/ CreateInvitation \/ SendMagicAuth
             \/ AuthenticateMagicAuth \/ StoreUser
    BY <1>9 DEF ReceiveFails, GetUser, CreateInvitation, SendMagicAuth, Request,
       AuthenticateMagicAuth, StoreUser, clientVars, deviceVars
  <1> QED
    BY <1>1, <1>2, <1>3, <1>4, <1>5, <1>6, <1>7, <1>8, <1>9
       DEF Next, ClientStep, Handler, User, Waits

\* Client and server take turns.
LEMMA Turns == TypeOK /\ Dialog /\ Answering /\ [Next]_vars => Dialog' /\ Answering'
  <1> SUFFICES ASSUME TypeOK, Dialog, Answering, [Next]_vars
               PROVE  Dialog' /\ Answering'
    OBVIOUS
  <1> USE DEF Dialog, Answering, Quiet, Replies
  <1>1. CASE UNCHANGED vars
    BY <1>1 DEF vars, deviceVars, handlerVars
  <1>2. CASE Waits
    <2>1. /\ UNCHANGED <<up, down, half, got, server, verified>>
          /\ client \in {"device", "issued", "loop", "sleep", "poll"} \/ client' = client
          /\ \/ client' \in {"device", "issued", "loop", "sleep", "poll", "token", "failed"}
             \/ client' = client
      BY <1>2 DEF Waits, IssueCode, CodeReturns, LoopTest, Poll, WorkOSAnswers,
         PollDeviceToken, RequestFails, Approve, Deny, Decide, Tick, Excused, Fails, dialogVars,
         handlerVars
    <2> QED
      BY <2>1
  <1>3. CASE Refuse \/ ClientDies \/ TypeNothing \/ RecvFails
    <2>1. UNCHANGED <<up, down, half, got, server, verified>> /\ client' = "failed"
      BY <1>3 DEF Refuse, ClientDies, TypeNothing, RecvFails, Excused, Fails, handlerVars
    <2> QED
      BY <2>1
  <1>4. CASE OpenStream
    BY <1>4 DEF OpenStream, FirstStep, ClientFlows, TypeOK
  <1>5. CASE SendToken \/ TypeName \/ TypeEmail \/ TypeCode
    <2>1. UNCHANGED <<down, got, server, verified>> /\ up = <<>> /\ down = <<>> /\ ~half
      BY <1>5 DEF SendToken, TypeName, TypeEmail, TypeCode, Send, handlerVars
    <2>2. CASE client' = "failed"
      <3>1. UNCHANGED up
        BY <1>5, <2>2 DEF SendToken, TypeName, TypeEmail, TypeCode, Send, SendOr
      <3> QED
        BY <2>1, <2>2, <3>1
    <2>3. CASE SendToken /\ client' # "failed"
      <3>1. PICK t \in Secrets : up' = <<t>> /\ client' = "result"
        BY <2>1, <2>3, MessageTypes, Singles DEF SendToken, Send, SendOr, Fails, Otp
      <3> QED
        BY <2>1, <2>3, <3>1, Singles DEF SendToken
    <2>4. CASE (TypeName \/ TypeEmail) /\ client' # "failed"
      BY <2>1, <2>4, Singles DEF TypeName, TypeEmail, Send, SendOr, Fails
    <2>5. CASE TypeCode /\ client' # "failed"
      <3>1. PICK t \in Secrets : up' = <<t>> /\ client' = "result"
        BY <2>1, <2>5, MessageTypes, Singles DEF TypeCode, Send, SendOr, Fails
      <3> QED
        BY <2>1, <2>5, <3>1, Singles DEF TypeCode
    <2> QED
      BY <1>5, <2>2, <2>3, <2>4, <2>5
  <1>6. CASE Recv
    <2>1. /\ down # <<>> /\ Tail(down) = <<>> /\ down = <<Head(down)>>
          /\ down' = <<>> /\ got' = Head(down) /\ UNCHANGED <<up, half, server, verified>>
      BY <1>6, ShortSeq, Singles DEF Recv, TypeOK, handlerVars
    <2>2. \/ client = "info" /\ client' = "email"
          \/ client = "status" /\ client' = "code"
          \/ client = "result" /\ client' = "ok"
      BY <1>6 DEF Recv, NextStep
    <2> QED
      BY <2>1, <2>2, Singles
  <1>7. CASE HandleFirst \/ HandleEmail \/ HandleCode
    <2>1. /\ up # <<>> /\ Tail(up) = <<>> /\ up = <<Head(up)>> /\ up' = <<>>
          /\ down = <<>> /\ UNCHANGED <<client, down, half, got>>
      BY <1>7, ShortSeq, Singles DEF HandleFirst, HandleEmail, HandleCode, Receive,
         clientVars, TypeOK
    <2>2. CASE HandleFirst
      <3>1. /\ verified' = (server' # "done" /\ Head(up) \in {"token", "otp"})
            /\ \/ server' = "otp" /\ Head(up) = "otp"
               \/ server' = "getuser" /\ Head(up) = "token"
               \/ server' = "info" /\ Head(up) \notin Secrets
               \/ server' = "done"
        BY <2>2, Entered DEF HandleFirst
      <3> QED
        BY <2>1, <2>2, <3>1, MessageTypes, Singles DEF HandleFirst
    <2>3. CASE HandleEmail
      <3>1. server = "email" /\ verified' = verified /\ server' \in {"invite", "done"}
        BY <2>3 DEF HandleEmail
      <3>2. client \in {"status", "failed"} /\ (client = "status" => ~half)
        BY <2>1, <3>1 DEF TypeOK, Ended
      <3> QED
        BY <2>1, <3>1, <3>2
    <2>4. CASE HandleCode
      <3>1. server = "code" /\ verified' = verified /\ server' \in {"verify", "done"}
        BY <2>4 DEF HandleCode
      <3>2. client \in {"result", "failed"}
        BY <2>1, <3>1 DEF TypeOK, Ended
      <3> QED
        BY <2>1, <3>1, <3>2
    <2> QED
      BY <1>7, <2>2, <2>3, <2>4
  <1>8. CASE Reply
    <2>1. UNCHANGED <<client, up, half, got, verified>> /\ down = <<>>
      BY <1>8 DEF Reply, clientVars
    <2>2. CASE server' = "done" /\ down' = down
      BY <1>8, <2>1, <2>2 DEF Reply
    <2>3. CASE server \in {"otp", "user"} /\ down' = <<"authenticated">> /\ server' = "done"
      BY <2>1, <2>3, Singles
    <2>4. CASE server = "info" /\ down' = <<"service_info">> /\ server' = "email"
      BY <2>1, <2>4, Singles
    <2>5. CASE server = "sent" /\ down' = <<"code_sent">> /\ server' = "code"
      BY <2>1, <2>5, Singles
    <2>6. CASE server = "authenticated" /\ down' = <<"authenticated">> /\ server' = "store"
      BY <2>1, <2>6, Singles
    <2> QED
      BY <1>8, <2>1, <2>2, <2>3, <2>4, <2>5, <2>6, Singles DEF Reply
  <1>9. CASE ReceiveFails \/ GetUser \/ CreateInvitation \/ SendMagicAuth
             \/ AuthenticateMagicAuth \/ StoreUser
    BY <1>9, Singles DEF ReceiveFails, GetUser, CreateInvitation, SendMagicAuth, Request,
       AuthenticateMagicAuth, StoreUser, clientVars
  <1> QED
    BY <1>1, <1>2, <1>3, <1>4, <1>5, <1>6, <1>7, <1>8, <1>9
       DEF Next, ClientStep, Handler, User, Waits

-----------------------------------------------------------------------------
(* What a client that gives no reason is told.                             *)

\* The client is where its flow takes it, and sends what the flow has to send.
Flow ==
    /\ client \in {"device", "issued", "loop", "sleep", "poll"} => flow = "web"
    /\ client = "token" => flow \in {"web", "token"}
    /\ client \in {"name", "info", "email", "status", "code"} => flow = "invite"
    /\ client = "result" /\ server = "first" =>
           flow \in {"web", "token"} /\ (flow = "web" => up = <<"token">>)
    /\ client = "result" /\ server = "code" => flow = "invite"

\* No reason to fail has been given, to a server that serves the flow.
Blameless == Served /\ ~excuse /\ ~Expired /\ client \notin Ended

\* Then the handler gets what it asks for, and is done only once it has answered with a login.
Answers ==
    Blameless =>
        /\ server = "done" => client = "result" /\ down = <<"authenticated">>
        /\ client = "result" /\ server = "first" => Head(up) \in {"token"} \cup Otp

\* The client stays within its flow.
LEMMA FlowKept == TypeOK /\ Dialog /\ Flow /\ [Next]_vars => Flow'
  <1> SUFFICES ASSUME TypeOK, Dialog, Flow, [Next]_vars
               PROVE  Flow'
    OBVIOUS
  <1> USE DEF Dialog, Quiet, Flow
  <1>1. CASE UNCHANGED vars
    BY <1>1 DEF vars, deviceVars, handlerVars
  <1>2. CASE Waits
    <2>1. /\ UNCHANGED <<flow, up, server>>
          /\ client \in {"device", "issued", "loop", "sleep", "poll"} \/ client' = client
          /\ \/ client' \in {"device", "issued", "loop", "sleep", "poll", "token", "failed"}
             \/ client' = client
      BY <1>2 DEF Waits, IssueCode, CodeReturns, LoopTest, Poll, WorkOSAnswers,
         PollDeviceToken, RequestFails, Approve, Deny, Decide, Tick, Excused, Fails, dialogVars,
         handlerVars
    <2> QED
      BY <2>1
  <1>3. CASE Refuse \/ ClientDies \/ TypeNothing \/ RecvFails
    BY <1>3 DEF Refuse, ClientDies, TypeNothing, RecvFails, Excused, Fails, handlerVars
  <1>4. CASE OpenStream
    BY <1>4 DEF OpenStream, FirstStep, ClientFlows, TypeOK
  <1>5. CASE SendToken
    <2>1. UNCHANGED <<flow, server>> /\ up = <<>> /\ server # "code" /\ flow \in {"web", "token"}
      BY <1>5 DEF SendToken, Send, handlerVars
    <2>2. client' = "failed" \/ (client' = "result" /\ (flow = "web" => up' = <<"token">>))
      BY <1>5, <2>1, Singles DEF SendToken, Send, SendOr, Fails
    <2> QED
      BY <2>1, <2>2
  <1>6. CASE TypeName \/ TypeEmail \/ TypeCode
    <2>1. UNCHANGED <<flow, server>> /\ flow = "invite"
      BY <1>6 DEF TypeName, TypeEmail, TypeCode, Send, handlerVars
    <2>2. \/ client' \in {"failed", "info", "status"}
          \/ client' = "result" /\ client = "code"
      BY <1>6 DEF TypeName, TypeEmail, TypeCode, Send, SendOr, Fails
    <2> QED
      BY <2>1, <2>2
  <1>7. CASE Recv
    BY <1>7 DEF Recv, NextStep, handlerVars
  <1>8. CASE HandleFirst \/ HandleEmail \/ HandleCode
    <2>1. /\ UNCHANGED <<flow, client>> /\ server' # "first"
          /\ server' # "code"
      BY <1>8, Entered DEF HandleFirst, HandleEmail, HandleCode, Receive, clientVars
    <2> QED
      BY <2>1
  <1>9. CASE Reply
    <2>1. UNCHANGED <<flow, client, up>> /\ server' # "first"
      BY <1>9 DEF Reply, Replies, clientVars
    <2>2. server' = "code" => server = "sent"
      BY <1>9 DEF Reply, Replies
    <2> QED
      BY <2>1, <2>2
  <1>10. CASE ReceiveFails \/ GetUser \/ CreateInvitation \/ SendMagicAuth
             \/ AuthenticateMagicAuth \/ StoreUser
    BY <1>10 DEF ReceiveFails, GetUser, CreateInvitation, SendMagicAuth, Request,
       AuthenticateMagicAuth, StoreUser, clientVars
  <1> QED
    BY <1>1, <1>2, <1>3, <1>4, <1>5, <1>6, <1>7, <1>8, <1>9, <1>10
       DEF Next, ClientStep, Handler, User, Waits

\* A server that serves the flow takes its first message.
LEMMA Accepted ==
    ASSUME flows \in Seq(ServerFlows), Served, NEW m, NEW f, Dispatch(f, m),
           \/ flow = "invite" /\ m = "name"
           \/ flow # "invite" /\ m = "token"
           \/ flow = "token" /\ m \in Otp
    PROVE  Enter(f, m) # "done"
  <1>1. \A i \in DOMAIN flows : flows[i] \in ServerFlows /\ i \in 1..Len(flows)
    OBVIOUS
  <1>2. CASE flow = "invite" /\ m = "name"
    <2>1. \A g \in ServerFlows : Match(g, m) <=> g = "invite"
      BY <1>2 DEF Match, ServerFlows, Secrets
    <2>2. f = "invite"
      BY <1>1, <1>2, <2>1 DEF Dispatch, Served, Has
    <2> QED
      BY <2>2 DEF Enter
  <1>3. CASE flow # "invite" /\ m = "token"
    <2>1. \A g \in ServerFlows : Match(g, m) <=> g = "token"
      BY <1>3 DEF Match, ServerFlows, Secrets
    <2>2. f = "token"
      BY <1>1, <1>3, <2>1 DEF Dispatch, Served, Has
    <2> QED
      BY <1>3, <2>2 DEF Enter
  <1>4. CASE flow = "token" /\ m \in Otp
    <2>1. m = "otp" /\ Has("otp") /\ OtpFirst
      BY <1>4 DEF Otp, Served
    <2>2. \A g \in ServerFlows : Match(g, m) <=> g \in {"otp", "token"}
      BY <2>1 DEF Match, ServerFlows, Secrets
    <2>3. PICK k \in DOMAIN flows : flows[k] = "otp"
      BY <2>1 DEF Has
    <2>4. PICK i \in DOMAIN flows : /\ f = flows[i] /\ Match(f, m)
                                    /\ \A j \in 1..(i - 1) : ~Match(flows[j], m)
      BY <1>1, <2>2, <2>3 DEF Dispatch
    <2>5. ASSUME f = "token" PROVE FALSE
      <3>1. k < i
        BY <2>1, <2>3, <2>4, <2>5 DEF OtpFirst
      <3>2. k \in 1..(i - 1)
        BY <1>1, <3>1
      <3> QED
        BY <1>1, <2>2, <2>3, <2>4, <3>2
    <2> QED
      BY <1>1, <2>2, <2>4, <2>5 DEF Enter
  <1> QED
    BY <1>2, <1>3, <1>4

\* What is given stays given, and what ends stays ended.
LEMMA Monotone ==
    ASSUME TypeOK, [Next]_vars
    PROVE  /\ UNCHANGED <<flows, flow>> /\ (excuse => excuse')
           /\ client \in Ended => client' = client
           /\ now' = now \/ now' = now + 1
  <1> USE DEF deviceVars, handlerVars, dialogVars, Excused, Fails, Ended, TypeOK
  <1>1. CASE UNCHANGED vars
    BY <1>1 DEF vars
  <1>2. CASE Waits
    <2>1. CASE Approve \/ Deny
      BY <2>1 DEF Approve, Deny, Decide
    <2> QED
      BY <1>2, <2>1 DEF Waits, IssueCode, CodeReturns, LoopTest, Poll, WorkOSAnswers,
         PollDeviceToken, RequestFails, Tick
  <1>3. CASE Refuse \/ ClientDies \/ TypeNothing \/ RecvFails \/ OpenStream \/ Recv
    BY <1>3 DEF Refuse, ClientDies, TypeNothing, RecvFails, OpenStream, Recv, NextStep
  <1>4. CASE SendToken \/ TypeName \/ TypeEmail \/ TypeCode
    <2>1. client \notin Ended
      BY <1>4 DEF SendToken, TypeName, TypeEmail, TypeCode
    <2>2. PICK m, next, last : Send(m, next, last)
      BY <1>4 DEF SendToken, TypeName, TypeEmail, TypeCode
    <2>3. UNCHANGED <<flows, flow, now>>
      BY <2>2 DEF Send
    <2>4. excuse => excuse'
      BY <2>2 DEF Send, SendOr
    <2> QED
      BY <2>1, <2>3, <2>4
  <1>5. CASE HandleFirst \/ HandleEmail \/ HandleCode \/ Reply \/ ReceiveFails \/ StoreUser
    BY <1>5 DEF HandleFirst, HandleEmail, HandleCode, Receive, Reply, ReceiveFails, StoreUser,
       clientVars
  <1>6. CASE GetUser \/ CreateInvitation \/ SendMagicAuth \/ AuthenticateMagicAuth
    BY <1>6 DEF GetUser, CreateInvitation, SendMagicAuth, AuthenticateMagicAuth, Request,
       clientVars
  <1> QED
    BY <1>1, <1>2, <1>3, <1>4, <1>5, <1>6 DEF Next, ClientStep, Handler, User, Waits

\* Every step that ends the handler without a login leaves a reason or ends the stream.
LEMMA AnswersKept == TypeOK /\ Dialog /\ Flow /\ Answers /\ [Next]_vars => Answers'
  <1> SUFFICES ASSUME TypeOK, Dialog, Flow, Answers, [Next]_vars, Blameless'
               PROVE  /\ server' = "done" => client' = "result" /\ down' = <<"authenticated">>
                      /\ client' = "result" /\ server' = "first" =>
                             (Head(up) \in {"token"} \cup Otp)'
    BY DEF Answers
  <1>o. (Otp)' = Otp
    BY Monotone DEF Otp, Has
  <1>a. /\ Blameless /\ Served /\ ~excuse' /\ ~excuse /\ ~Expired
        /\ client \notin Ended /\ client' \notin Ended
    <2>1. StreamTimeout \in Nat
      BY TimesAssumption
    <2>2. ~Expired
      BY <2>1, Monotone DEF Blameless, Expired, TypeOK
    <2> QED
      BY <2>2, Monotone DEF Blameless, Served, OtpFirst, Has, Ended
  <1>b. /\ server = "done" => client = "result" /\ down = <<"authenticated">>
        /\ client = "result" /\ server = "first" => Head(up) \in {"token"} \cup Otp
    BY <1>a DEF Answers
  <1>c. client' # "failed" /\ client' # "ok" /\ client # "failed" /\ client # "ok"
    BY <1>a DEF Ended
  <1>d. flows \in Seq(ServerFlows) /\ flow \in ClientFlows
    BY TimesAssumption DEF TypeOK
  <1> USE DEF Dialog, Quiet, Flow
  <1>1. CASE UNCHANGED vars
    BY <1>1, <1>o, <1>b DEF vars, deviceVars, handlerVars
  <1>2. CASE Waits
    <2>1. /\ UNCHANGED <<down, up, server>>
          /\ client \in {"device", "issued", "loop", "sleep", "poll"} \/ client' = client
          /\ \/ client' \in {"device", "issued", "loop", "sleep", "poll", "token", "failed"}
             \/ client' = client
      BY <1>2 DEF Waits, IssueCode, CodeReturns, LoopTest, Poll, WorkOSAnswers,
         PollDeviceToken, RequestFails, Approve, Deny, Decide, Tick, Excused, Fails, dialogVars,
         handlerVars
    <2> QED
      BY <2>1, <1>o, <1>b, <1>c
  <1>3. CASE Refuse \/ ClientDies \/ TypeNothing \/ RecvFails
    BY <1>3, <1>c DEF Refuse, ClientDies, TypeNothing, RecvFails, Excused, Fails
  <1>4. CASE OpenStream
    <2>1. flows # <<>>
      BY <1>a DEF Served, Has
    <2> QED
      BY <1>4, <1>d, <2>1 DEF OpenStream, FirstStep, ClientFlows
  <1>5. CASE SendToken \/ TypeName \/ TypeEmail \/ TypeCode
    <2>1. UNCHANGED <<down, server>> /\ up = <<>>
      BY <1>5 DEF SendToken, TypeName, TypeEmail, TypeCode, Send, handlerVars
    <2>2. server # "done"
      BY <1>5, <1>b DEF SendToken, TypeName, TypeEmail, TypeCode
    <2>3. CASE SendToken
      <3>1. PICK t \in {"token", "stale token"} \cup Otp :
              up' = Append(up, t) /\ excuse' = (excuse \/ t \in {"stale token", "wrong code"})
        BY <2>3, <1>c DEF SendToken, Send, SendOr, Fails
      <3>2. Head(up') = t /\ t \in {"token"} \cup Otp
        BY <2>1, <3>1, <1>a, Singles DEF Otp
      <3> QED
        BY <2>1, <2>2, <3>2, <1>o
    <2>4. CASE TypeName \/ TypeEmail \/ TypeCode
      <3>1. client' = "result" => server # "first"
        BY <2>4, <1>c DEF TypeName, TypeEmail, TypeCode, Send, SendOr, Fails
      <3> QED
        BY <2>1, <2>2, <3>1
    <2> QED
      BY <1>5, <2>3, <2>4
  <1>6. CASE Recv
    <2>1. \/ client = "info" /\ client' = "email"
          \/ client = "status" /\ client' = "code"
      BY <1>6, <1>c DEF Recv, NextStep
    <2> QED
      BY <1>6, <1>b, <2>1 DEF Recv, handlerVars
  <1>7. CASE HandleFirst \/ HandleEmail \/ HandleCode
    <2>1. up # <<>> /\ UNCHANGED client
      BY <1>7 DEF HandleFirst, HandleEmail, HandleCode, Receive, clientVars
    <2>2. CASE HandleFirst
      <3>1. PICK f \in ServerFlows \cup {"none"} :
              Dispatch(f, Head(up)) /\ server' = Enter(f, Head(up))
        BY <2>2 DEF HandleFirst
      <3>2. server = "first"
        BY <2>2 DEF HandleFirst
      <3>3. \/ client = "info" /\ flow = "invite" /\ Head(up) = "name"
            \/ client = "result" /\ flow = "web" /\ Head(up) = "token"
            \/ client = "result" /\ flow = "token" /\ Head(up) \in {"token"} \cup Otp
        <4>1. client \in {"info", "result"} /\ flow \in {"web", "token", "invite"}
          BY <2>1, <3>2, <1>c DEF TypeOK, Ended, ClientFlows
        <4> QED
          BY <2>1, <3>2, <4>1, <1>b, Singles
      <3> DEFINE m == Head(up)
      <3>4. \/ flow = "invite" /\ m = "name"
            \/ flow # "invite" /\ m = "token"
            \/ flow = "token" /\ m \in Otp
        BY <3>3
      <3>5. Dispatch(f, m) /\ server' = Enter(f, m)
        BY <3>1
      <3> HIDE DEF m
      <3>6. Enter(f, m) # "done"
        BY <3>4, <3>5, <1>a, <1>d, Accepted
      <3>7. Enter(f, m) # "first"
        BY <3>5, Entered, <3>1
      <3> QED
        BY <3>5, <3>6, <3>7
    <2>3. CASE HandleEmail
      <3>1. client = "status" /\ Head(up) = "email"
        BY <2>1, <2>3, <1>c, Singles DEF HandleEmail, TypeOK, Ended
      <3> QED
        BY <2>3, <3>1 DEF HandleEmail
    <2>4. CASE HandleCode
      <3>1. client = "result" /\ Head(up) \in Secrets
        BY <2>1, <2>4, <1>c, Singles DEF HandleCode, TypeOK, Ended
      <3> QED
        BY <2>4, <3>1 DEF HandleCode
    <2> QED
      BY <1>7, <2>2, <2>3, <2>4
  <1>8. CASE ReceiveFails
    <2>1. server \in {"first", "email", "code"} /\ up = <<>> /\ half
      BY <1>8, <1>a DEF ReceiveFails, Gone
    <2> QED
      BY <2>1, <1>c DEF TypeOK, Ended
  <1>9. CASE Reply
    <2>1. UNCHANGED client /\ down' = Append(down, Replies[server][1])
          /\ server \in DOMAIN Replies /\ server' = Replies[server][2]
      BY <1>9, <1>a DEF Reply, Gone, clientVars
    <2>2. CASE server \in {"otp", "user"}
      <3>1. client = "result" /\ down = <<>>
        BY <2>2, <1>c DEF TypeOK, Ended
      <3>2. down' = Append(<<>>, "authenticated")
        BY <2>1, <2>2, <3>1 DEF Replies
      <3> QED
        BY <2>1, <2>2, <3>1, <3>2, Singles DEF Replies
    <2>3. CASE server \in {"info", "sent", "authenticated"}
      BY <2>1, <2>3 DEF Replies
    <2> QED
      BY <2>1, <2>2, <2>3 DEF Replies
  <1>10. CASE GetUser \/ CreateInvitation \/ SendMagicAuth \/ AuthenticateMagicAuth
    BY <1>10, <1>a DEF GetUser, CreateInvitation, SendMagicAuth, Request, AuthenticateMagicAuth
  <1>11. CASE StoreUser
    <2>1. client = "result" /\ down = <<"authenticated">>
      BY <1>11, <1>c DEF StoreUser, TypeOK, Ended
    <2> QED
      BY <1>11, <2>1 DEF StoreUser, clientVars
  <1> QED
    BY <1>1, <1>2, <1>3, <1>4, <1>5, <1>6, <1>7, <1>8, <1>9, <1>10, <1>11
       DEF Next, ClientStep, Handler, User, Waits

-----------------------------------------------------------------------------
(* The polling of the device flow.                                         *)

\* When the user has approved and the client has not seen it yet, the next poll is due
\* within an interval of the answer that missed it.
Times ==
    /\ client \in {"start", "device", "issued"} => decision = "none"
    /\ decision = "denied" => excuse
    /\ client \in {"loop", "sleep", "poll"} => deadline >= issued + ExpiresIn
    /\ client = "issued" => issued <= now
    /\ client = "sleep" => now <= timer /\ timer <= now + Interval
    /\ client = "poll" => /\ timer <= now /\ now <= timer + Latency
                          /\ answer = "denied" => decision = "denied"
                          /\ answer = "expired" => now >= issued + ExpiresIn
    /\ decision = "approved" /\ client \in {"loop", "sleep", "poll"} =>
           /\ client = "loop" => now <= decided + Latency
           /\ client = "sleep" => timer <= decided + Latency + Interval
           /\ client = "poll" /\ answer = "none" => timer <= decided + Latency + Interval
           /\ client = "poll" /\ answer = "pending" => timer <= decided
           /\ client = "poll" /\ answer = "expired" => ~InTime

\* Every step of the client, of WorkOS, of the user and of time keeps the polling on time.
LEMMA TimesKept == TypeOK /\ Times /\ [Next]_vars => Times'
  <1> SUFFICES ASSUME TypeOK, Times, [Next]_vars
               PROVE  Times'
    OBVIOUS
  <1>a. /\ now \in Nat /\ timer \in Nat /\ deadline \in Nat /\ issued \in Nat /\ decided \in Nat
        /\ Interval \in Nat /\ ExpiresIn \in Nat /\ Latency \in Nat
        /\ answer \in {"none", "pending", "token", "denied", "expired"}
        /\ decision \in {"none", "approved", "denied"} /\ excuse \in BOOLEAN
    BY TimesAssumption DEF TypeOK
  <1> USE <1>a DEF Times, dialogVars, deviceVars, handlerVars, Excused, Fails, InTime
  <1>1. CASE UNCHANGED vars
    BY <1>1 DEF vars
  <1>2. CASE IssueCode
    BY <1>2 DEF IssueCode
  <1>3. CASE CodeReturns
    BY <1>3 DEF CodeReturns
  <1>4. CASE LoopTest
    BY <1>4 DEF LoopTest
  <1>5. CASE Poll
    BY <1>5 DEF Poll
  <1>6. CASE WorkOSAnswers
    BY <1>6 DEF WorkOSAnswers, Status
  <1>7. CASE PollDeviceToken
    BY <1>7 DEF PollDeviceToken
  <1>8. CASE RequestFails \/ Refuse \/ ClientDies \/ TypeNothing \/ RecvFails
    <2>1. client' = "failed" /\ UNCHANGED decision
      BY <1>8 DEF RequestFails, Refuse, ClientDies, TypeNothing, RecvFails
    <2> QED
      BY <2>1, Monotone
  <1>9. CASE Approve
    <2>1. /\ client \in {"loop", "sleep", "poll"} /\ decision = "none" /\ now < issued + ExpiresIn
          /\ UNCHANGED <<client, timer, deadline, answer, issued, now>>
          /\ decision' = "approved" /\ decided' = now
      BY <1>9 DEF Approve, Decide
    <2> QED
      BY <2>1
  <1>10. CASE Deny
    <2>1. /\ client \in {"loop", "sleep", "poll"}
          /\ UNCHANGED <<client, timer, deadline, answer, issued, now>>
          /\ decision' = "denied" /\ excuse' = TRUE
      BY <1>10 DEF Deny, Decide
    <2> QED
      BY <2>1
  <1>11. CASE Tick
    BY <1>11 DEF Tick, Ended
  <1>12. CASE OpenStream
    <2>1. UNCHANGED <<decision, excuse>> /\ client = "start" /\ decision = "none"
          /\ client' \in {"device", "token", "name"}
      BY <1>12 DEF OpenStream, FirstStep, TypeOK, ClientFlows
    <2> QED
      BY <2>1
  <1>13. CASE SendToken \/ TypeName \/ TypeEmail \/ TypeCode \/ Recv
    <2>1. UNCHANGED decision
      BY <1>13 DEF SendToken, TypeName, TypeEmail, TypeCode, Send, Recv
    <2>2. client' \in {"failed", "info", "status", "result", "email", "code", "ok"}
      <3>1. CASE Recv
        BY <3>1 DEF Recv, NextStep
      <3>2. CASE SendToken \/ TypeName \/ TypeEmail \/ TypeCode
        BY <3>2 DEF SendToken, TypeName, TypeEmail, TypeCode, Send, SendOr
      <3> QED
        BY <1>13, <3>1, <3>2
    <2> QED
      BY <2>1, <2>2, Monotone
  <1>14. CASE Handler
    <2>1. UNCHANGED <<now, client, timer, deadline, answer, issued, decision, decided>>
      BY <1>14 DEF Handler, HandleFirst, HandleEmail, HandleCode, Receive, ReceiveFails, Reply,
         GetUser, CreateInvitation, SendMagicAuth, Request, AuthenticateMagicAuth, StoreUser,
         clientVars
    <2>2. excuse => excuse'
      BY Monotone
    <2> QED
      BY <2>1, <2>2
  <1> QED
    BY <1>1, <1>2, <1>3, <1>4, <1>5, <1>6, <1>7, <1>8, <1>9, <1>10, <1>11, <1>12, <1>13, <1>14
       DEF Next, ClientStep, User

\* A login fails without a reason only as OnTimeLogsIn says.
LEMMA OnTimeKept ==
    TypeOK /\ Dialog /\ Flow /\ Answers /\ Times /\ OnTimeLogsIn /\ [Next]_vars => OnTimeLogsIn'
  <1> SUFFICES ASSUME TypeOK, Dialog, Flow, Answers, Times, OnTimeLogsIn, [Next]_vars,
                      client' = "failed", Served', ~excuse', ~Expired'
               PROVE  flow' = "web" /\ ~InTime'
    BY DEF OnTimeLogsIn
  <1>a. Served /\ ~excuse /\ ~Expired /\ UNCHANGED flow
    <2>1. StreamTimeout \in Nat
      BY TimesAssumption
    <2> QED
      BY <2>1, Monotone DEF Served, OtpFirst, Has, Expired, TypeOK
  <1>b. client \notin Ended =>
            /\ server = "done" => client = "result" /\ down = <<"authenticated">>
    BY <1>a DEF Answers, Blameless
  <1> USE DEF dialogVars, deviceVars, handlerVars, Excused, Fails
  <1>1. CASE client = "failed"
    <2>1. flow = "web" /\ ~InTime
      BY <1>1, <1>a DEF OnTimeLogsIn
    <2>2. UNCHANGED <<decision, decided, issued>>
      <3>1. CASE UNCHANGED vars
        BY <3>1 DEF vars
      <3>2. CASE Waits
        BY <1>1, <3>2 DEF Waits, IssueCode, CodeReturns, LoopTest, Poll, WorkOSAnswers,
           PollDeviceToken, RequestFails, Approve, Deny, Decide, Tick, Ended
      <3>3. CASE Handler
        BY <3>3 DEF Handler, HandleFirst, HandleEmail, HandleCode, Receive, ReceiveFails, Reply,
           GetUser, CreateInvitation, SendMagicAuth, Request, AuthenticateMagicAuth, StoreUser,
           clientVars
      <3>4. CASE OpenStream \/ SendToken \/ Recv \/ RecvFails \/ Refuse \/ ClientDies
                 \/ TypeName \/ TypeEmail \/ TypeCode \/ TypeNothing
        BY <3>4 DEF OpenStream, SendToken, Recv, RecvFails, Refuse, ClientDies, TypeName,
           TypeEmail, TypeCode, TypeNothing, Send
      <3> QED
        BY <3>1, <3>2, <3>3, <3>4 DEF Next, ClientStep, User, Waits
    <2> QED
      BY <1>a, <2>1, <2>2 DEF InTime
  <1>2. CASE client # "failed"
    <2>1. CASE SendToken \/ TypeName \/ TypeEmail \/ TypeCode
      <3>1. client \in {"token", "name", "email", "code"}
        BY <2>1 DEF SendToken, TypeName, TypeEmail, TypeCode
      <3>2. \A m, next, last : Send(m, next, last) => next = "failed" \/ Expired \/ server = "done"
        BY DEF Send, SendOr
      <3>3. Expired \/ server = "done"
        BY <2>1, <3>2 DEF SendToken, TypeName, TypeEmail, TypeCode
      <3> QED
        BY <1>a, <1>b, <3>1, <3>3 DEF Ended
    <2>2. CASE RecvFails
      <3>1. client \notin Ended /\ down = <<>> /\ server = "done"
        BY <1>a, <2>2 DEF RecvFails, NextStep, Ended
      <3> QED
        BY <1>b, <3>1, Singles
    <2>3. CASE LoopTest
      <3>1. client = "loop" /\ flow = "web" /\ now >= deadline
            /\ UNCHANGED <<decision, decided, issued>>
        BY <2>3 DEF LoopTest, Flow, TypeOK
      <3>2. InTime => now <= decided + Latency /\ deadline >= issued + ExpiresIn
        BY <3>1 DEF Times, InTime
      <3>3. now \in Nat /\ decided \in Nat /\ issued \in Nat /\ deadline \in Nat
            /\ Interval \in Nat /\ Latency \in Nat /\ ExpiresIn \in Nat
        BY TimesAssumption DEF TypeOK
      <3> QED
        BY <1>a, <3>1, <3>2, <3>3 DEF InTime
    <2>4. CASE PollDeviceToken
      <3>1. client = "poll" /\ flow = "web" /\ answer \in {"denied", "expired"}
            /\ UNCHANGED <<decision, decided, issued>>
        BY <2>4 DEF PollDeviceToken, Flow
      <3>2. ~InTime
        BY <1>a, <3>1 DEF Times, InTime
      <3> QED
        BY <1>a, <3>1, <3>2 DEF InTime
    <2>5. CASE Handler \/ Approve \/ Deny \/ Tick \/ UNCHANGED vars
      <3>1. UNCHANGED client
        BY <2>5 DEF Handler, HandleFirst, HandleEmail, HandleCode, Receive, ReceiveFails, Reply,
           GetUser, CreateInvitation, SendMagicAuth, Request, AuthenticateMagicAuth, StoreUser,
           clientVars, Approve, Deny, Decide, Tick, vars
      <3> QED
        BY <1>2, <3>1
    <2>6. CASE OpenStream \/ Recv \/ IssueCode \/ CodeReturns \/ Poll \/ WorkOSAnswers
      BY <1>2, <2>6 DEF OpenStream, FirstStep, Recv, NextStep, IssueCode, CodeReturns, Poll,
         WorkOSAnswers, TypeOK, ClientFlows
    <2>7. CASE Refuse \/ ClientDies \/ TypeNothing \/ RequestFails
      BY <2>7 DEF Refuse, ClientDies, TypeNothing, RequestFails
    <2> QED
      BY <2>1, <2>2, <2>3, <2>4, <2>5, <2>6, <2>7 DEF Next, ClientStep, User
  <1> QED
    BY <1>1, <1>2

-----------------------------------------------------------------------------
Inv == TypeOK /\ Dialog /\ Answering /\ Flow /\ Answers /\ Times /\ OnTimeLogsIn

\* The invariant holds at the start,
LEMMA Started == Init => Inv
  <1> SUFFICES ASSUME Init
               PROVE  Inv
    OBVIOUS
  <1>1. <<>> \in Seq(Messages) /\ <<>> \in Seq(Resources) /\ Len(<<>>) = 0
    OBVIOUS
  <1>2. TypeOK
    <2>1. {now, timer, deadline, issued, decided} \subseteq Nat
      BY DEF Init
    <2>2. up \in Seq(Messages) /\ Len(up) <= 1 /\ down \in Seq(Resources) /\ Len(down) <= 1
      BY <1>1 DEF Init
    <2> QED
      BY <2>1, <2>2 DEF Init, TypeOK
  <1>3. Dialog /\ Answering /\ Flow /\ Answers /\ Times /\ OnTimeLogsIn
    BY DEF Init, Dialog, Answering, Quiet, Replies, Flow, Answers, Times, OnTimeLogsIn
  <1> QED
    BY <1>2, <1>3 DEF Inv

\* and every step keeps it.
LEMMA Invariance == Spec => []Inv
  <1>1. Inv /\ [Next]_vars => Inv'
    BY Types, Turns, FlowKept, AnswersKept, TimesKept, OnTimeKept DEF Inv
  <1> QED
    BY Started, <1>1, PTL DEF Spec

\* Every variable keeps its type: at most one message is under way on either side, so that
\* neither side ever runs ahead of the other.
THEOREM TypeCorrect == Spec => []TypeOK
  <1>1. Inv => TypeOK
    BY DEF Inv
  <1> QED
    BY Invariance, <1>1, PTL

\* login.Run reports success only for a secret the server has verified, whatever flows the
\* server is configured with, although the client does not look at what it receives.
THEOREM Verified == Spec => []SuccessMeansVerified
  <1>1. Inv => SuccessMeansVerified
    BY DEF Inv, Dialog, SuccessMeansVerified
  <1> QED
    BY Invariance, <1>1, PTL

\* A user who does their part and signs in a poll before the code expires is logged in, for
\* any interval, lifetime, latency and deadline of the stream.
THEOREM OnTime == Spec => []OnTimeLogsIn
  <1>1. Inv => OnTimeLogsIn
    BY DEF Inv
  <1> QED
    BY Invariance, <1>1, PTL
=============================================================================
