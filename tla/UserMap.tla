------------------------------ MODULE UserMap ------------------------------
(***************************************************************************)
(* The package-level user map of auth/workos (session.go) and those who    *)
(* write it: one of the three paths of Init (init.go), the end of an       *)
(* invitation login, and calls of UpdateUserSessions, UpdateUserIdentities *)
(* and DeleteUser.  The map holds pointers: an update patches the state it *)
(* has loaded in place and stores the pointer back.                        *)
(*                                                                         *)
(* What WorkOS knows of the one user is abstracted to a version, which     *)
(* grows; 0 stands for nil.                                                *)
(***************************************************************************)
EXTENDS Naturals

CONSTANTS Updates,     \* calls of UpdateUserSessions and UpdateUserIdentities
          FieldOf,     \* which of the two each of them is
          Logins,      \* invitation logins that end
          Deletes,     \* calls of DeleteUser
          Paths,       \* the paths Init may take
          MaxPolls,    \* bound: the polls until the device code expires
          MaxVersion   \* bound: the changes at WorkOS

Fields == {"Sessions", "Identities"}
Keys   == {"id", "email"}
None   == <<"none", 0>>

ASSUME CallsAssumption ==
    /\ FieldOf \in [Updates -> Fields] /\ Paths \subseteq {"cli", "token", "invitation"}
    /\ MaxPolls \in Nat /\ MaxVersion \in Nat \ {0}
    /\ "init" \notin Updates   \* Init is none of the calls

Calls   == Updates \cup Logins \cup Deletes
Objects == (Calls \X {1}) \cup {<<"init", 1>>, <<"init", 2>>}
Content == [User : BOOLEAN, AccessToken : BOOLEAN, Pending : BOOLEAN,
            Sessions : 0..MaxVersion, Identities : 0..MaxVersion]

Empty == [User |-> FALSE, AccessToken |-> FALSE, Pending |-> FALSE,
          Sessions |-> 0, Identities |-> 0]

VARIABLES
    users,     \* the map: the object each key leads to
    heap,      \* the objects, UserStates
    version,   \* what WorkOS has
    init,      \* where Init is
    polls,     \* how often it has polled
    profile,   \* what its access token flow has fetched
    tokens,    \* whether it has obtained an access token
    address,   \* the address to invite: the default one, or the user's own
    mails,     \* what WorkOS has sent there
    lost,      \* whether it did so in a request whose answer got lost
    pc,        \* where each call is
    fetched,   \* the version an update has fetched
    loaded,    \* the object it has loaded
    calm,      \* no whole state was stored or deleted while an update was under way
    claims     \* the updates that have returned since one last was

mailVars == <<address, mails, lost>>
initVars == <<init, polls, profile, tokens, mailVars>>
callVars == <<pc, fetched, loaded>>
vars == <<users, heap, version, initVars, callVars, calm, claims>>

TypeOK ==
    /\ users \in [Keys -> Objects \cup {None}] /\ heap \in [Objects -> Content]
    /\ version \in 1..MaxVersion
    /\ init \in Paths \cup {"bootstrap", "poll", "keep", "verify", "identities", "sessions",
                            "store", "greet", "default", "again", "invite", "fallback",
                            "pending", "done", "keys", "flags"}
    /\ address \in {"default", "own"} /\ mails \subseteq {"invitation", "magic"}
    /\ polls \in 0..MaxPolls /\ profile \in Content /\ {tokens, lost, calm} \subseteq BOOLEAN
    /\ pc \in [Calls -> {"start", "load", "create", "patch", "store", "done"}]
    /\ fetched \in [Updates -> 0..MaxVersion] /\ loaded \in [Updates -> Objects \cup {None}]
    /\ claims \subseteq Updates

Init ==
    /\ users = [k \in Keys |-> None] /\ heap = [o \in Objects |-> Empty] /\ version = 1
    /\ init = "bootstrap" /\ polls = 0 /\ profile = Empty /\ tokens = FALSE
    /\ address \in {"default", "own"} /\ mails = {} /\ lost = FALSE
    /\ pc = [c \in Calls |-> "start"]
    /\ fetched = [c \in Updates |-> 0] /\ loaded = [c \in Updates |-> None]
    /\ calm = TRUE /\ claims = {}

WorkOSChanges ==
    /\ version < MaxVersion
    /\ version' = version + 1
    /\ UNCHANGED <<users, heap, initVars, callVars, calm, claims>>

UnderWay(c) == pc[c] \in {"create", "patch", "store"}

\* The whole state of the user goes: what the updates have put there goes with it.
Replaced(by) ==
    /\ calm' = (calm /\ \A c \in Updates \ {by} : ~UnderWay(c))
    /\ claims' = {}

StoreUser(k, o, state) ==
    /\ heap' = [heap EXCEPT ![o] = state] /\ users' = [users EXCEPT ![k] = o]

-----------------------------------------------------------------------------
(* Init.                                                                   *)

InitGoto(next) == init' = next /\ UNCHANGED <<users, heap, version, callVars, calm, claims>>

\* Without credentials Init gives up.  (The shared client has no reader here.)
BootstrapClient ==
    /\ init = "bootstrap"
    /\ InitGoto("keys") \/ InitGoto("done")
    /\ UNCHANGED <<polls, profile, tokens, mailVars>>

\* The keys are fetched; none at all counts as a failure.
RefreshJWKS == InitGoto("flags") \/ InitGoto("done")

NewClient == init = "keys" /\ RefreshJWKS /\ UNCHANGED <<polls, profile, tokens, mailVars>>

ChoosePath ==
    /\ init = "flags"
    /\ \E path \in Paths : InitGoto(path)
    /\ UNCHANGED <<polls, profile, tokens, mailVars>>

RequestDeviceAuthorization == InitGoto("poll") \/ InitGoto("done")

RunCLIAuthFlow ==
    /\ init = "cli" /\ RequestDeviceAuthorization
    /\ UNCHANGED <<polls, profile, tokens, mailVars>>

\* Mutant: a poll after the code has expired.
PollOnceMore ==
    /\ init = "poll" /\ polls <= MaxPolls
    /\ polls' = polls + 1
    /\ InitGoto("poll") \/ InitGoto("done")
    /\ UNCHANGED <<profile, tokens, mailVars>>

\* The answer to a poll: pending, an error, or the user and, perhaps, a token.
PollDeviceToken ==
    /\ init = "poll" /\ polls < MaxPolls
    /\ polls' = polls + 1
    /\ \/ InitGoto("poll") /\ UNCHANGED tokens
       \/ InitGoto("done") /\ UNCHANGED tokens
       \/ InitGoto("keep") /\ tokens' \in BOOLEAN
    /\ UNCHANGED <<profile, mailVars>>

CodeExpires ==
    /\ init = "poll" /\ polls = MaxPolls
    /\ InitGoto("done")
    /\ UNCHANGED <<polls, profile, tokens, mailVars>>

InitStores(k, o, state, next) ==
    /\ StoreUser(k, o, state) /\ init' = next
    /\ IF k = "id" THEN Replaced("init") ELSE UNCHANGED <<calm, claims>>
    /\ UNCHANGED <<version, polls, profile, tokens, mailVars, callVars>>

KeepTokens ==
    /\ init = "keep"
    /\ InitStores("id", <<"init", 1>>, [Empty EXCEPT !.User = TRUE, !.AccessToken = tokens],
                  IF tokens THEN "verify" ELSE "done")

\* The token is verified and the user fetched.
RunAccessTokenFlow ==
    /\ init \in {"token", "verify"}
    /\ InitGoto("identities") \/ InitGoto("done")
    /\ UNCHANGED <<polls, profile, tokens, mailVars>>

\* Neither list is required: a failed request leaves it nil.
FetchList(here, field, next) ==
    /\ init = here
    /\ \E v \in {0, version} : profile' = [profile EXCEPT ![field] = v]
    /\ InitGoto(next)
    /\ UNCHANGED <<polls, tokens, mailVars>>

ListIdentities == FetchList("identities", "Identities", "sessions")
ListSessions   == FetchList("sessions", "Sessions", "store")

StoreProfile ==
    /\ init = "store"
    /\ \E next \in {"greet", "done"} :   \* a user without an address gets no mail
          InitStores("id", <<"init", 2>>, [profile EXCEPT !.User = TRUE], next)

\* A request that makes WorkOS send a mail.  To the caller it has failed, too, when it
\* was carried out and the answer got lost.
Mail(here, kind, sent, failed) ==
    /\ init = here
    /\ \/ InitGoto(sent)   /\ mails' = mails \cup {kind} /\ UNCHANGED lost
       \/ InitGoto(failed) /\ UNCHANGED <<mails, lost>>
       \/ InitGoto(failed) /\ mails' = mails \cup {kind} /\ lost' = TRUE
    /\ UNCHANGED <<polls, profile, tokens, address>>

\* Who has an account is sent a code, who has none an invitation: which of them it is
\* shows when the first request is refused.
RunInvitationFlow ==
    /\ init = "invitation"
    /\ InitGoto(IF address = "default" THEN "default" ELSE "invite")
    /\ UNCHANGED <<polls, profile, tokens, mailVars>>

SendMagicAuth == \/ Mail("default", "magic", "done", "again")
                 \/ Mail("fallback", "magic", "done", "done")
                 \/ Mail("greet", "magic", "done", "done")

\* Mutant: an invitation of the default address is recorded, too.
CreateInvitationRecorded == \/ Mail("again", "invitation", "pending", "done")
                            \/ Mail("invite", "invitation", "pending", "fallback")

\* Only the invitation of an address of the user's own is recorded.
CreateInvitation == \/ Mail("again", "invitation", "done", "done")
                    \/ Mail("invite", "invitation", "pending", "fallback")

StoreInvitation ==
    /\ init = "pending"
    /\ InitStores("email", <<"init", 2>>, [Empty EXCEPT !.Pending = TRUE], "done")

-----------------------------------------------------------------------------
(* The calls.                                                              *)

Goto(c, next) == pc' = [pc EXCEPT ![c] = next]

InviteStores(c) ==
    /\ c \in Logins /\ pc[c] = "start"
    /\ StoreUser("id", <<c, 1>>, [Empty EXCEPT !.User = TRUE]) /\ Goto(c, "done")
    /\ Replaced(c)
    /\ UNCHANGED <<version, initVars, fetched, loaded>>

DeleteUser(c) ==
    /\ c \in Deletes /\ pc[c] = "start"
    /\ users' = [users EXCEPT !["id"] = None] /\ Goto(c, "done")
    /\ Replaced(c)
    /\ UNCHANGED <<heap, version, initVars, fetched, loaded>>

\* The list is fetched before the map is looked at.
Fetch(c) ==
    /\ c \in Updates /\ pc[c] = "start"
    /\ \/ fetched' = [fetched EXCEPT ![c] = version] /\ Goto(c, "load")
       \/ Goto(c, "done") /\ UNCHANGED fetched
    /\ UNCHANGED <<users, heap, version, initVars, loaded, calm, claims>>

Load(c) ==
    /\ c \in Updates /\ pc[c] = "load"
    /\ loaded' = [loaded EXCEPT ![c] = users["id"]]
    /\ Goto(c, IF users["id"] = None THEN "create" ELSE "patch")
    /\ UNCHANGED <<users, heap, version, initVars, fetched, calm, claims>>

\* The user was not tracked: a minimal entry.
Create(c) ==
    /\ c \in Updates /\ pc[c] = "create"
    /\ StoreUser("id", <<c, 1>>, [Empty EXCEPT ![FieldOf[c]] = fetched[c]]) /\ Goto(c, "done")
    /\ Replaced(c)
    /\ UNCHANGED <<version, initVars, fetched, loaded>>

\* Mutant: a copy is patched.
PatchCopy(c) ==
    /\ c \in Updates /\ pc[c] = "patch"
    /\ heap' = [heap EXCEPT ![<<c, 1>>] = [heap[loaded[c]] EXCEPT ![FieldOf[c]] = fetched[c]]]
    /\ loaded' = [loaded EXCEPT ![c] = <<c, 1>>]
    /\ Goto(c, "store")
    /\ UNCHANGED <<users, version, initVars, fetched, calm, claims>>

Patch(c) ==
    /\ c \in Updates /\ pc[c] = "patch"
    /\ heap' = [heap EXCEPT ![loaded[c]][FieldOf[c]] = fetched[c]]
    /\ Goto(c, "store")
    /\ UNCHANGED <<users, version, initVars, fetched, loaded, calm, claims>>

StoreBack(c) ==
    /\ c \in Updates /\ pc[c] = "store"
    /\ users' = [users EXCEPT !["id"] = loaded[c]]
    /\ Goto(c, "done") /\ claims' = claims \cup {c}
    /\ UNCHANGED <<heap, version, initVars, fetched, loaded, calm>>

-----------------------------------------------------------------------------
InitStep == \/ BootstrapClient \/ NewClient \/ ChoosePath
            \/ RunCLIAuthFlow \/ PollDeviceToken \/ CodeExpires \/ KeepTokens
            \/ RunAccessTokenFlow \/ ListIdentities \/ ListSessions \/ StoreProfile
            \/ RunInvitationFlow \/ SendMagicAuth \/ CreateInvitation \/ StoreInvitation

CallStep(c) == \/ InviteStores(c) \/ DeleteUser(c)
               \/ Fetch(c) \/ Load(c) \/ Create(c) \/ Patch(c) \/ StoreBack(c)

Next == WorkOSChanges \/ InitStep \/ \E c \in Calls : CallStep(c)

Spec == Init /\ [][Next]_vars

-----------------------------------------------------------------------------
\* As long as no login, deletion or first update runs into an update under way, every
\* update that has returned is in the state the map shows, however the updates of both
\* fields interleave: they patch the same object.
UpdatesSurvive ==
    calm => \A c \in claims :
        /\ users["id"] # None
        /\ \E d \in Updates : /\ FieldOf[d] = FieldOf[c]
                              /\ heap[users["id"]][FieldOf[c]] = fetched[d]

\* Nobody is sent both mails unless an answer was lost.  The map has an entry under an
\* address only for one of the user's own that was invited ("by email (from the
\* invitation flow, non-default only)", session.go:82), and it has one for every
\* invitation whose answer came back.
InvitedOnce ==
    /\ mails = {"invitation", "magic"} => lost
    /\ users["email"] # None => /\ address = "own" /\ "invitation" \in mails
                                /\ heap[users["email"]].Pending
    /\ init = "done" /\ address = "own" /\ "invitation" \in mails /\ ~lost =>
          users["email"] # None

\* What Init has obtained is in the map when it is done: "AccessToken is the OAuth access token
\* obtained during authentication".
TokensKept == init = "done" /\ tokens => heap[users["id"]].AccessToken
=============================================================================
