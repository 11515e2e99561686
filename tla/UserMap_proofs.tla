--------------------------- MODULE UserMap_proofs ---------------------------
(***************************************************************************)
(* What the user map shows, for any calls of the package and any paths,    *)
(* number of polls and changes at WorkOS.                                  *)
(***************************************************************************)
EXTENDS UserMap, TLAPS

Second == <<"init", 2>>   \* the object of StoreProfile and of StoreInvitation

\* An update that patches or stores has loaded an object.
TInv == TypeOK /\ \A c \in Updates : pc[c] \in {"patch", "store"} => loaded[c] \in Objects

\* Init's second object is nobody's before Init has stored it.
Unseen == init \notin {"greet", "done"} =>
              users["id"] # Second /\ \A c \in Updates : loaded[c] # Second

\* Some update of the field has put into the map what it has.
Kept(f) == \E d \in Updates : /\ FieldOf[d] = f /\ pc[d] \in {"store", "done"}
                              /\ heap[users["id"]][f] = fetched[d]

\* In the calm all updates under way have the object the map shows.
Shared == calm => \A c \in Updates :
              /\ pc[c] \in {"patch", "store"} => loaded[c] = users["id"]
              /\ pc[c] = "store" \/ c \in claims => users["id"] # None /\ Kept(FieldOf[c])

\* What has been mailed, and to whom, by the place Init has come to.
Mailed ==
    /\ init \notin {"again", "fallback", "pending", "done"} => mails = {} /\ ~lost
    /\ init \in {"again", "fallback"} => mails = {} \/ lost
    /\ init = "pending" => mails = {"invitation"}
    /\ init \in {"default", "again"} => address = "default"
    /\ init \in {"invite", "fallback", "pending"} => address = "own"
    /\ init # "done" => users["email"] = None
    /\ users["email"] \in {None, Second}

Inv == TInv /\ Unseen /\ Shared /\ Mailed /\ InvitedOnce

LEMMA Contents ==
  /\ \A b \in BOOLEAN : [Empty EXCEPT !.User = TRUE, !.AccessToken = b] \in Content
  /\ Empty \in Content
  /\ [Empty EXCEPT !.User = TRUE] \in Content
  /\ [Empty EXCEPT !.Pending = TRUE] \in Content
  /\ [Empty EXCEPT !.Pending = TRUE].Pending
  /\ \A s \in Content : [s EXCEPT !.User = TRUE] \in Content
<1>1. 0 \in 0..MaxVersion
  BY CallsAssumption
<1>2. Empty \in Content
  BY <1>1 DEF Empty, Content
<1>3. \A b \in BOOLEAN : [Empty EXCEPT !.User = TRUE, !.AccessToken = b] \in Content
  BY <1>1 DEF Empty, Content
<1>4. /\ [Empty EXCEPT !.Pending = TRUE] \in Content
      /\ [Empty EXCEPT !.Pending = TRUE].Pending
  BY <1>2 DEF Empty, Content
<1>5. \A s \in Content : [s EXCEPT !.User = TRUE] \in Content
  BY DEF Content
<1>6. QED
  BY <1>2, <1>3, <1>4, <1>5

\* A state with another list in one of its fields.
With(s, f, v) == [s EXCEPT ![f] = v]

LEMMA Patched ==
  \A s \in Content, f \in Fields, v \in 0..MaxVersion :
      /\ With(s, f, v) \in Content
      /\ With(s, f, v)[f] = v
      /\ \A g \in Fields \ {f} : With(s, f, v)[g] = s[g]
      /\ With(s, f, v).Pending = s.Pending
<1> TAKE s \in Content, f \in Fields, v \in 0..MaxVersion
<1>1. CASE f = "Sessions"
  BY <1>1 DEF Content, Fields, With
<1>2. CASE f = "Identities"
  BY <1>2 DEF Content, Fields, With
<1>3. QED
  BY <1>1, <1>2 DEF Fields

LEMMA InvInit == Init => Inv
<1> SUFFICES ASSUME Init PROVE Inv
  OBVIOUS
<1>0. 0 \in 0..MaxVersion /\ 0 \in 0..MaxPolls /\ 1 \in 1..MaxVersion
  BY CallsAssumption
<1>1. Empty \in Content
  BY Contents
<1>2. TInv
  <2>1. /\ users \in [Keys -> Objects \cup {None}] /\ heap \in [Objects -> Content]
        /\ pc \in [Calls -> {"start", "load", "create", "patch", "store", "done"}]
        /\ fetched \in [Updates -> 0..MaxVersion] /\ loaded \in [Updates -> Objects \cup {None}]
    BY <1>0, <1>1 DEF Init
  <2>2. \A c \in Updates : pc[c] = "start"
    BY DEF Init, Calls
  <2>3. init = "bootstrap" /\ mails = {} /\ claims = {} /\ calm = TRUE
        /\ tokens = FALSE /\ lost = FALSE
    BY DEF Init
  <2>4. QED
    BY <1>0, <1>1, <2>1, <2>2, <2>3 DEF TInv, TypeOK, Init
<1>3. users["id"] = None /\ users["email"] = None /\ None # Second
      /\ \A c \in Updates : loaded[c] = None /\ pc[c] = "start"
  BY DEF Init, Keys, None, Second, Calls
<1>4. Unseen /\ Shared /\ Mailed /\ InvitedOnce
  BY <1>3 DEF Init, Unseen, Shared, Mailed, InvitedOnce
<1>5. QED
  BY <1>2, <1>4 DEF Inv

-----------------------------------------------------------------------------
(* Types.                                                                  *)

LEMMA InitKeepsTypes ==
  ASSUME TInv, InitStep
  PROVE  TInv'
<1>1. CASE BootstrapClient \/ NewClient \/ ChoosePath \/ RunCLIAuthFlow \/ CodeExpires
           \/ RunAccessTokenFlow \/ RunInvitationFlow
  <2>1. /\ UNCHANGED <<users, heap, version, callVars, calm, claims, polls, profile, tokens,
                       mailVars>>
        /\ init' \in Paths \cup {"keys", "done", "flags", "poll", "identities", "default",
                                 "invite"}
    BY <1>1 DEF BootstrapClient, NewClient, ChoosePath, RunCLIAuthFlow, CodeExpires,
                RunAccessTokenFlow, RunInvitationFlow, RefreshJWKS, RequestDeviceAuthorization,
                InitGoto
  <2>2. QED
    BY <2>1 DEF TInv, TypeOK, callVars, mailVars
<1>2. CASE PollDeviceToken
  <2>1. /\ UNCHANGED <<users, heap, version, callVars, calm, claims, profile, mailVars>>
        /\ init' \in {"poll", "done", "keep"} /\ (tokens' = tokens \/ tokens' \in BOOLEAN)
        /\ polls < MaxPolls /\ polls' = polls + 1
    BY <1>2 DEF PollDeviceToken, InitGoto
  <2>2. polls' \in 0..MaxPolls /\ tokens' \in BOOLEAN
    BY <2>1, CallsAssumption DEF TInv, TypeOK
  <2>3. QED
    BY <2>1, <2>2 DEF TInv, TypeOK, callVars, mailVars
<1>3. CASE ListIdentities \/ ListSessions
  <2>1. PICK f \in Fields, v \in {0, version} : profile' = With(profile, f, v)
    BY <1>3 DEF ListIdentities, ListSessions, FetchList, Fields, With
  <2>2. profile \in Content /\ v \in 0..MaxVersion
    BY CallsAssumption DEF TInv, TypeOK
  <2>3. profile' \in Content
    BY <2>1, <2>2, Patched
  <2>4. /\ UNCHANGED <<users, heap, version, callVars, calm, claims, polls, tokens, mailVars>>
        /\ init' \in {"sessions", "store"}
    BY <1>3 DEF ListIdentities, ListSessions, FetchList, InitGoto
  <2>5. QED
    BY <2>3, <2>4 DEF TInv, TypeOK, callVars, mailVars
<1>4. CASE SendMagicAuth \/ CreateInvitation
  <2>1. /\ UNCHANGED <<users, heap, version, callVars, calm, claims, polls, profile, tokens,
                       address>>
        /\ init' \in {"done", "again", "pending", "fallback"}
        /\ mails' \subseteq mails \cup {"invitation", "magic"} /\ lost' \in {lost, TRUE}
    BY <1>4 DEF SendMagicAuth, CreateInvitation, Mail, InitGoto
  <2>2. QED
    BY <2>1 DEF TInv, TypeOK, callVars
<1>5. ASSUME NEW k \in Keys, NEW o \in Objects, NEW state \in Content, NEW next,
             InitStores(k, o, state, next),
             next \in {"verify", "done", "greet"}
      PROVE  TInv'
  <2>1. users' \in [Keys -> Objects \cup {None}] /\ heap' \in [Objects -> Content]
    BY <1>5 DEF InitStores, StoreUser, TInv, TypeOK
  <2>2. calm' \in BOOLEAN /\ claims' \subseteq Updates
    BY <1>5 DEF InitStores, Replaced, TInv, TypeOK
  <2>3. /\ UNCHANGED <<version, polls, profile, tokens, mailVars, callVars>>
        /\ init' \in {"verify", "done", "greet"}
    BY <1>5 DEF InitStores
  <2>4. QED
    BY <2>1, <2>2, <2>3 DEF TInv, TypeOK, callVars, mailVars
<1>6. "id" \in Keys /\ "email" \in Keys /\ <<"init", 1>> \in Objects /\ <<"init", 2>> \in Objects
  BY DEF Keys, Objects
<1>7. CASE KeepTokens
  <2>1. [Empty EXCEPT !.User = TRUE, !.AccessToken = tokens] \in Content
    BY Contents DEF TInv, TypeOK
  <2>2. QED
    BY <1>5, <1>6, <1>7, <2>1 DEF KeepTokens
<1>8. CASE StoreProfile
  <2>1. [profile EXCEPT !.User = TRUE] \in Content
    BY Contents DEF TInv, TypeOK
  <2>2. QED
    BY <1>5, <1>6, <1>8, <2>1 DEF StoreProfile
<1>9. CASE StoreInvitation
  BY <1>5, <1>6, <1>9, Contents DEF StoreInvitation
<1>10. QED
  BY <1>1, <1>2, <1>3, <1>4, <1>7, <1>8, <1>9 DEF InitStep

LEMMA CallKeepsTypes ==
  ASSUME TInv, NEW c \in Calls, CallStep(c)
  PROVE  TInv'
<1>1. UNCHANGED <<version, initVars>>
  BY DEF CallStep, InviteStores, DeleteUser, Fetch, Load, Create, Patch, StoreBack
<1>2. \A s \in {"load", "create", "patch", "store", "done"} : Goto(c, s) =>
         /\ pc' \in [Calls -> {"start", "load", "create", "patch", "store", "done"}]
         /\ pc'[c] = s /\ \A d \in Calls \ {c} : pc'[d] = pc[d]
  BY DEF TInv, TypeOK, Goto
<1>3. "id" \in Keys /\ <<c, 1>> \in Objects /\ Updates \subseteq Calls
  BY DEF Keys, Objects, Calls
<1>4. ASSUME UNCHANGED <<fetched, loaded>>, Goto(c, "done"),
             users' \in [Keys -> Objects \cup {None}], heap' \in [Objects -> Content],
             claims' \subseteq Updates, calm' \in BOOLEAN
      PROVE  TInv'
  BY <1>1, <1>2, <1>3, <1>4 DEF TInv, TypeOK, initVars, mailVars
<1>5. \A d \in Calls : Replaced(d) => claims' \subseteq Updates /\ calm' \in BOOLEAN
  BY DEF Replaced, TInv, TypeOK
<1>6. CASE InviteStores(c)
  <2>1. users' \in [Keys -> Objects \cup {None}] /\ heap' \in [Objects -> Content]
    BY <1>3, <1>6, Contents DEF InviteStores, StoreUser, TInv, TypeOK
  <2>2. QED
    BY <1>4, <1>5, <1>6, <2>1 DEF InviteStores
<1>7. CASE DeleteUser(c)
  <2>1. users' \in [Keys -> Objects \cup {None}] /\ heap' \in [Objects -> Content]
    BY <1>3, <1>7 DEF DeleteUser, TInv, TypeOK
  <2>2. QED
    BY <1>4, <1>5, <1>7, <2>1 DEF DeleteUser
<1>8. CASE Fetch(c)
  <2>1. /\ fetched' \in [Updates -> 0..MaxVersion]
        /\ \/ Goto(c, "load") \/ Goto(c, "done")
        /\ UNCHANGED <<users, heap, loaded, calm, claims>>
    BY <1>8, CallsAssumption DEF Fetch, TInv, TypeOK
  <2>2. QED
    BY <1>1, <1>2, <1>3, <2>1 DEF TInv, TypeOK, initVars, mailVars
<1>9. CASE Load(c)
  <2>1. c \in Updates /\ loaded' = [loaded EXCEPT ![c] = users["id"]]
        /\ Goto(c, IF users["id"] = None THEN "create" ELSE "patch")
        /\ UNCHANGED <<users, heap, fetched, calm, claims>>
    BY <1>9 DEF Load
  <2>2. loaded' \in [Updates -> Objects \cup {None}] /\ loaded'[c] = users["id"]
        /\ \A d \in Updates \ {c} : loaded'[d] = loaded[d]
    BY <1>3, <2>1 DEF TInv, TypeOK
  <2>3. users["id"] \in Objects \cup {None}
    BY <1>3 DEF TInv, TypeOK
  <2>4. CASE users["id"] = None
    BY <1>1, <1>2, <1>3, <2>1, <2>2, <2>4 DEF TInv, TypeOK, initVars, mailVars
  <2>5. CASE users["id"] # None
    BY <1>1, <1>2, <1>3, <2>1, <2>2, <2>3, <2>5 DEF TInv, TypeOK, initVars, mailVars
  <2>6. QED
    BY <2>4, <2>5
<1>10. CASE Create(c)
  <2>1. FieldOf[c] \in Fields /\ fetched[c] \in 0..MaxVersion
    BY <1>10, CallsAssumption DEF Create, TInv, TypeOK
  <2>2. With(Empty, FieldOf[c], fetched[c]) \in Content
    BY <2>1, Contents, Patched
  <2>3. users' \in [Keys -> Objects \cup {None}] /\ heap' \in [Objects -> Content]
    BY <1>3, <1>10, <2>2 DEF Create, StoreUser, With, TInv, TypeOK
  <2>4. QED
    BY <1>4, <1>5, <1>10, <2>3 DEF Create
<1>11. CASE Patch(c)
  <2>1. FieldOf[c] \in Fields /\ fetched[c] \in 0..MaxVersion /\ loaded[c] \in Objects
        /\ heap[loaded[c]] \in Content
    BY <1>11, CallsAssumption DEF Patch, TInv, TypeOK
  <2>2. heap' = [heap EXCEPT ![loaded[c]] = With(heap[loaded[c]], FieldOf[c], fetched[c])]
    BY <1>11 DEF Patch, With
  <2>3. With(heap[loaded[c]], FieldOf[c], fetched[c]) \in Content
    BY <2>1, Patched
  <2>4. heap' \in [Objects -> Content]
    BY <2>2, <2>3 DEF TInv, TypeOK
  <2>5. Goto(c, "store") /\ UNCHANGED <<users, fetched, loaded, calm, claims>>
    BY <1>11 DEF Patch
  <2>6. QED
    BY <1>1, <1>2, <1>3, <2>1, <2>4, <2>5 DEF TInv, TypeOK, initVars, mailVars
<1>12. CASE StoreBack(c)
  <2>1. c \in Updates /\ loaded[c] \in Objects
    BY <1>12 DEF StoreBack, TInv
  <2>2. users' \in [Keys -> Objects \cup {None}] /\ heap' = heap /\ claims' \subseteq Updates
    BY <1>3, <1>12, <2>1 DEF StoreBack, TInv, TypeOK
  <2>3. QED
    BY <1>4, <1>12, <2>2 DEF StoreBack, TInv, TypeOK
<1>13. QED
  BY <1>6, <1>7, <1>8, <1>9, <1>10, <1>11, <1>12 DEF CallStep

-----------------------------------------------------------------------------
(* Init.                                                                   *)

\* Where Init only goes on, the map is as it was.
LEMMA InitMovesOn ==
  ASSUME Inv, UNCHANGED <<users, heap, callVars, calm, claims>>,
         init \notin {"greet", "done"}
  PROVE  Unseen' /\ Shared'
<1>1. Unseen'
  BY DEF Inv, Unseen, callVars
<1>2. Shared'
  BY DEF Inv, Shared, Kept, callVars
<1>3. QED
  BY <1>1, <1>2

LEMMA GreetMovesOn ==
  ASSUME Inv, UNCHANGED <<users, heap, callVars, calm, claims>>, init' \in {"greet", "done"}
  PROVE  Unseen' /\ Shared'
<1>1. Unseen'
  BY DEF Unseen
<1>2. Shared'
  BY DEF Inv, Shared, Kept, callVars
<1>3. QED
  BY <1>1, <1>2

\* What Init does before a mail or after all of them.
LEMMA NoMail ==
  ASSUME Inv, UNCHANGED mailVars, users'["email"] = users["email"],
         init \notin {"default", "again", "invite", "fallback", "pending", "done", "greet"},
         \/ init' \notin {"default", "again", "invite", "fallback", "pending"}
         \/ init' = "default" /\ address = "default"
         \/ init' = "invite" /\ address = "own"
  PROVE  Mailed' /\ InvitedOnce'
<1>1. mails = {} /\ lost = FALSE /\ users["email"] = None
  BY DEF Inv, Mailed, TInv, TypeOK
<1>2. Mailed'
  BY <1>1 DEF Mailed, mailVars
<1>3. InvitedOnce'
  BY <1>1 DEF InvitedOnce, mailVars
<1>4. QED
  BY <1>2, <1>3

\* A whole state under the user's name ends the calm of the updates under way.
LEMMA Replacing ==
  ASSUME NEW by, Replaced(by),
         \A c \in Updates : \/ c # by /\ pc'[c] = pc[c]
                            \/ pc'[c] = "done"
  PROVE  Shared'
<1>1. claims' = {} /\ (calm' => \A c \in Updates : c # by => ~UnderWay(c))
  BY DEF Replaced
<1>2. calm' => \A c \in Updates : pc'[c] \notin {"patch", "store"}
  BY <1>1 DEF UnderWay
<1>3. QED
  BY <1>1, <1>2 DEF Shared

LEMMA InitKeepsInv ==
  ASSUME Inv, InitStep
  PROVE  (Unseen /\ Shared /\ Mailed /\ InvitedOnce)'
<1>1. CASE BootstrapClient \/ NewClient \/ ChoosePath \/ RunCLIAuthFlow \/ PollDeviceToken
           \/ CodeExpires \/ RunAccessTokenFlow \/ ListIdentities \/ ListSessions
  <2>1. /\ UNCHANGED <<users, heap, callVars, calm, claims, mailVars>>
        /\ init \in {"bootstrap", "keys", "flags", "cli", "poll", "token", "verify",
                     "identities", "sessions"}
        /\ init' \in Paths \cup {"keys", "done", "flags", "poll", "keep", "identities",
                                 "sessions", "store"}
    BY <1>1 DEF BootstrapClient, NewClient, ChoosePath, RunCLIAuthFlow, PollDeviceToken,
                CodeExpires, RunAccessTokenFlow, ListIdentities, ListSessions, FetchList,
                RefreshJWKS, RequestDeviceAuthorization, InitGoto
  <2>2. Paths \subseteq {"cli", "token", "invitation"}
    BY CallsAssumption
  <2>3. Unseen' /\ Shared'
    BY <2>1, InitMovesOn
  <2>4. Mailed' /\ InvitedOnce'
    BY <2>1, <2>2, NoMail
  <2>5. QED
    BY <2>3, <2>4
<1>2. CASE RunInvitationFlow
  <2>1. /\ UNCHANGED <<users, heap, callVars, calm, claims, mailVars>>
        /\ init = "invitation"
        /\ init' = IF address = "default" THEN "default" ELSE "invite"
    BY <1>2 DEF RunInvitationFlow, InitGoto
  <2>2. address \in {"default", "own"}
    BY DEF Inv, TInv, TypeOK
  <2>3. QED
    BY <2>1, <2>2, InitMovesOn, NoMail
<1>4. CASE SendMagicAuth
  <2>1. CASE Mail("default", "magic", "done", "again")
    <3>0. /\ UNCHANGED <<users, heap, callVars, calm, claims, address>> /\ init = "default"
          /\ \/ init' = "done" /\ mails' = mails \cup {"magic"} /\ lost' = lost
             \/ init' = "again" /\ mails' = mails /\ lost' = lost
             \/ init' = "again" /\ mails' = mails \cup {"magic"} /\ lost' = TRUE
      BY <2>1 DEF Mail, InitGoto
    <3>1. mails = {} /\ lost = FALSE /\ users["email"] = None /\ init = "default"
          /\ address = "default"
      BY <3>0 DEF Inv, Mailed, TInv, TypeOK
    <3>2. Unseen' /\ Shared'
      BY <3>0, <3>1, InitMovesOn
    <3>3. Mailed'
      BY <3>0, <3>1 DEF Mailed
    <3>4. InvitedOnce'
      BY <3>0, <3>1 DEF InvitedOnce
    <3>5. QED
      BY <3>2, <3>3, <3>4
  <2>2. CASE Mail("fallback", "magic", "done", "done")
    <3>0. /\ UNCHANGED <<users, heap, callVars, calm, claims, address>> /\ init = "fallback"
          /\ \/ init' = "done" /\ mails' = mails \cup {"magic"} /\ lost' = lost
             \/ init' = "done" /\ mails' = mails /\ lost' = lost
             \/ init' = "done" /\ mails' = mails \cup {"magic"} /\ lost' = TRUE
      BY <2>2 DEF Mail, InitGoto
    <3>1. (mails = {} \/ lost) /\ users["email"] = None /\ init = "fallback"
          /\ address = "own" /\ lost \in BOOLEAN
      BY <3>0 DEF Inv, Mailed, TInv, TypeOK
    <3>2. Unseen' /\ Shared'
      BY <3>0, <3>1, InitMovesOn
    <3>3. Mailed'
      BY <3>0, <3>1 DEF Mailed
    <3>4. InvitedOnce'
      BY <3>0, <3>1 DEF InvitedOnce
    <3>5. QED
      BY <3>2, <3>3, <3>4
  <2>3. CASE Mail("greet", "magic", "done", "done")
    <3>0. /\ UNCHANGED <<users, heap, callVars, calm, claims, address>> /\ init = "greet"
          /\ \/ init' = "done" /\ mails' = mails \cup {"magic"} /\ lost' = lost
             \/ init' = "done" /\ mails' = mails /\ lost' = lost
             \/ init' = "done" /\ mails' = mails \cup {"magic"} /\ lost' = TRUE
      BY <2>3 DEF Mail, InitGoto
    <3>1. mails = {} /\ lost = FALSE /\ users["email"] = None /\ init = "greet"
      BY <3>0 DEF Inv, Mailed, TInv, TypeOK
    <3>2. Unseen' /\ Shared'
      BY <3>0, <3>1, GreetMovesOn
    <3>3. Mailed'
      BY <3>0, <3>1 DEF Mailed
    <3>4. InvitedOnce'
      BY <3>0, <3>1 DEF InvitedOnce
    <3>5. QED
      BY <3>2, <3>3, <3>4
  <2>4. QED
    BY <1>4, <2>1, <2>2, <2>3 DEF SendMagicAuth
<1>5. CASE CreateInvitation
  <2>1. CASE Mail("again", "invitation", "done", "done")
    <3>0. /\ UNCHANGED <<users, heap, callVars, calm, claims, address>> /\ init = "again"
          /\ \/ init' = "done" /\ mails' = mails \cup {"invitation"} /\ lost' = lost
             \/ init' = "done" /\ mails' = mails /\ lost' = lost
             \/ init' = "done" /\ mails' = mails \cup {"invitation"} /\ lost' = TRUE
      BY <2>1 DEF Mail, InitGoto
    <3>1. (mails = {} \/ lost) /\ users["email"] = None /\ init = "again"
          /\ address = "default" /\ lost \in BOOLEAN
      BY <3>0 DEF Inv, Mailed, TInv, TypeOK
    <3>2. Unseen' /\ Shared'
      BY <3>0, <3>1, InitMovesOn
    <3>3. Mailed'
      BY <3>0, <3>1 DEF Mailed
    <3>4. InvitedOnce'
      BY <3>0, <3>1 DEF InvitedOnce
    <3>5. QED
      BY <3>2, <3>3, <3>4
  <2>2. CASE Mail("invite", "invitation", "pending", "fallback")
    <3>0. /\ UNCHANGED <<users, heap, callVars, calm, claims, address>> /\ init = "invite"
          /\ \/ init' = "pending" /\ mails' = mails \cup {"invitation"} /\ lost' = lost
             \/ init' = "fallback" /\ mails' = mails /\ lost' = lost
             \/ init' = "fallback" /\ mails' = mails \cup {"invitation"} /\ lost' = TRUE
      BY <2>2 DEF Mail, InitGoto
    <3>1. mails = {} /\ lost = FALSE /\ users["email"] = None /\ init = "invite"
          /\ address = "own"
      BY <3>0 DEF Inv, Mailed, TInv, TypeOK
    <3>2. Unseen' /\ Shared'
      BY <3>0, <3>1, InitMovesOn
    <3>3. Mailed'
      BY <3>0, <3>1 DEF Mailed
    <3>4. InvitedOnce'
      BY <3>0, <3>1 DEF InvitedOnce
    <3>5. QED
      BY <3>2, <3>3, <3>4
  <2>3. QED
    BY <1>5, <2>1, <2>2 DEF CreateInvitation
<1>6. "id" \in Keys /\ "email" \in Keys /\ "id" # "email"
      /\ <<"init", 1>> \in Objects /\ Second \in Objects
      /\ <<"init", 1>> # Second /\ None # Second /\ Updates \subseteq Calls
  BY DEF Keys, Objects, Second, None, Calls
<1>7. users \in [Keys -> Objects \cup {None}] /\ heap \in [Objects -> Content]
  BY DEF Inv, TInv, TypeOK
<1>8. Replaced("init") /\ UNCHANGED pc => Shared'
  BY CallsAssumption, Replacing
<1>9. CASE KeepTokens
  <2>1. /\ UNCHANGED <<mailVars, callVars>> /\ init = "keep" /\ init' \in {"verify", "done"}
        /\ users' = [users EXCEPT !["id"] = <<"init", 1>>] /\ Replaced("init")
    BY <1>9 DEF KeepTokens, InitStores, StoreUser
  <2>2. users'["email"] = users["email"] /\ users'["id"] # Second
    BY <1>6, <1>7, <2>1
  <2>3. Unseen' /\ Shared'
    BY <1>8, <2>1, <2>2 DEF Inv, Unseen, callVars
  <2>4. Mailed' /\ InvitedOnce'
    BY <2>1, <2>2, NoMail
  <2>5. QED
    BY <2>3, <2>4
<1>10. CASE StoreProfile
  <2>1. /\ UNCHANGED <<mailVars, callVars>> /\ init = "store" /\ init' \in {"greet", "done"}
        /\ users' = [users EXCEPT !["id"] = <<"init", 2>>] /\ Replaced("init")
    BY <1>10 DEF StoreProfile, InitStores, StoreUser
  <2>2. users'["email"] = users["email"]
    BY <1>6, <1>7, <2>1
  <2>3. Unseen' /\ Shared'
    BY <1>8, <2>1 DEF Unseen, callVars
  <2>4. Mailed' /\ InvitedOnce'
    BY <2>1, <2>2, NoMail
  <2>5. QED
    BY <2>3, <2>4
<1>11. CASE StoreInvitation
  <2>1. /\ UNCHANGED <<mailVars, callVars, calm, claims>> /\ init = "pending" /\ init' = "done"
        /\ users' = [users EXCEPT !["email"] = Second]
        /\ heap' = [heap EXCEPT ![Second] = [Empty EXCEPT !.Pending = TRUE]]
    BY <1>11 DEF StoreInvitation, InitStores, StoreUser, Second
  <2>2. /\ users'["email"] = Second /\ users'["id"] = users["id"]
        /\ users["id"] # Second
        /\ \A o \in Objects \ {Second} : heap'[o] = heap[o]
    BY <1>6, <1>7, <2>1 DEF Inv, Unseen
  <2>3. heap'[Second].Pending
    BY <1>6, <1>7, <2>1, Contents
  <2>4. mails = {"invitation"} /\ address = "own" /\ users["id"] \in Objects \cup {None}
    BY <1>6, <1>7, <2>1 DEF Inv, Mailed
  <2>5. Unseen'
    BY <2>1 DEF Unseen
  <2>6. Shared'
    <3>1. SUFFICES ASSUME calm, NEW c \in Updates
                   PROVE  /\ pc[c] \in {"patch", "store"} => loaded[c] = users["id"]
                          /\ pc[c] = "store" \/ c \in claims =>
                                users["id"] # None /\ Kept(FieldOf[c])'
      BY <2>1, <2>2 DEF Shared, callVars
    <3>2. users["id"] # None => heap'[users["id"]] = heap[users["id"]]
      BY <2>2, <2>4
    <3>3. Kept(FieldOf[c]) /\ users["id"] # None => Kept(FieldOf[c])'
      BY <2>1, <2>2, <3>2 DEF Kept, callVars
    <3>4. QED
      BY <3>1, <3>3 DEF Inv, Shared
  <2>7. Mailed'
    BY <2>1, <2>2 DEF Mailed
  <2>8. InvitedOnce'
    <3>1. mails' = {"invitation"} /\ address' = "own" /\ "magic" \notin mails'
      BY <2>1, <2>4 DEF mailVars
    <3>2. heap'[users'["email"]].Pending /\ users'["email"] # None
      BY <1>6, <2>2, <2>3
    <3>3. QED
      BY <3>1, <3>2 DEF InvitedOnce
  <2>9. QED
    BY <2>5, <2>6, <2>7, <2>8
<1>12. QED
  BY <1>1, <1>2, <1>4, <1>5, <1>9, <1>10, <1>11 DEF InitStep

-----------------------------------------------------------------------------
(* The calls.                                                              *)

\* The calls send nothing, and no entry under an address is theirs.
LEMMA CallMailsNothing ==
  ASSUME Inv, NEW c \in Calls, CallStep(c)
  PROVE  Mailed' /\ InvitedOnce'
<1>1. UNCHANGED initVars
  BY DEF CallStep, InviteStores, DeleteUser, Fetch, Load, Create, Patch, StoreBack
<1>2. /\ users \in [Keys -> Objects \cup {None}] /\ heap \in [Objects -> Content]
      /\ "email" \in Keys /\ "id" # "email" /\ Second \in Objects /\ <<c, 1>> # Second
      /\ Second # None
  BY DEF Inv, TInv, TypeOK, Keys, Objects, Second, None
<1>3. users'["email"] = users["email"]
  BY <1>2 DEF CallStep, InviteStores, DeleteUser, Fetch, Load, Create, Patch, StoreBack, StoreUser
<1>4. heap'[Second].Pending = heap[Second].Pending
  <2>1. ASSUME NEW state, heap' = [heap EXCEPT ![<<c, 1>>] = state]
        PROVE  heap'[Second].Pending = heap[Second].Pending
    BY <1>2, <2>1
  <2>2. CASE InviteStores(c) \/ Create(c)
    BY <2>1, <2>2 DEF InviteStores, Create, StoreUser
  <2>3. CASE DeleteUser(c) \/ Fetch(c) \/ Load(c) \/ StoreBack(c)
    BY <2>3 DEF DeleteUser, Fetch, Load, StoreBack
  <2>4. CASE Patch(c)
    <3>1. heap' = [heap EXCEPT ![loaded[c]] = With(heap[loaded[c]], FieldOf[c], fetched[c])]
      BY <2>4 DEF Patch, With
    <3>2. FieldOf[c] \in Fields /\ fetched[c] \in 0..MaxVersion /\ loaded[c] \in Objects
          /\ heap[loaded[c]] \in Content
      BY <2>4, CallsAssumption DEF Patch, Inv, TInv, TypeOK
    <3>3. With(heap[loaded[c]], FieldOf[c], fetched[c]).Pending = heap[loaded[c]].Pending
      BY <3>2, Patched
    <3>4. QED
      BY <1>2, <3>1, <3>2, <3>3
  <2>5. QED
    BY <2>2, <2>3, <2>4 DEF CallStep
<1>5. Mailed'
  BY <1>1, <1>3 DEF Inv, Mailed, initVars, mailVars
<1>6. InvitedOnce'
  <2>1. users["email"] # None => users["email"] = Second
    BY DEF Inv, Mailed
  <2>2. users["email"] # None => heap'[users'["email"]].Pending
    BY <1>3, <1>4, <2>1 DEF Inv, InvitedOnce
  <2>3. QED
    BY <1>1, <1>3, <2>2 DEF Inv, InvitedOnce, initVars, mailVars
<1>7. QED
  BY <1>5, <1>6

LEMMA CallKeepsObjects ==
  ASSUME Inv, NEW c \in Calls, CallStep(c)
  PROVE  Unseen' /\ Shared'
<1>1. init' = init
  BY DEF CallStep, InviteStores, DeleteUser, Fetch, Load, Create, Patch, StoreBack, initVars
<1>2. /\ users \in [Keys -> Objects \cup {None}] /\ heap \in [Objects -> Content]
      /\ "id" \in Keys /\ Updates \subseteq Calls
      /\ loaded \in [Updates -> Objects \cup {None}]
      /\ <<c, 1>> # Second /\ Second # None
  BY DEF Inv, TInv, TypeOK, Keys, Second, None, Calls
<1>3. \A s \in {"load", "create", "patch", "store", "done"} : Goto(c, s) =>
         pc'[c] = s /\ \A d \in Calls \ {c} : pc'[d] = pc[d]
  BY DEF Inv, TInv, TypeOK, Goto
\* A whole state, or none, takes the place of the one there was.
<1>4. CASE InviteStores(c) \/ DeleteUser(c) \/ Create(c)
  <2>1. users'["id"] \in {<<c, 1>>, None} /\ loaded' = loaded /\ Replaced(c) /\ Goto(c, "done")
    BY <1>2, <1>4 DEF InviteStores, DeleteUser, Create, StoreUser
  <2>2. Unseen'
    BY <1>1, <1>2, <2>1 DEF Inv, Unseen
  <2>3. Shared'
    BY <1>2, <1>3, <2>1, Replacing
  <2>4. QED
    BY <2>2, <2>3
<1>5. CASE Fetch(c) \/ Load(c)
  <2>1. /\ c \in Updates /\ pc[c] \in {"start", "load"}
        /\ pc'[c] \in {"load", "done", "create", "patch"}
        /\ \A d \in Calls \ {c} : pc'[d] = pc[d]
        /\ UNCHANGED <<users, heap, calm, claims>>
    BY <1>3, <1>5 DEF Fetch, Load
  <2>2. loaded'[c] \in {loaded[c], users["id"]} /\ (pc'[c] = "patch" => loaded'[c] = users["id"])
    BY <1>2, <1>3, <1>5 DEF Fetch, Load
  <2>3. \A d \in Updates \ {c} : loaded'[d] = loaded[d] /\ fetched'[d] = fetched[d]
    <3>1. fetched \in [Updates -> 0..MaxVersion]
      BY DEF Inv, TInv, TypeOK
    <3>2. QED
      BY <1>2, <1>5, <3>1 DEF Fetch, Load
  <2>4. Unseen'
    BY <1>1, <2>1, <2>2, <2>3 DEF Inv, Unseen
  <2>5. \A f : Kept(f) => Kept(f)'
    BY <1>2, <2>1, <2>3 DEF Kept
  <2>6. Shared'
    BY <1>2, <2>1, <2>2, <2>3, <2>5 DEF Inv, Shared
  <2>7. QED
    BY <2>4, <2>6
<1>6. CASE Patch(c)
  <2>1. /\ c \in Updates /\ pc[c] = "patch" /\ pc'[c] = "store"
        /\ \A d \in Calls \ {c} : pc'[d] = pc[d]
        /\ UNCHANGED <<users, fetched, loaded, calm, claims>>
    BY <1>3, <1>6 DEF Patch
  <2>2. Unseen'
    BY <1>1, <2>1 DEF Inv, Unseen
  <2>3. CASE ~calm
    BY <2>1, <2>2, <2>3 DEF Shared
  <2>4. CASE calm
    <3>1. loaded[c] = users["id"] /\ users["id"] \in Objects /\ users["id"] # None
      <4>1. loaded[c] = users["id"] /\ loaded[c] \in Objects
        BY <2>1, <2>4 DEF Inv, Shared, TInv
      <4>2. None \notin Objects
        BY DEF None, Objects
      <4>3. QED
        BY <4>1, <4>2
    <3>2. FieldOf[c] \in Fields /\ fetched[c] \in 0..MaxVersion /\ heap[users["id"]] \in Content
      BY <1>2, <2>1, <3>1, CallsAssumption DEF Inv, TInv, TypeOK
    <3>3. heap'[users["id"]] = With(heap[users["id"]], FieldOf[c], fetched[c])
      <4>1. heap' = [heap EXCEPT ![loaded[c]] = With(heap[loaded[c]], FieldOf[c], fetched[c])]
        BY <1>6 DEF Patch, With
      <4>2. QED
        BY <1>2, <3>1, <4>1
    <3>4. /\ With(heap[users["id"]], FieldOf[c], fetched[c])[FieldOf[c]] = fetched[c]
          /\ \A g \in Fields \ {FieldOf[c]} :
                With(heap[users["id"]], FieldOf[c], fetched[c])[g] = heap[users["id"]][g]
      BY <3>2, Patched
    <3>5. /\ heap'[users["id"]][FieldOf[c]] = fetched[c]
          /\ \A g \in Fields \ {FieldOf[c]} : heap'[users["id"]][g] = heap[users["id"]][g]
      BY <3>3, <3>4
    <3>6. Kept(FieldOf[c])'
      BY <2>1, <3>5 DEF Kept
    <3>7. \A g \in Fields \ {FieldOf[c]} : Kept(g) => Kept(g)'
      BY <1>2, <2>1, <3>5 DEF Kept
    <3>8. \A d \in Updates : FieldOf[d] \in Fields
      BY CallsAssumption
    <3>9. Shared'
      BY <1>2, <2>1, <2>4, <3>1, <3>6, <3>7, <3>8 DEF Inv, Shared
    <3>10. QED
      BY <2>2, <3>9
  <2>5. QED
    BY <2>3, <2>4 DEF Inv, TInv, TypeOK
<1>7. CASE StoreBack(c)
  <2>1. /\ c \in Updates /\ pc[c] = "store" /\ pc'[c] = "done"
        /\ \A d \in Calls \ {c} : pc'[d] = pc[d]
        /\ users'["id"] = loaded[c] /\ claims' = claims \cup {c}
        /\ UNCHANGED <<heap, fetched, loaded, calm>>
    BY <1>2, <1>3, <1>7 DEF StoreBack
  <2>2. Unseen'
    BY <1>1, <2>1 DEF Inv, Unseen
  <2>3. calm => users'["id"] = users["id"]
    BY <2>1 DEF Inv, Shared
  <2>4. calm => \A f : Kept(f) => Kept(f)'
    BY <1>2, <2>1, <2>3 DEF Kept
  <2>5. Shared'
    BY <1>2, <2>1, <2>3, <2>4 DEF Inv, Shared
  <2>6. QED
    BY <2>2, <2>5
<1>8. QED
  BY <1>4, <1>5, <1>6, <1>7 DEF CallStep

LEMMA StepKeepsInv == Inv /\ [Next]_vars => Inv'
<1> SUFFICES ASSUME Inv, [Next]_vars PROVE Inv'
  OBVIOUS
<1>1. CASE UNCHANGED vars
  <2>1. TInv'
    BY <1>1 DEF Inv, TInv, TypeOK, vars, initVars, mailVars, callVars
  <2>2. Unseen' /\ Shared'
    BY <1>1 DEF Inv, Unseen, Shared, Kept, vars, initVars, callVars
  <2>3. Mailed' /\ InvitedOnce'
    BY <1>1 DEF Inv, Mailed, InvitedOnce, vars, initVars, mailVars
  <2>4. QED
    BY <2>1, <2>2, <2>3 DEF Inv
<1>2. CASE WorkOSChanges
  <2>1. UNCHANGED <<users, heap, initVars, callVars, calm, claims>>
        /\ version < MaxVersion /\ version' = version + 1
    BY <1>2 DEF WorkOSChanges
  <2>2. version' \in 1..MaxVersion
    BY <2>1, CallsAssumption DEF Inv, TInv, TypeOK
  <2>3. TInv'
    BY <2>1, <2>2 DEF Inv, TInv, TypeOK, initVars, mailVars, callVars
  <2>4. Unseen' /\ Shared'
    BY <2>1 DEF Inv, Unseen, Shared, Kept, initVars, callVars
  <2>5. Mailed' /\ InvitedOnce'
    BY <2>1 DEF Inv, Mailed, InvitedOnce, initVars, mailVars
  <2>6. QED
    BY <2>3, <2>4, <2>5 DEF Inv
<1>3. CASE InitStep
  BY <1>3, InitKeepsTypes, InitKeepsInv DEF Inv
<1>4. CASE \E c \in Calls : CallStep(c)
  <2>1. PICK c \in Calls : CallStep(c)
    BY <1>4
  <2>2. TInv'
    BY <2>1, CallKeepsTypes DEF Inv
  <2>3. QED
    BY <2>1, <2>2, CallKeepsObjects, CallMailsNothing DEF Inv
<1>5. QED
  BY <1>1, <1>2, <1>3, <1>4 DEF Next

LEMMA Invariance == Spec => []Inv
  BY InvInit, StepKeepsInv, PTL DEF Spec

\* The map and its objects keep their types, and an update that patches has an object
\* to patch (session.go).
THEOREM TypeCorrect == Spec => []TypeOK
<1>1. Inv => TypeOK
  BY DEF Inv, TInv
<1>2. QED
  BY <1>1, Invariance, PTL

\* Without a login, a deletion or a first update between its Load and its Store no update
\* is lost, for any number of updates of either field (session.go:22-76).
THEOREM Survive == Spec => []UpdatesSurvive
<1>1. Inv => UpdatesSurvive
  <2>1. Inv => claims \subseteq Updates
    BY DEF Inv, TInv, TypeOK
  <2>2. QED
    BY <2>1 DEF Inv, Shared, Kept, UpdatesSurvive
<1>2. QED
  BY <1>1, Invariance, PTL

\* One mail at most unless an answer was lost, and an entry under the address exactly for
\* an invitation of the user's own one (init.go).
THEOREM OneMail == Spec => []InvitedOnce
<1>1. Inv => InvitedOnce
  BY DEF Inv
<1>2. QED
  BY <1>1, Invariance, PTL

=============================================================================
