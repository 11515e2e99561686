-------------------------------- MODULE Boot --------------------------------
(***************************************************************************)
(* identifier.Init (identifier/boot.go, environment_checks.go): flags,     *)
(* environment checks, then the registered login providers, whose          *)
(* resources go into the token map.  Other goroutines register providers   *)
(* and build an identifier server (identifier.go) at any time.  A client   *)
(* that boots without Init uses login.Run (login/login.go) on a list of    *)
(* its own.                                                                *)
(***************************************************************************)
EXTENDS Naturals, Sequences, FiniteSets, SequencesExt

CONSTANTS ProviderNames,  \* what providers call themselves
          MaxProviders    \* bound: the registrations, and the length of login.Run's list

ASSUME BootAssumption == MaxProviders \in Nat

VARIABLES
    init,           \* idle, flags, detect, verify, copy, login, done; run: login.Run instead
    rootAuthority, rootIdentity,  \* unset or set, from the flags
    isContainerised,
    verified,       \* what verifyDomain said: none, ok, failed
    loginProviders, \* the names of the registered providers, in order
    providers,      \* runLoginProviders' copy
    logins,         \* how their logins ended: resource, nothing, error
    tokens,         \* per name: the login whose resource is stored, 0: none
    listed,         \* the list of login.Run, of which it has run
    outcomes,       \* how its logins ended,
    found,          \* and the one whose resource it returned, 0: none; Running before
    authorityName, ownerName,     \* of the identifier server: none, unset, set; given
    configured      \* the server was built after Init had returned

initVars   == <<rootAuthority, rootIdentity, isContainerised, verified>>
loginVars  == <<providers, logins, tokens>>
runVars    == <<listed, outcomes, found>>
namesVars  == <<authorityName, ownerName, configured>>
bootVars == <<init, rootAuthority, rootIdentity, isContainerised, verified, loginProviders,
              providers, logins, tokens, listed, outcomes, found,
              authorityName, ownerName, configured>>

Outcomes == {"resource", "nothing", "error"}
Lists    == SeqOf(ProviderNames, MaxProviders)
Running  == MaxProviders + 1

BootTypeOK ==
    /\ init \in {"idle", "flags", "detect", "verify", "copy", "login", "done", "run"}
    /\ {rootAuthority, rootIdentity} \subseteq {"unset", "set"}
    /\ isContainerised \in BOOLEAN /\ verified \in {"none", "ok", "failed"}
    /\ {loginProviders, providers, listed} \subseteq Lists
    /\ IsPrefix(providers, loginProviders) /\ Len(logins) <= Len(providers)
    /\ tokens \in [ProviderNames -> 0..MaxProviders]
    /\ Len(outcomes) <= Len(listed) /\ found \in 0..Running
    /\ {authorityName, ownerName} \subseteq {"none", "unset", "set", "given"} /\ configured \in BOOLEAN

BootBegins(at, lists) ==
    /\ init = at /\ rootAuthority = "unset" /\ rootIdentity = "unset"
    /\ isContainerised = FALSE /\ verified = "none"
    /\ loginProviders = <<>> /\ providers = <<>> /\ logins = <<>>
    /\ tokens = [n \in ProviderNames |-> 0]
    /\ listed \in lists /\ outcomes = <<>> /\ found = Running
    /\ authorityName = "none" /\ ownerName = "none" /\ configured = FALSE

BootInit == BootBegins("flags", {<<>>}) \/ BootBegins("run", Lists)
BootIdle == BootBegins("idle", {<<>>})

-----------------------------------------------------------------------------
(* Init.                                                                   *)

\* The two names are set one after the other; the WorkOS flags only go to the environment.
SetFlags ==
    /\ init = "flags"
    /\ \/ rootAuthority = "unset" /\ rootAuthority' = "set" /\ UNCHANGED <<init, rootIdentity>>
       \/ rootAuthority = "set" /\ rootIdentity' = "set" /\ init' = "detect" /\ UNCHANGED rootAuthority
    /\ UNCHANGED <<isContainerised, verified, loginProviders, loginVars, runVars, namesVars>>

\* A line of /proc/1/cgroup, told apart by what the code looks for in it.
CgroupLines == [hint : BOOLEAN, parts : 1..3, path : {"", "/", "/x.scope", "/x"}]
CgroupLooksLikeContainer(lines) ==
    \E l \in lines : l.hint \/ (l.parts = 3 /\ l.path = "/x.scope")

DetectContainer ==
    /\ init = "detect" /\ init' = "verify"
    /\ \E pid1, flag \in BOOLEAN, lines \in {{l} : l \in CgroupLines} \cup {{}} :
          isContainerised' = (pid1 \/ flag \/ CgroupLooksLikeContainer(lines))
    /\ UNCHANGED <<rootAuthority, rootIdentity, verified, loginProviders, loginVars, runVars, namesVars>>

\* DNS, TLS, the certificate, its chain, HTTPS: the first that fails is logged, and Init
\* goes on all the same.
VerifyDomain ==
    /\ init = "verify" /\ init' = "copy"
    /\ verified' \in {"ok", "failed"}
    /\ UNCHANGED <<rootAuthority, rootIdentity, isContainerised, loginProviders, loginVars, runVars, namesVars>>

CopyProviders ==
    /\ init = "copy" /\ init' = "login" /\ providers' = loginProviders
    /\ UNCHANGED <<initVars, loginProviders, logins, tokens, runVars, namesVars>>

RunEnvironmentChecks == DetectContainer \/ VerifyDomain

\* A resource is known by the login that brought it.
StoreToken(key, login) == tokens' = [tokens EXCEPT ![key] = login]

\* Mutant: a login that fails ends them all.
LoginGivingUp ==
    /\ init = "login"
    /\ IF Len(logins) = Len(providers) \/ Contains(logins, "error")
       THEN init' = "done" /\ UNCHANGED <<logins, tokens>>
       ELSE \E o \in Outcomes :
              /\ logins' = Append(logins, o)
              /\ IF o = "resource" THEN StoreToken(providers[Len(logins')], Len(logins'))
                 ELSE UNCHANGED tokens
              /\ UNCHANGED init
    /\ UNCHANGED <<initVars, loginProviders, providers, runVars, namesVars>>

\* Every provider of the copy logs in, whatever the others' luck; it may take for ever.
Login ==
    /\ init = "login"
    /\ IF Len(logins) = Len(providers) THEN init' = "done" /\ UNCHANGED <<logins, tokens>>
       ELSE \E o \in Outcomes :
              /\ logins' = Append(logins, o)
              /\ IF o = "resource" THEN StoreToken(providers[Len(logins')], Len(logins'))
                 ELSE UNCHANGED tokens
              /\ UNCHANGED init
    /\ UNCHANGED <<initVars, loginProviders, providers, runVars, namesVars>>

-----------------------------------------------------------------------------
(* Other goroutines.                                                       *)

RegisterLoginProvider ==
    /\ init \notin {"idle", "run"} /\ Len(loginProviders) < MaxProviders
    /\ \E n \in ProviderNames : loginProviders' = Append(loginProviders, n)
    /\ UNCHANGED <<init, initVars, loginVars, runVars, namesVars>>

\* login.Run: the first resource is the result.
Run ==
    /\ init = "run" /\ found = Running
    /\ IF Len(outcomes) = Len(listed) THEN found' = 0 /\ UNCHANGED outcomes
       ELSE \E o \in Outcomes : /\ outcomes' = Append(outcomes, o)
                                /\ found' = IF o = "resource" THEN Len(outcomes') ELSE Running
    /\ UNCHANGED <<init, initVars, loginProviders, loginVars, listed, namesVars>>

\* NewIdentifierServer reads the two names without a lock.
NewIdentifierServer ==
    /\ init \notin {"idle", "run"}
    /\ \/ /\ authorityName = "none" /\ authorityName' = rootAuthority
          /\ configured' = (init = "done") /\ UNCHANGED ownerName
       \/ /\ authorityName # "none" /\ ownerName = "none" /\ ownerName' = rootIdentity
          /\ UNCHANGED <<authorityName, configured>>
    /\ UNCHANGED <<init, initVars, loginProviders, loginVars, runVars>>

\* The option gives the server names of its own.
WithAuthority ==
    /\ init \notin {"idle", "run"} /\ authorityName = "none"
    /\ authorityName' = "given" /\ ownerName' = "given"
    /\ UNCHANGED <<init, initVars, loginProviders, loginVars, runVars, configured>>

BootNext == \/ SetFlags \/ RunEnvironmentChecks \/ CopyProviders \/ Login
            \/ RegisterLoginProvider \/ Run \/ NewIdentifierServer \/ WithAuthority

BootSpec == BootInit /\ [][BootNext]_bootVars

-----------------------------------------------------------------------------
\* Positions of the logins of a name that brought a resource.
Wins(name) == {i \in DOMAIN logins : providers[i] = name /\ logins[i] = "resource"}
FirstOr0(S) == IF S = {} THEN 0 ELSE CHOOSE i \in S : \A j \in S : i <= j

\* When Init has returned, every provider registered before its copy has logged in once,
\* and each name has the token of its last success: two providers of one name are one
\* entry of the map (boot.go:74-96).  The comment on the call has it otherwise, "blocks
\* until all complete or first succeeds" (boot.go:66): the loop goes on after a success.
\* login.Run does have the first success of its list (login/login.go:15-29).  A server
\* built after Init names authority and owner.
BootSettles ==
    /\ init = "done" => /\ Len(logins) = Len(providers)
                        /\ \A n \in ProviderNames :
                              \/ tokens[n] = 0 /\ Wins(n) = {}
                              \/ tokens[n] \in Wins(n) /\ \A i \in Wins(n) : i <= tokens[n]
    /\ found # Running => found = FirstOr0({i \in DOMAIN outcomes : outcomes[i] = "resource"})
    /\ configured => authorityName = "set" /\ ownerName \in {"none", "set"}
=============================================================================
