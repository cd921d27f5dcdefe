------------------------------- MODULE CliLogin -------------------------------
(***************************************************************************)
(* The login of gateway-cli (internal/client/client.go, internal/auth,     *)
(* cmd/login.go, cmd/logout.go).  Each command is a process of its own;    *)
(* those of one machine share cred.json, which holds a refresh token, and  *)
(* nothing locks it.  No access token is kept: a command sends its request *)
(* without one, is answered 401, refreshes, saves the refresh token it is  *)
(* given, and sends its request once more.                                 *)
(***************************************************************************)
EXTENDS TempFile, Naturals

CONSTANTS
    Commands,   \* processes of gateway-cli
    Machines,
    Accounts,   \* who can log in: OIDC subjects
    MaxTokens,  \* bound: refresh tokens issued to one machine
    Nobody      \* no account

ASSUME CliAssumption ==
    /\ Machines # {}
    /\ MaxTokens \in Nat \ {0}
    /\ Nobody \notin Accounts

VARIABLES
    cred,      \* machine -> the file cred.json and its temporary one
    command,   \* command -> its locals
    provider,  \* what the identity provider does with a refresh token that is used
    issued,    \* machine -> how many refresh tokens it was issued
    live,      \* machine -> those the identity provider accepts
    session,   \* history: machine -> whom the last login or logout left logged in
    disturbed  \* history: machine -> something came between that and cred.json

cliVars == <<cred, command, provider, issued, live, session, disturbed>>

\* It sends no other and goes on accepting it, or sends a new one and accepts that one
\* only, or both.
Providers == {"keeps", "replaces", "adds"}

\* What is stored.  Token 0 is the empty string, which never is.
Cred == [sub : Accounts, token : 1..MaxTokens]
Login(sub, token) == [sub |-> sub, token |-> token]
NoLogin == Login(Nobody, 0)

\* home: the machine it runs on; login: it is `gateway-cli login`.
CommandState ==
    [pc : {"new", "asked", "refresh", "login", "open", "write", "rename",
           "retry", "served", "done"},
     home : Machines, login : BOOLEAN,
     held : Cred \cup {Login(sub, 0) : sub \in Accounts \cup {Nobody}}]

Process(pc, home, login, held) ==
    [pc |-> pc, home |-> home, login |-> login, held |-> held]

AnyMachine == CHOOSE m \in Machines : TRUE
New == Process("new", AnyMachine, FALSE, NoLogin)
Ended == Process("done", AnyMachine, FALSE, NoLogin)
Home(c) == command[c].home

CliInit ==
    /\ provider \in Providers
    /\ session \in [Machines -> Accounts \cup {Nobody}]
    /\ issued = [m \in Machines |-> IF session[m] = Nobody THEN 0 ELSE 1]
    /\ live = [m \in Machines |-> 1..issued[m]]
    /\ cred = [m \in Machines |->
                 AtRest(Commands,
                        IF session[m] = Nobody THEN Absent ELSE Whole(Login(session[m], 1)),
                        Absent)]
    /\ command = [c \in Commands |-> New]
    /\ disturbed = [m \in Machines |-> FALSE]

Runs(c, pc) == command[c].pc = pc
Becomes(c, pc, held) == command' = [command EXCEPT ![c] = Process(pc, @.home, @.login, held)]
End(c) == command' = [command EXCEPT ![c] = Ended]

Stored(c) == cred[Home(c)]
Store(c, f) == cred' = [cred EXCEPT ![Home(c)] = f]

\* It has read cred.json, or was given a token, and has not saved it yet.
Inside(c) == command[c].pc \in {"refresh", "open", "write", "rename"}
InsideBut(c, m) == {d \in Commands \ {c} : Inside(d) /\ Home(d) = m}

Disturbs(c, whether) ==
    disturbed' = [disturbed EXCEPT ![Home(c)] = @ \/ whether]

-----------------------------------------------------------------------------
(* Client.Do and refreshToken. *)

\* accessToken only finds out whether cred.json can be read.
Begin(c, m) ==
    /\ Runs(c, "new")
    /\ command' = [command EXCEPT ![c] =
                     IF cred[m].main \in {Torn, Mixed} THEN Ended
                     ELSE Process("asked", m, FALSE, NoLogin)]
    /\ UNCHANGED <<cred, provider, issued, live, session, disturbed>>

\* The answer is 401, and cred.json is read again for the refresh token.
Unauthorised(c) ==
    LET f == Stored(c).main IN
    /\ Runs(c, "asked")
    /\ IF f.is = "whole" /\ f.doc.token # 0
       THEN Becomes(c, "refresh", f.doc) /\ Disturbs(c, \E d \in InsideBut(c, Home(c)) : command[d].login)
       ELSE End(c) /\ UNCHANGED disturbed
    /\ UNCHANGED <<cred, provider, issued, live, session>>

\* The gateway is not reached, at the first try or at the second.
Unreachable(c) ==
    /\ Runs(c, "asked") \/ Runs(c, "retry")
    /\ End(c)
    /\ UNCHANGED <<cred, provider, issued, live, session, disturbed>>

\* Mutant: Refresh returns what the answer holds, nothing if nothing was replaced.
UnrotatedForgotten(token) == 0

\* An answer without a refresh token leaves the one that was used.
Unrotated(token) == token

\* The identity provider's answer: what it accepts from now on and what it sends.
Exchanged(c, token, accepted) ==
    \/ /\ provider = "keeps"
       /\ token = Unrotated(command[c].held.token)
       /\ accepted = live[Home(c)]
       /\ UNCHANGED issued
    \/ /\ provider # "keeps" /\ issued[Home(c)] < MaxTokens
       /\ issued' = [issued EXCEPT ![Home(c)] = @ + 1]
       /\ token = issued[Home(c)] + 1
       /\ accepted = {token} \cup (IF provider = "adds" THEN live[Home(c)]
                                  ELSE live[Home(c)] \ {command[c].held.token})

\* The answer arrives, or it is lost.
Refresh(c) ==
    /\ Runs(c, "refresh") /\ command[c].held.token \in live[Home(c)]
    /\ \E token \in 0..MaxTokens, accepted \in SUBSET (1..MaxTokens) :
         /\ Exchanged(c, token, accepted)
         /\ live' = [live EXCEPT ![Home(c)] = accepted]
         /\ \/ /\ Becomes(c, "open", Login(command[c].held.sub, token))
               /\ UNCHANGED disturbed
            \/ End(c) /\ Disturbs(c, TRUE)
    /\ UNCHANGED <<cred, provider, session>>

\* The identity provider is not reached, or does not accept the token.
RefreshFails(c) ==
    /\ Runs(c, "refresh")
    /\ End(c)
    /\ UNCHANGED <<cred, provider, issued, live, session, disturbed>>

-----------------------------------------------------------------------------
(* login and logout. *)

StartLogin(c, m) ==
    /\ Runs(c, "new")
    /\ command' = [command EXCEPT ![c] = Process("login", m, TRUE, NoLogin)]
    /\ UNCHANGED <<cred, provider, issued, live, session, disturbed>>

\* The browser comes back with a code, and the code gets a first refresh token.
LoggedIn(c, sub) ==
    /\ Runs(c, "login") /\ issued[Home(c)] < MaxTokens
    /\ issued' = [issued EXCEPT ![Home(c)] = @ + 1]
    /\ live' = [live EXCEPT ![Home(c)] = @ \cup {issued[Home(c)] + 1}]
    /\ Becomes(c, "open", Login(sub, issued[Home(c)] + 1))
    /\ disturbed' = [disturbed EXCEPT ![Home(c)] = InsideBut(c, Home(c)) # {}]
    /\ UNCHANGED <<cred, provider, session>>

LoginFails(c) ==
    /\ Runs(c, "login")
    /\ End(c)
    /\ UNCHANGED <<cred, provider, issued, live, session, disturbed>>

\* logout clears cred.json.
Logout(c, m) ==
    /\ Runs(c, "new")
    /\ cred' = [cred EXCEPT ![m] = Removed(@)]
    /\ session' = [session EXCEPT ![m] = Nobody]
    /\ disturbed' = [disturbed EXCEPT ![m] = InsideBut(c, m) # {}]
    /\ End(c)
    /\ UNCHANGED <<provider, issued, live>>

-----------------------------------------------------------------------------
(* SaveCred. *)

SaveOpen(c) ==
    /\ Runs(c, "open")
    /\ Store(c, Truncated(Stored(c), c))
    /\ Becomes(c, "write", command[c].held)
    /\ UNCHANGED <<provider, issued, live, session, disturbed>>

SaveWrite(c) ==
    /\ Runs(c, "write")
    /\ \E f \in Written(Stored(c), c, command[c].held) : Store(c, f)
    /\ Becomes(c, "rename", command[c].held)
    /\ Disturbs(c, Under(Stored(c), c) \notin {Torn, Whole(command[c].held)})
    /\ UNCHANGED <<provider, issued, live, session>>

\* login ends here; another command goes on to its second try, with the access
\* token of its account.
AfterSave(c) ==
    IF command[c].login THEN End(c)
    ELSE Becomes(c, "retry", Login(command[c].held.sub, 0))

SaveRename(c) ==
    LET m == Home(c) IN
    /\ Runs(c, "rename") /\ Stored(c).tmp # Absent
    /\ Store(c, Renamed(Stored(c), c))
    /\ AfterSave(c)
    /\ IF command[c].login
       THEN session' = [session EXCEPT ![m] = command[c].held.sub]
       ELSE UNCHANGED session
    /\ UNCHANGED <<provider, issued, live, disturbed>>

\* The temporary file has been renamed by another command, with what this one wrote.
SaveOvertaken(c) ==
    /\ Runs(c, "rename") /\ Stored(c).tmp = Absent
    /\ Store(c, Closed(Stored(c), c))
    /\ AfterSave(c)
    /\ UNCHANGED <<provider, issued, live, session, disturbed>>

\* Saving fails at any step.  Only login looks at the error.
SaveCredFails(c) ==
    /\ \E pc \in {"open", "write", "rename"} : Runs(c, pc)
    /\ Store(c, Closed(Stored(c), c))
    /\ Disturbs(c, TRUE)
    /\ AfterSave(c)
    /\ UNCHANGED <<provider, issued, live, session>>

\* The user interrupts the command.  While its request is served that changes
\* nothing here: the handler goes on.
Interrupt(c) ==
    /\ command[c].pc \notin {"new", "served", "done"}
    /\ Store(c, Closed(Stored(c), c))
    /\ Disturbs(c, Inside(c))
    /\ End(c)
    /\ UNCHANGED <<provider, issued, live, session>>

-----------------------------------------------------------------------------
(* The request with the access token, and its answer. *)

Send(c) ==
    /\ Runs(c, "retry")
    /\ Becomes(c, "served", NoLogin)
    /\ UNCHANGED <<cred, provider, issued, live, session, disturbed>>

Receive(c) ==
    /\ Runs(c, "served")
    /\ End(c)
    /\ UNCHANGED <<cred, provider, issued, live, session, disturbed>>

\* What a command does by itself once it runs.
CommandStep(c) ==
    \/ Unauthorised(c) \/ Unreachable(c) \/ Refresh(c) \/ RefreshFails(c)
    \/ (\E sub \in Accounts : LoggedIn(c, sub)) \/ LoginFails(c)
    \/ SaveOpen(c) \/ SaveWrite(c) \/ SaveRename(c) \/ SaveOvertaken(c) \/ SaveCredFails(c)

CliNext ==
    \E c \in Commands :
      \/ \E m \in Machines : Begin(c, m) \/ StartLogin(c, m) \/ Logout(c, m)
      \/ CommandStep(c) \/ Interrupt(c)
      \/ Send(c) \/ Receive(c)

CliSpec == CliInit /\ [][CliNext]_cliVars

-----------------------------------------------------------------------------
(* Properties. *)

\* The types of cred.json, of the commands' locals and of the tokens issued.
CliTypeOK ==
    /\ cred \in [Machines -> Files(Commands, Cred)]
    /\ command \in [Commands -> CommandState]
    /\ provider \in Providers
    /\ issued \in [Machines -> 0..MaxTokens]
    /\ live \in [Machines -> SUBSET (1..MaxTokens)]
    /\ session \in [Machines -> Accounts \cup {Nobody}]
    /\ disturbed \in [Machines -> BOOLEAN]

Quiet(m) == \A c \in Commands : ~(Inside(c) /\ Home(c) = m)

\* The account, and a token that is still accepted; or nothing after a logout.
AsLeft(m) ==
    LET f == cred[m].main IN
    IF session[m] = Nobody THEN f = Absent
    ELSE /\ f.is = "whole"
         /\ f.doc.sub = session[m] /\ f.doc.token \in live[m]

\* Commands that run together do not cost the login, whichever of the three the
\* identity provider does and though each may present the refresh token that the
\* other one replaces (client.go:126): between commands cred.json is what the last
\* login or logout left, with a token that is still accepted, unless a login or a
\* logout came while a command was inside, an answer was lost, a command was
\* interrupted inside or could not save, or one wrote another login over what a
\* second one had just written to the same file: the tail of a longer one stays
\* (store.go:48), and two commands with tokens of their own can come to that.
LoginKept == \A m \in Machines : Quiet(m) /\ ~disturbed[m] => AsLeft(m)
=============================================================================
