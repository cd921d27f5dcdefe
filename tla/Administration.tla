---------------------------- MODULE Administration ----------------------------
(***************************************************************************)
(* gateway-cli and the owner it administers: the commands of CliLogin are  *)
(* the clients of the requests of OwnerStores.  A command sends its        *)
(* request with the token it was given, so the request runs for the        *)
(* account that was in cred.json when the command read it.                 *)
(***************************************************************************)
EXTENDS OwnerStores, CliLogin

ASSUME AdministrationAssumption == Requests = Commands /\ Subs = Accounts

adminVars == <<ownerVars, cliVars>>

AdminInit == OwnerInit /\ CliInit

\* The second try of a command becomes a request.
Operate(c) ==
    /\ Send(c)
    /\ \E op \in Ops, who \in Subs : Serve(c, op, command[c].held.sub, who)

\* The answer ends the command, whatever it is: nothing is tried a third time.
Collect(c) == Receive(c) /\ Leave(c)

Start(c) == \E m \in Machines : Begin(c, m) \/ StartLogin(c, m) \/ Logout(c, m)
Locally(c) == (Start(c) \/ Interrupt(c)) /\ UNCHANGED ownerVars
Onward(c) == CommandStep(c) /\ UNCHANGED ownerVars
Remotely(c) == HandlerStep(c) /\ UNCHANGED cliVars

AdminNext ==
    \/ \E c \in Commands :
         Locally(c) \/ Onward(c) \/ Operate(c) \/ Remotely(c) \/ Collect(c)
    \/ Restart /\ UNCHANGED cliVars

AdminSpec == AdminInit /\ [][AdminNext]_adminVars

\* Go runs every goroutine that can run.  A command may wait for the network for
\* ever: its clients have no timeout (oidc.go:58 and :169, client.go:76).
AdminFair == AdminSpec /\ \A c \in Commands : WF_adminVars(Remotely(c))

-----------------------------------------------------------------------------
\* Every request that comes in is answered, whatever becomes of the command that
\* sent it: the mutexes of the stores, which Claim takes one inside the other and
\* holds over a write that may fail, never make a handler wait for good
\* (gw_tenancy.go:99).
HandlersEnd == \A c \in Commands : []<>(Handling(c, "done") \/ Handling(c, "idle"))

AdminTypeOK == OwnerTypeOK /\ CliTypeOK
=============================================================================
