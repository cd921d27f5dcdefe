------------------------------ MODULE Testbench ------------------------------
(***************************************************************************)
(* The testbench as a whole: Simulator says which answer a request is due, *)
(* MessageStream how one that was recorded is written.  serveReplay takes  *)
(* the entry out of the session's hands before it writes the first byte,   *)
(* and the two share nothing after that; so a behaviour is about sessions, *)
(* or about one exchange.                                                  *)
(***************************************************************************)
EXTENDS Simulator, MessageStream

TestbenchInit ==
    /\ Init /\ StreamInit
    /\ stage = "idle" => directive = "replay"

TestbenchNext ==
    \/ stage = "off" /\ Next /\ UNCHANGED streamVars
    \/ StreamNext /\ UNCHANGED vars

TestbenchSpec == TestbenchInit /\ [][TestbenchNext]_<<vars, streamVars>>

\* Every part keeps its types.
TestbenchTypeOK == SimTypeOK /\ StreamTypeOK
=============================================================================
