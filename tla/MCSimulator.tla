---------------------------- MODULE MCSimulator ----------------------------
(* Values for model-checking Testbench.  Documents: one that ends in an error, a longer one that
   repeats its last step, and the shipped tool-loop-then-stop. *)
EXTENDS Testbench, TLC

Short == [times |-> <<2>>, onExhausted |-> "error", size |-> 1]
Long == [times |-> <<0, 1>>, onExhausted |-> "last", size |-> 2]
ToolLoop == [times |-> <<0, -1>>, onExhausted |-> "end_turn", size |-> 1]

MCDocs == {Short, Long}
MCBuiltin == ToolLoop

\* Messages: thinking and text; tools with and without an input; what only an
\* upstream sends.
Talk == Message(<<Block("thinking", <<"a", "b">>, "signed"), Block("text", <<"a", "b", "c">>, "")>>,
                "end_turn", 2)
Act == Message(<<Block("text", <<>>, ""), Block("tool_use", <<"{", " ", "wide", "}">>, ""),
                 Block("tool_use", <<>>, "")>>, "tool_use", 1)
Odd == Message(<<Block("other", <<>>, ""), Block("thinking", <<>>, ""), Block("text", <<"a">>, "")>>,
               "max_tokens", 0)
MCMessages == {Talk, Act, Odd}
Pace(chunk, ping) == [chunk |-> chunk, ping |-> ping]
MCPaces == {Pace(1, 2), Pace(2, 1), Pace(0, 0)}

Symmetry == Permutations(Calls) \cup Permutations(Editors)
=============================================================================
