----------------------------- MODULE MCToolCalls -----------------------------
(* ToolCalls with two tools, and configurations that tell its checks apart.   *)
EXTENDS ToolCalls

Open == [listed |-> {"a", "b"}, risky |-> {}, asks |-> FALSE, enabled |-> FALSE, marked |-> {},
         selects |-> FALSE, selected |-> {}, timeout |-> TRUE]

SomeConfs ==
    {[Open EXCEPT !.marked = {"a", "b"}],
     [Open EXCEPT !.risky = {"a"}, !.asks = TRUE, !.marked = {"b"}, !.selects = TRUE,
                  !.selected = {"a", "b"}],
     [Open EXCEPT !.risky = {"a"}, !.selects = TRUE, !.selected = {"a"}, !.timeout = FALSE],
     [Open EXCEPT !.risky = {"a"}, !.enabled = TRUE, !.listed = {"a"}]}
=============================================================================
