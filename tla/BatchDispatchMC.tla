--------------------------- MODULE BatchDispatchMC ---------------------------
(* BatchDispatch for TLC: who calls the model, and what else may happen. *)
EXTENDS BatchDispatch

Case(kind, inFlight, viewers, logged, server, events) ==
    [kind |-> kind, inFlight |-> inFlight, viewers |-> viewers, logged |-> logged,
     server |-> server, events |-> events]

AnyAnswer == {"noFrame", "good", "missing", "limited", "useless", "noJsonMode", "broken"}

\* One batch of two viewers that anything can end; two batches of one viewer that run out of
\* time or that the session's end meets; three, for which the lane is too small;
\* calls of every kind that share one lease or two; a log, written on and replayed.
Cases == {
    Case(<<"batch">>, 2, {1, 2}, FALSE, {"good", "missing"}, {"cancel", "stop", "expire"}),
    Case(<<"batch", "batch">>, 2, {1}, FALSE, {"good", "missing", "useless"}, {"expire", "stop"}),
    Case(<<"batch", "batch", "batch">>, 2, {1}, FALSE, {"good"}, {"cancel"}),
    Case(<<"viewer", "summary", "memory">>, 1, {}, FALSE, AnyAnswer, {"abandon", "expire"}),
    Case(<<"viewer", "memory", "memory">>, 2, {}, FALSE, AnyAnswer, {"abandon"}),
    Case(<<"viewer", "memory", "summary">>, 1, {}, TRUE, {"good", "missing"}, {"crash", "abandon"})}

NoneOrTwo == {{}, {2}}

=============================================================================
