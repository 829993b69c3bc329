------------------------------ MODULE MCStrategy ------------------------------
(* Strategy with a share that pays 4: two quotes worth buying at, one that     *)
(* hits the stop loss of a position bought at either.                          *)
EXTENDS Strategy

MCTheo == {0, 2, 4}
MCQuote == {[bid |-> 0, ask |-> 1], [bid |-> 1, ask |-> 2], [bid |-> 2, ask |-> 3],
            [bid |-> 3, ask |-> 4]}
Late == 0..5
AnyTime == {0}
===============================================================================
