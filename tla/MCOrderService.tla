--------------------------- MODULE MCOrderService ---------------------------
(* Instances of OrderService for TLC: two orders, one client, the worker.    *)
EXTENDS OrderService

CONSTANTS o1, o2, c1, consumer, ticker, r1, r2

MCBaskets == {[quantities |-> <<1, 2>>, total |-> 5], [quantities |-> <<>>, total |-> 5],
              [quantities |-> <<1>>, total |-> 0], [quantities |-> <<0>>, total |-> 5]}
=============================================================================
