----------------------------- MODULE MCDispatch -----------------------------
(* Two dispatchers; x lives at the first, y and z at the second. *)
EXTENDS Dispatch
CONSTANTS d, e, x, y, z
MCDispatcher == {d, e}
MCActor == {x, y, z}
MCHome == [a \in MCActor |-> IF a = x THEN d ELSE e]

Route(from, to, via) == [from |-> from, to |-> to, via |-> via]

(* x and y send to each other across the dispatchers: y, which x activates,
   runs in the thread of d like x, and both queue with d. *)
MCOneThreadRoutes ==
  {Route(x, x, "sender"), Route(x, y, "sender"), Route(y, x, "receiver"),
   Route(y, y, "sender"), Route(z, z, "sender")}
MCOneThreadRooted == {x, z}

(* y is sent messages by its neighbour z and by x at the other dispatcher. *)
MCTwoThreadRoutes == {Route(x, y, "sender"), Route(z, y, "sender")}

(* x queues with the dispatcher of y, as a caller of its queueMessage() does
   from another thread. *)
MCForeignQueueRoutes == {Route(x, y, "receiver")}

(* Only the first obey the rule under which actors need no locks. *)
ASSUME OneThreadRoutesObey ==
  (Routes = MCOneThreadRoutes) <=> \E runs \in [Actor -> Dispatcher] : OneThreadRule(runs)
=============================================================================
