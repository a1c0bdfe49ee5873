---------------------------- MODULE MCDispatcher ----------------------------
(* Instances of Dispatcher for TLC. *)
EXTENDS Dispatcher, TLC

CONSTANTS e1, e2, b1, k1, k2

MCKind == e1 :> [type |-> "ObjectRemovedDelete", bucket |-> b1, key |-> k1]
       @@ e2 :> [type |-> "ObjectCreatedPut", bucket |-> b1, key |-> k2]

On(id, events, keys, destination) ==
    [id |-> id, events |-> events, keys |-> keys, destination |-> destination]

\* Two rules that share an event, two with one id, and one that matches some.
MCConfigs ==
    {<<On("r1", {"ObjectCreatedAll"}, {k1, k2}, "webhook"),
       On("r2", {"ObjectCreatedPut", "ObjectRemovedAll"}, {k1, k2}, "other")>>,
     <<On("r1", {"ObjectCreatedAll"}, {k2}, "other"),
       On("r1", {"ObjectCreatedPut"}, {k1, k2}, "webhook")>>,
     <<On("r2", {"ObjectRemovedDelete"}, {k1}, "webhook")>>}
=============================================================================
