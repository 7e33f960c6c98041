------------------------------- MODULE HostStore -------------------------------
(***************************************************************************)
(* The key/value store of a module: the namespaces of Host.Store           *)
(* (storeClient of modulesdk/hostclient.go) on top of the map of the stub  *)
(* host (testkit/hostdata.go).  The handlers in between                    *)
(* (storeServer of testkit/hostserver.go) pass keys through.               *)
(*                                                                         *)
(* A text is a sequence of symbols, "/" one of them.  A store is a         *)
(* function from keys to values; HostData.mu makes each operation one      *)
(* step, so the operators below say all there is to say.                   *)
(***************************************************************************)
EXTENDS Integers, Sequences

HasPrefix(text, prefix) ==
    Len(text) >= Len(prefix) /\ SubSeq(text, 1, Len(prefix)) = prefix

TrimPrefix(text, prefix) ==
    IF HasPrefix(text, prefix) THEN SubSeq(text, Len(prefix) + 1, Len(text)) ELSE text

-----------------------------------------------------------------------------
(* HostData.                                                               *)

StoreGet(store, key) ==
    IF key \in DOMAIN store THEN [found |-> TRUE, value |-> store[key]]
                            ELSE [found |-> FALSE]

StorePut(store, key, value) ==
    [k \in DOMAIN store \cup {key} |-> IF k = key THEN value ELSE store[k]]

StoreDelete(store, key) == [k \in DOMAIN store \ {key} |-> store[k]]

StoreKeys(store, prefix) == {k \in DOMAIN store : HasPrefix(k, prefix)}

-----------------------------------------------------------------------------
(* storeClient.                                                            *)

(* The root namespace has no prefix. *)
Prefix(ns) == IF ns = << >> THEN << >> ELSE ns \o <<"/">>

Get(store, ns, key) == StoreGet(store, Prefix(ns) \o key)

Put(store, ns, key, value) == StorePut(store, Prefix(ns) \o key, value)

Delete(store, ns, key) == StoreDelete(store, Prefix(ns) \o key)

List(store, ns, prefix) ==
    {TrimPrefix(k, Prefix(ns)) : k \in StoreKeys(store, Prefix(ns) \o prefix)}

=============================================================================
