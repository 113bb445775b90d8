------------------------------ MODULE MCPubSub ------------------------------
(* Two owners, two channels for TLC. *)
EXTENDS PubSub

CONSTANTS o1, o2, a, b

Run(kind, channels, owner) == [kind |-> kind, channels |-> channels, owner |-> owner]

SmallShapes ==
    {Run("plain", {}, NoOwner), Run("subscribe", {a}, o1), Run("subscribe", {a, b}, o2),
     Run("unsubscribe", {a}, o1), Run("monitor", {}, o1)}

=============================================================================
