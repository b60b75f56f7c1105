------------------------- MODULE MCWriteCoordinator -------------------------
EXTENDS WriteCoordinator, TLC

CONSTANTS monitor, standard, critical, background

\* zeus-world.db sorts before zeus_trades.db.
World == 1
Trade == 2

MCPriority ==
    (monitor :> "MONITOR" @@ standard :> "STANDARD"
       @@ critical :> "RECOVERY_CRITICAL" @@ background :> "BACKGROUND_RECOVERY")

MCWants ==
    (monitor :> {Trade} @@ standard :> {World, Trade}
       @@ critical :> {Trade} @@ background :> {Trade})

\* The order daemon and the price channel.
MCProcessOf ==
    (monitor :> "orders" @@ critical :> "orders"
       @@ standard :> "prices" @@ background :> "prices")

MCMaxCalls ==
    (monitor :> 2 @@ standard :> 1 @@ critical :> 1 @@ background :> 1)
=============================================================================
