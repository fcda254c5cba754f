--------------------------- MODULE MCNotifyDelivery ---------------------------
(* Two events of one fingerprint; both are sent at once and put into a digest. *)
EXTENDS NotifyDelivery, TLC

CONSTANTS a, b, direct, digested, hourly, chat, mail

TheRoutes   == (a :> <<direct, digested>>) @@ (b :> <<hourly, direct>>)
TheFinger   == [e \in Event |-> 1]
TheChannels == (direct :> chat) @@ (digested :> mail) @@ (hourly :> mail)
TheThrottle == (direct :> 3) @@ (digested :> 0) @@ (hourly :> 0)
TheDigest   == (direct :> 0) @@ (digested :> 1) @@ (hourly :> 2)
TheLimit    == (chat :> 1) @@ (mail :> 0)
TheRetries  == (chat :> 1) @@ (mail :> 0)
=============================================================================
