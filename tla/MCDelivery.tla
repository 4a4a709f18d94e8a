------------------------------ MODULE MCDelivery ------------------------------
(* A server that is retried, one whose retry_attempts is 0, a webhook that *)
(* is tested, and a server whose adapter is gone.                          *)
EXTENDS Delivery, TLC

CONSTANTS plex, emby, hook, gone, k1

MCServer == {plex, emby, hook, gone}
MCTypeOf == (plex :> "plex") @@ (emby :> "emby") @@ (hook :> "webhook")
            @@ (gone :> "emby")
MCRetryAttempts == (plex :> 2) @@ (emby :> 0) @@ (hook :> 2) @@ (gone :> 1)
MCProbes == {<<hook, "test">>, <<plex, "libraries">>}
MCRequest == [server : {plex, emby, gone}, mode : {"targeted"}, library : {"A"},
              scanPath : {"p"}, file : {"f"}]
===============================================================================
