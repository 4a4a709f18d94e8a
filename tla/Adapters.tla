------------------------------- MODULE Adapters -------------------------------
(***************************************************************************)
(* The server adapters (servers/*.py): what each asks of its backend for a *)
(* scan, a connectivity test and a list of libraries, and what it makes of *)
(* the answer.  Urls, headers and wording are abstracted: an ask is a verb *)
(* with the thing asked for.                                               *)
(***************************************************************************)
EXTENDS Naturals, Sequences

CONSTANTS Server,        \* server ids
          TypeOf,        \* type of each
          RetryAttempts, \* its retry_attempts
          None

(* How one HTTP request ends: a response by its status, 3xx counting as a  *)
(* refusal; a transport error; or an exception that is not of httpx, such  *)
(* as that of a client closed by a rebuild.                                *)
Outcome == {"2xx", "4xx", "5xx", "transport", "raised"}

Ask(verb, what, of) == [verb |-> verb, what |-> what, of |-> of]

(* Plex scans one path where it can; the others only know the library.     *)
Plex(op, req) ==
    CASE op = "trigger" /\ req.mode = "targeted" /\ req.scanPath # None
                          -> Ask("GET", "path", req.scanPath)
      [] op = "trigger"   -> Ask("GET", "library", req.library)
      [] op = "test"      -> Ask("GET", "identity", None)
      [] op = "libraries" -> Ask("GET", "sections", None)

Emby(op, req) ==
    CASE op = "trigger"   -> Ask("POST", "library", req.library)
      [] op = "test"      -> Ask("GET", "info", None)
      [] op = "libraries" -> Ask("GET", "folders", None)

Jellyfin(op, req) ==
    CASE op = "trigger"   -> Ask("POST", "library", req.library)
      [] op = "test"      -> Ask("GET", "info", None)
      [] op = "libraries" -> Ask("GET", "folders", None)

Audiobookshelf(op, req) ==
    CASE op = "trigger"   -> Ask("POST", "library", req.library)
      [] op = "test"      -> Ask("GET", "me", None)
      [] op = "libraries" -> Ask("GET", "libraries", None)

(* A webhook has no libraries; its test is a delivery marked as one.       *)
Webhook(op, req) ==
    CASE op = "trigger" -> Ask("POST", "event", req.file)
      [] op = "test"    -> Ask("POST", "event", "test")

(* get_adapter_class *)
Adapter(type, op, req) ==
    CASE type = "plex"           -> Plex(op, req)
      [] type = "emby"           -> Emby(op, req)
      [] type = "jellyfin"       -> Jellyfin(op, req)
      [] type = "audiobookshelf" -> Audiobookshelf(op, req)
      [] type = "webhook"        -> Webhook(op, req)

SupportsDiscovery(s) == TypeOf[s] # "webhook"

(* A webhook renders its template and headers before it sends anything.    *)
NeedsRendering(s) == TypeOf[s] = "webhook"

(* Probes try once, scans as often as the server is configured to, and so  *)
(* does a webhook's test, being a delivery.  The first attempt is made     *)
(* whatever the number (stop_after_attempt).                               *)
Attempts(s, op) ==
    IF (op = "trigger" \/ TypeOf[s] = "webhook") /\ RetryAttempts[s] > 1
    THEN RetryAttempts[s] ELSE 1

Retryable == {"5xx", "transport"}
Success(outcome) == outcome = "2xx"
===============================================================================
