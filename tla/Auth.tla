--------------------------------- MODULE Auth ---------------------------------
(***************************************************************************)
(* web/auth.py with its guards (web/deps.py) and throttles                 *)
(* (web/ratelimit.py): first-run bootstrap, login, forgotten-password      *)
(* reset, change of password and logout, as the separate reads and writes  *)
(* they make in worker threads, beside crashes and restarts.               *)
(*                                                                         *)
(* The credential is in three places that no transaction spans: the hash   *)
(* and the must-change flag, two rows of the Setting table, and the file   *)
(* with the generated password.  All clients share one address, so one     *)
(* key of each limiter.  Sessions are signed cookies: they survive both a  *)
(* restart and a change of password.                                       *)
(***************************************************************************)
EXTENDS Naturals, FiniteSets

CONSTANTS Client,       \* browsers
          Boot,         \* bootstrap_password, run before serving
          Generated,    \* generated passwords
          Own,          \* a password the operator has chosen
          Wrong,        \* a password nobody has set
          None,         \* no password
          MaxAttempts,  \* max_attempts of the login limiter
          MaxResets,    \* max_attempts of the reset limiter
          Crashes,      \* whether the process may die and be restarted
          WriteFails    \* whether writing the password file may fail

ASSUME LimitAssumption == {MaxAttempts, MaxResets} \subseteq Nat \ {0}
ASSUME ActorAssumption == IsFiniteSet(Client) /\ Boot \notin Client
ASSUME PasswordAssumption == /\ {Own, Wrong, None} \cap Generated = {}
                             /\ Own # None /\ Wrong # None /\ Own # Wrong

Actor == Client \cup {Boot}
Password == Generated \cup {Own, Wrong}

VARIABLES hash,      \* the password whose hash is stored, or None
          flag,      \* must_change_password = "1"
          file,      \* the password in the initial-password file, or None
          at,        \* what each actor does next
          pw,        \* the password it has at hand
          authed,    \* clients with session["authed"]
          failures,  \* recent failures the login limiter knows
          resets,    \* recent attempts the reset limiter knows
          mixed,     \* ghost: writers overlapped, one was cut off after its
                     \* file write, or a change kept the password, and none
                     \* has completed alone since
          alone,     \* ghost: writers that have met no other since they began
          overtaken  \* ghost: clients admitted before the generated password
                     \* now in force was stored
credential == <<hash, flag, file>>
limiters == <<failures, resets>>
ghosts == <<mixed, alone, overtaken>>
vars == <<credential, at, pw, authed, limiters, ghosts>>

Step == {"down", "idle", "verify", "refused", "accepted", "write", "flag", "hash",
         "check", "set", "clear", "unlink", "admitted"}

Serving == at[Boot] = "idle"
Generating == {a \in Actor : at[a] \in {"write", "flag", "hash"}}
Changing == {c \in Client : at[c] \in {"check", "set", "clear", "unlink"}}
Free(c) == Serving /\ at[c] = "idle"
Writers == Generating \cup Changing

Admitted == {c \in Client : at[c] = "admitted"}

Begins(a) == /\ IF Writers = {} THEN alone' = {a} /\ mixed' = mixed
                                ELSE alone' = {} /\ mixed' = TRUE
             /\ UNCHANGED overtaken
Completes(a) == mixed' = (mixed /\ a \notin alone) /\ alone' = alone \ {a}
GivesUp(a) == alone' = alone \ {a} /\ UNCHANGED overtaken

Fresh == Generated \ ({hash, file} \cup {pw[a] : a \in Actor})   \* never used
Goes(a, step) == at' = [at EXCEPT ![a] = step]
Known == {Own, Wrong} \cup ({file} \ {None})   \* what a client can type

Init == /\ hash = None /\ flag = FALSE /\ file = None
        /\ at = [a \in Actor |-> IF a = Boot THEN "down" ELSE "idle"]
        /\ pw = [a \in Actor |-> None]
        /\ authed = {}
        /\ failures = 0 /\ resets = 0
        /\ mixed = FALSE /\ alone = {} /\ overtaken = {}

----------------------------------------------------------------------------
(* Faults: what the properties are there to notice.  Each is one           *)
(* definition of the model with a bug in it; no specification uses them.   *)

AllowedOneMore(n, max) == n <= max

HashBeforeFlag(a) ==
    /\ at[a] = "flag"
    /\ hash' = pw[a]
    /\ Goes(a, "hash")
    /\ UNCHANGED <<flag, file, pw, authed, limiters, ghosts>>

GuardUnflagged(c) == c \in authed

BootLate ==
    /\ at[Boot] = "down"
    /\ hash = None
    /\ Goes(Boot, "idle")
    /\ UNCHANGED <<credential, pw, authed, limiters, ghosts>>

FileUnwritten(a) ==
    /\ at[a] = "write"
    /\ Goes(a, "flag")
    /\ UNCHANGED <<credential, pw, authed, limiters, ghosts>>

ExpireUnguarded ==
    /\ failures' = failures - 1 /\ resets' = resets
    /\ UNCHANGED <<credential, at, pw, authed, ghosts>>

----------------------------------------------------------------------------
(* LoginRateLimiter: failures leave the window one by one. *)

Allowed(n, max) == n < max

Expire == /\ \/ failures > 0 /\ failures' = failures - 1 /\ resets' = resets
             \/ resets > 0 /\ resets' = resets - 1 /\ failures' = failures
          /\ UNCHANGED <<credential, at, pw, authed, ghosts>>

----------------------------------------------------------------------------
(* _generate_and_store: the file, then the flag, then the hash. *)

WriteFile(a) ==
    /\ at[a] = "write"
    /\ file' = pw[a]
    /\ Goes(a, "flag")
    /\ UNCHANGED <<hash, flag, pw, authed, limiters, ghosts>>

(* The file cannot be opened, it has been truncated (O_TRUNC) when the     *)
(* write fails, or it has been written when chmod fails.  A reset answers  *)
(* 500; a bootstrap ends the process.                                      *)
WriteFileFails(a) ==
    /\ WriteFails
    /\ at[a] = "write"
    /\ \/ UNCHANGED <<file, mixed>>
       \/ file' \in {None, pw[a]} /\ mixed' = TRUE
    /\ Goes(a, IF a = Boot THEN "down" ELSE "idle")
    /\ pw' = [pw EXCEPT ![a] = None]
    /\ GivesUp(a)
    /\ UNCHANGED <<hash, flag, authed, limiters>>

SetFlag(a) ==
    /\ at[a] = "flag"
    /\ flag' = TRUE
    /\ Goes(a, "hash")
    /\ UNCHANGED <<hash, file, pw, authed, limiters, ghosts>>

StoreGenerated(a) ==
    /\ at[a] = "hash"
    /\ hash' = pw[a]
    /\ overtaken' = Admitted
    /\ Completes(a)
    /\ Goes(a, "idle")
    /\ pw' = [pw EXCEPT ![a] = None]
    /\ UNCHANGED <<flag, file, authed, limiters>>

----------------------------------------------------------------------------
(* bootstrap_password: a password that is set stays; one of the            *)
(* environment is final; otherwise one is generated.                       *)

BootKeeps ==
    /\ at[Boot] = "down"
    /\ hash # None
    /\ Goes(Boot, "idle")
    /\ UNCHANGED <<credential, pw, authed, limiters, ghosts>>

BootFromEnv ==
    /\ at[Boot] = "down"
    /\ hash = None
    /\ hash' = Own
    /\ Goes(Boot, "idle")
    /\ UNCHANGED <<flag, file, pw, authed, limiters, ghosts>>

BootGenerates ==
    /\ at[Boot] = "down"
    /\ hash = None
    /\ Goes(Boot, "write")
    /\ \E g \in Fresh : pw' = [pw EXCEPT ![Boot] = g]
    /\ Begins(Boot)
    /\ UNCHANGED <<credential, authed, limiters>>

(* Threads die where they are; the limiters are in memory. *)
Crash ==
    /\ Crashes
    /\ at' = [a \in Actor |-> IF a = Boot THEN "down" ELSE "idle"]
    /\ pw' = [a \in Actor |-> None]
    /\ failures' = 0 /\ resets' = 0
    /\ mixed' = (mixed \/ \E a \in Actor : at[a] \in {"flag", "hash"})
    /\ alone' = {} /\ overtaken' = {}
    /\ UNCHANGED <<credential, authed>>

----------------------------------------------------------------------------
(* Login and logout *)

LoginAsk(c, p) ==
    /\ Free(c)
    /\ Allowed(failures, MaxAttempts)
    /\ Goes(c, "verify")
    /\ pw' = [pw EXCEPT ![c] = p]
    /\ UNCHANGED <<credential, authed, limiters, ghosts>>

(* check_password, in a thread *)
LoginVerify(c) ==
    /\ at[c] = "verify"
    /\ Goes(c, IF pw[c] = hash THEN "accepted" ELSE "refused")
    /\ pw' = [pw EXCEPT ![c] = None]
    /\ UNCHANGED <<credential, authed, limiters, ghosts>>

LoginAccepted(c) ==
    /\ at[c] = "accepted"
    /\ failures' = 0
    /\ authed' = authed \cup {c}
    /\ Goes(c, "idle")
    /\ UNCHANGED <<credential, pw, resets, ghosts>>

LoginRefused(c) ==
    /\ at[c] = "refused"
    /\ failures' = failures + 1
    /\ Goes(c, "idle")
    /\ UNCHANGED <<credential, pw, authed, resets, ghosts>>

Logout(c) ==
    /\ Free(c) /\ c \in authed
    /\ authed' = authed \ {c}
    /\ UNCHANGED <<credential, at, pw, limiters, ghosts>>

----------------------------------------------------------------------------
(* Everything else asks require_api_auth or require_page_auth first, which *)
(* turn away who is not logged in and who must change the password.  The   *)
(* flag is read in a worker thread: by the time the route is entered, the  *)
(* password in force may be another.                                       *)

Guard(c) == c \in authed /\ ~flag

Admit(c) ==
    /\ Free(c)
    /\ Guard(c)
    /\ Goes(c, "admitted")
    /\ UNCHANGED <<credential, pw, authed, limiters, ghosts>>

Enter(c) ==
    /\ at[c] = "admitted"
    /\ Goes(c, "idle")
    /\ overtaken' = overtaken \ {c}
    /\ UNCHANGED <<credential, pw, authed, limiters, mixed, alone>>

----------------------------------------------------------------------------
(* reset_password: anybody may ask; an attempt counts whatever comes of it. *)

Reset(c) ==
    /\ Free(c)
    /\ Allowed(resets, MaxResets)
    /\ resets' = resets + 1
    /\ Goes(c, "write")
    /\ \E g \in Fresh : pw' = [pw EXCEPT ![c] = g]
    /\ Begins(c)
    /\ UNCHANGED <<credential, authed, failures>>

----------------------------------------------------------------------------
(* change_password is on the allow-list of the must-change guard: the      *)
(* check of the current password, the hash, the flag, the file.  Nothing   *)
(* keeps the new password from being the current one.                      *)

Change(c, current) ==
    /\ Free(c)
    /\ c \in authed
    /\ Goes(c, "check")
    /\ pw' = [pw EXCEPT ![c] = current]
    /\ Begins(c)
    /\ UNCHANGED <<credential, authed, limiters>>

ChangeCheck(c) ==
    /\ at[c] = "check"
    /\ \/ pw[c] = hash /\ Goes(c, "set") /\ UNCHANGED <<pw, ghosts>>
       \/ /\ pw[c] # hash /\ Goes(c, "idle")
          /\ pw' = [pw EXCEPT ![c] = None]
          /\ UNCHANGED mixed /\ GivesUp(c)
    /\ UNCHANGED <<credential, authed, limiters>>

ChangeSet(c) ==
    /\ at[c] = "set"
    /\ \/ hash' = Own /\ UNCHANGED ghosts
       \/ hash' = pw[c] /\ mixed' = TRUE /\ GivesUp(c)
    /\ pw' = [pw EXCEPT ![c] = None]
    /\ Goes(c, "clear")
    /\ UNCHANGED <<flag, file, authed, limiters>>

ClearFlag(c) ==
    /\ at[c] = "clear"
    /\ flag' = FALSE
    /\ Goes(c, "unlink")
    /\ UNCHANGED <<hash, file, pw, authed, limiters, ghosts>>

Unlink(c) ==
    /\ at[c] = "unlink"
    /\ file' = None
    /\ Goes(c, "idle")
    /\ Completes(c)
    /\ UNCHANGED <<hash, flag, pw, authed, limiters, overtaken>>

----------------------------------------------------------------------------
Generate(a) == WriteFile(a) \/ WriteFileFails(a) \/ SetFlag(a) \/ StoreGenerated(a)
Login(c) == \/ \E p \in Known : LoginAsk(c, p)
            \/ LoginVerify(c) \/ LoginAccepted(c) \/ LoginRefused(c)
ChangePassword(c) == \/ \E p \in Known : Change(c, p)
                     \/ ChangeCheck(c) \/ ChangeSet(c) \/ ClearFlag(c) \/ Unlink(c)

Next == \/ \E a \in Actor : Generate(a)
        \/ BootKeeps \/ BootFromEnv \/ BootGenerates
        \/ Crash
        \/ \E c \in Client : \/ Login(c) \/ Logout(c)
                             \/ Admit(c) \/ Enter(c)
                             \/ Reset(c)
                             \/ ChangePassword(c)
        \/ Expire

Spec == Init /\ [][Next]_vars

----------------------------------------------------------------------------
(* Properties *)

TypeOK == /\ hash \in Generated \cup {None, Own}
          /\ flag \in BOOLEAN
          /\ file \in Generated \cup {None}
          /\ at \in [Actor -> Step]
          /\ pw \in [Actor -> Password \cup {None}]
          /\ authed \subseteq Client
          /\ failures \in 0 .. MaxAttempts + Cardinality(Client)
          /\ resets \in 0 .. MaxResets
          /\ mixed \in BOOLEAN /\ alone \subseteq Writers
          /\ overtaken \subseteq Admitted

(* Whoever is served finds a password set: "setup can never reset an       *)
(* existing password", and is never open, also after a crash in the first  *)
(* bootstrap.                                                              *)
NeverUnset == Serving => hash # None

(* A generated password must be changed on first use.  Wherever the        *)
(* process dies, what is in force is either not generated or flagged.      *)
(* Not if a reset falls between the two writes of a change, which then     *)
(* clears the flag of the new password, nor if a change keeps the          *)
(* generated password (mixed).                                             *)
GeneratedMustChange == hash \in Generated /\ ~mixed => flag

(* ... and so a page or API route other than the change of password is     *)
(* entered under a generated password only by a request whose guard has    *)
(* read the flag before that password came into force.                     *)
AdmittedBefore == \A c \in Admitted : hash \in Generated /\ ~mixed => c \in overtaken

(* "No lockout": a generated password in force is the one in the file.     *)
(* Not after a crash between the file and the hash, a write of the file    *)
(* that fails once it is open, or two writers that overlapped (mixed),     *)
(* until the next reset or change that completes on its own.               *)
NoLockout == Serving /\ Writers = {} /\ hash \in Generated /\ ~mixed => file = hash

(* The throttles bound the guesses per window, up to the requests that     *)
(* were let in together; resets are counted before they begin.             *)
Throttled == /\ failures <= MaxAttempts - 1 + Cardinality(Client)
             /\ resets <= MaxResets

----------------------------------------------------------------------------
(* What the documentation says and the code does not do. *)

(* Without crashes and failed writes the file should be enough to log in   *)
(* whatever the requests in between: violated by two overlapping resets.   *)
NoLockoutEver == Serving /\ Writers = {} /\ hash \in Generated => file = hash

(* A must-change session reaches nothing but the change of password and    *)
(* the logout ("everything else page-redirects"): violated by a reset      *)
(* between the guard and the route of a request.                           *)
NothingElseReached == ~mixed /\ hash \in Generated => Admitted = {}
===============================================================================
