------------------------------ MODULE AuthProofs ------------------------------
(***************************************************************************)
(* TLAPS proofs about the credential, for any number of clients, generated *)
(* passwords and limits, with crashes and failed writes or without.        *)
(***************************************************************************)
EXTENDS Auth, FiniteSetTheorems, TLAPS

Writing == {"write", "flag", "hash"}
Clearing == {"check", "set", "clear", "unlink"}

(* Who is where: only the bootstrap is ever down, and until it is through  *)
(* nobody is served.                                                       *)
PlacesOk ==
    /\ at[Boot] \in {"down", "idle"} \cup Writing
    /\ \A c \in Client : at[c] # "down"
    /\ ~Serving => \A c \in Client : at[c] = "idle"

(* What each step has at hand. *)
HandsOk ==
    /\ \A a \in Actor : at[a] \in Writing => pw[a] \in Generated
    /\ \A c \in Client : at[c] = "check" => pw[c] \in Password
    /\ \A c \in Client : at[c] = "set" => pw[c] \in Generated \cup {Own}

(* A writer that has met no other is the only one, and unless writers have *)
(* been mixed every writer is such a one.                                  *)
Solo ==
    /\ \A a \in alone : Writers = {a}
    /\ ~mixed => Writers \subseteq alone

(* What a writer that met no other has written so far is still there. *)
Progress == \A a \in alone :
    /\ at[a] \in {"flag", "hash"} => file = pw[a]
    /\ at[a] = "hash" => flag
    /\ at[a] \in {"clear", "unlink"} => hash = Own

(* The file tells the password in force, but between the writes of a       *)
(* password that is being generated.                                       *)
FileTells ==
    /\ ~mixed
    /\ hash \in Generated
    /\ \A a \in Actor : at[a] \notin {"flag", "hash"}
    => file = hash

(* Logins that were let in and may still fail. *)
Trying == {c \in Client : at[c] \in {"verify", "refused"}}

LoginsBounded == failures + Cardinality(Trying) <= MaxAttempts - 1 + Cardinality(Client)

(* Whom the guard let through while a generated password is in force was   *)
(* let through before it came into force.                                  *)
GuardOk == overtaken \subseteq Admitted /\ AdmittedBefore

Typed == /\ hash \in Generated \cup {None, Own}
         /\ flag \in BOOLEAN
         /\ file \in Generated \cup {None}
         /\ at \in [Actor -> Step]
         /\ pw \in [Actor -> Password \cup {None}]
         /\ authed \subseteq Client
         /\ failures \in Nat
         /\ resets \in 0 .. MaxResets
         /\ mixed \in BOOLEAN /\ alone \subseteq Writers

IInv == /\ Typed /\ PlacesOk /\ HandsOk
        /\ NeverUnset /\ Solo /\ Progress
        /\ GeneratedMustChange /\ FileTells
        /\ LoginsBounded /\ GuardOk

----------------------------------------------------------------------------
(* Writers are told by what they do next. *)
LEMMA WritersAre ==
    ASSUME PlacesOk
    PROVE  Writers = {a \in Actor : at[a] \in Writing \cup Clearing}
BY DEF PlacesOk, Writers, Generating, Changing, Actor, Writing, Clearing

(* No generated password is the operator's, the wrong one, or none. *)
LEMMA PasswordsApart == None \notin Generated /\ Own \notin Generated /\ Wrong \notin Generated
BY PasswordAssumption

(* The invariant holds in a database without a password. *)
LEMMA InitInv == Init => IInv
<1> SUFFICES ASSUME Init PROVE IInv
  OBVIOUS
<1> USE ActorAssumption, LimitAssumption, PasswordsApart DEF Init
<1>1. Typed
  <2>1. MaxResets \in Nat
    BY DEF LimitAssumption
  <2>2. at \in [Actor -> Step] /\ pw \in [Actor -> Password \cup {None}]
    BY DEF Step
  <2>3. hash \in Generated \cup {None, Own} /\ file \in Generated \cup {None}
    OBVIOUS
  <2>4. resets \in 0 .. MaxResets /\ failures \in Nat
    BY <2>1
  <2>5. authed \subseteq Client /\ alone \subseteq Writers /\ flag \in BOOLEAN /\ mixed \in BOOLEAN
    OBVIOUS
  <2> QED
    BY <2>1, <2>2, <2>3, <2>4, <2>5 DEF Typed
<1>2. PlacesOk /\ HandsOk /\ NeverUnset
  BY DEF PlacesOk, HandsOk, NeverUnset, Serving, Actor, Writing
<1>3. Solo /\ Progress /\ GeneratedMustChange /\ FileTells
  BY DEF Solo, Progress, GeneratedMustChange, FileTells, Writers, Generating, Changing, Actor
<1>4. GuardOk
  BY DEF GuardOk, AdmittedBefore, Admitted, Actor
<1>5. LoginsBounded
  <2>1. Trying = {}
    BY DEF Trying, Actor
  <2> QED
    BY <2>1, FS_EmptySet, FS_CardinalityType DEF LoginsBounded
<1> QED
  BY <1>1, <1>2, <1>3, <1>4, <1>5 DEF IInv

(* A writer that meets no other is told from one that meets another. *)
LEMMA BeginsInv ==
    ASSUME IInv, NEW a \in Actor, a \notin Writers, Begins(a), Writers' = Writers \cup {a},
           credential' = credential, at'[a] \in {"write", "check"},
           \A b \in Actor \ {a} : at'[b] = at[b] /\ pw'[b] = pw[b]
    PROVE  /\ Solo' /\ Progress'
           /\ alone' \subseteq Writers'
           /\ mixed' \in BOOLEAN /\ (mixed => mixed')
BY DEF IInv, Typed, Solo, Progress, Begins, credential

(* The invariant but for the count of the logins, which is apart. *)
Credential == /\ Typed /\ PlacesOk /\ HandsOk
              /\ NeverUnset /\ Solo /\ Progress
              /\ GeneratedMustChange /\ FileTells

(* A password is generated step by step. *)
LEMMA GenerateInv == ASSUME IInv, NEW a \in Actor, Generate(a) PROVE Credential'
<1> USE ActorAssumption, PasswordsApart
<1>0. PlacesOk /\ at \in [Actor -> Step] /\ pw \in [Actor -> Password \cup {None}] /\ Boot \in Actor
      /\ Client \subseteq Actor
  BY DEF IInv, Typed, Actor
<1>1. CASE WriteFile(a)
  <2>a. at[a] = "write" /\ at' = [at EXCEPT ![a] = "flag"] /\ pw[a] \in Generated
    BY <1>1 DEF WriteFile, Goes, IInv, HandsOk, Writing
  <2>1. PlacesOk'
    BY <1>0, <2>a DEF PlacesOk, Serving, Actor, Writing
  <2>2. Writers' = Writers /\ a \in Writers
    BY <1>0, <2>a, <2>1, WritersAre DEF Writing, Clearing, PlacesOk, Writers, Generating, Changing, Actor
  <2>3. Typed' /\ HandsOk'
    BY <1>0, <1>1, <2>a, <2>2 DEF WriteFile, IInv, Typed, HandsOk, Writing, Step, limiters, ghosts, Actor
  <2>4. NeverUnset' /\ GeneratedMustChange'
    BY <1>0, <1>1, <2>a DEF WriteFile, IInv, NeverUnset, PlacesOk, Serving, GeneratedMustChange, ghosts
  <2>5. Solo' /\ Progress'
    BY <1>0, <1>1, <2>a, <2>2 DEF WriteFile, IInv, Solo, Progress, ghosts
  <2>6. FileTells'
    BY <1>0, <1>1, <2>a DEF WriteFile, FileTells, ghosts
  <2> QED
    BY <2>1, <2>3, <2>4, <2>5, <2>6 DEF Credential
<1>2. CASE WriteFileFails(a)
  <2>a. /\ at[a] = "write" /\ at' = [at EXCEPT ![a] = IF a = Boot THEN "down" ELSE "idle"]
        /\ pw' = [pw EXCEPT ![a] = None] /\ alone' = alone \ {a}
    BY <1>2 DEF WriteFileFails, Goes, GivesUp
  <2>1. PlacesOk'
    BY <1>0, <2>a DEF PlacesOk, Serving, Actor, Writing
  <2>2. Writers' = Writers \ {a} /\ a \in Writers
    BY <1>0, <2>a, <2>1, WritersAre DEF Writing, Clearing, PlacesOk, Writers, Generating, Changing, Actor
  <2>3. Typed' /\ HandsOk'
    <3>1. /\ file' \in Generated \cup {None} /\ mixed' \in BOOLEAN
          /\ UNCHANGED <<hash, flag, authed, failures, resets>>
      BY <1>2, <2>a DEF WriteFileFails, IInv, Typed, HandsOk, Writing, limiters
    <3> QED
      BY <1>0, <2>a, <2>2, <3>1 DEF IInv, Typed, HandsOk, Writing, Step, Actor
  <2>4. NeverUnset' /\ GeneratedMustChange'
    BY <1>0, <1>2, <2>a DEF WriteFileFails, IInv, NeverUnset, PlacesOk, Serving, GeneratedMustChange, ghosts
  <2>5. Solo' /\ Progress'
    BY <1>0, <1>2, <2>a, <2>2 DEF WriteFileFails, IInv, Solo, Progress, ghosts
  <2>6. FileTells'
    <3>1. UNCHANGED <<hash, file, mixed>> \/ mixed'
      BY <1>2 DEF WriteFileFails
    <3>2. \A b \in Actor : at[b] \in {"flag", "hash"} => at'[b] = at[b]
      BY <1>0, <2>a
    <3> QED
      BY <3>1, <3>2 DEF IInv, FileTells
  <2> QED
    BY <2>1, <2>3, <2>4, <2>5, <2>6 DEF Credential
<1>3. CASE SetFlag(a)
  <2>a. at[a] = "flag" /\ at' = [at EXCEPT ![a] = "hash"] /\ pw[a] \in Generated
    BY <1>3 DEF SetFlag, Goes, IInv, HandsOk, Writing
  <2>1. PlacesOk'
    BY <1>0, <2>a DEF PlacesOk, Serving, Actor, Writing
  <2>2. Writers' = Writers /\ a \in Writers
    BY <1>0, <2>a, <2>1, WritersAre DEF Writing, Clearing, PlacesOk, Writers, Generating, Changing, Actor
  <2>3. Typed' /\ HandsOk'
    BY <1>0, <1>3, <2>a, <2>2 DEF SetFlag, IInv, Typed, HandsOk, Writing, Step, limiters, ghosts, Actor
  <2>4. NeverUnset' /\ GeneratedMustChange'
    BY <1>0, <1>3, <2>a DEF SetFlag, IInv, NeverUnset, PlacesOk, Serving, GeneratedMustChange, ghosts
  <2>5. Solo' /\ Progress'
    BY <1>0, <1>3, <2>a, <2>2 DEF SetFlag, IInv, Solo, Progress, ghosts
  <2>6. FileTells'
    BY <1>0, <1>3, <2>a DEF SetFlag, FileTells, ghosts
  <2> QED
    BY <2>1, <2>3, <2>4, <2>5, <2>6 DEF Credential
<1>4. CASE StoreGenerated(a)
  <2>a. /\ at[a] = "hash" /\ at' = [at EXCEPT ![a] = "idle"] /\ pw[a] \in Generated
        /\ pw' = [pw EXCEPT ![a] = None] /\ hash' = pw[a]
        /\ alone' = alone \ {a} /\ mixed' = (mixed /\ a \notin alone)
        /\ UNCHANGED <<flag, file>>
    BY <1>4 DEF StoreGenerated, Goes, Completes, IInv, HandsOk, Writing
  <2>1. PlacesOk'
    BY <1>0, <2>a DEF PlacesOk, Serving, Actor, Writing
  <2>2. Writers' = Writers \ {a} /\ a \in Writers
    BY <1>0, <2>a, <2>1, WritersAre DEF Writing, Clearing, PlacesOk, Writers, Generating, Changing, Actor
  <2>3. Typed' /\ HandsOk'
    BY <1>0, <1>4, <2>a, <2>2 DEF StoreGenerated, IInv, Typed, HandsOk, Writing, Step, limiters, Actor
  <2>4. ~mixed' => a \in alone /\ flag /\ file = pw[a]
    BY <2>a, <2>2 DEF IInv, Typed, Solo, Progress
  <2>5. NeverUnset' /\ GeneratedMustChange' /\ FileTells'
    BY <1>0, <2>a, <2>4 DEF NeverUnset, GeneratedMustChange, FileTells
  <2>6. Solo' /\ Progress'
    BY <1>0, <2>a, <2>2 DEF IInv, Typed, Solo, Progress
  <2> QED
    BY <2>1, <2>3, <2>5, <2>6 DEF Credential
<1> QED
  BY <1>1, <1>2, <1>3, <1>4 DEF Generate

(* Who is no writer and becomes none disturbs no part of the credential. *)
LEMMA AsideInv ==
    ASSUME IInv, UNCHANGED <<hash, flag, file, mixed, alone>>, PlacesOk', Serving' => Serving \/ hash # None,
           at' \in [Actor -> Step], pw' \in [Actor -> Password \cup {None}],
           authed' \subseteq Client, failures' \in Nat, resets' \in 0 .. MaxResets,
           \A a \in Actor : \/ at'[a] = at[a] /\ pw'[a] = pw[a]
                            \/ {at[a], at'[a]} \cap (Writing \cup Clearing) = {}
    PROVE  Credential'
<1>1. Writers' = Writers
  <2>1. Writers = {a \in Actor : at[a] \in Writing \cup Clearing}
    BY WritersAre DEF IInv
  <2>2. Writers' = {a \in Actor : at'[a] \in Writing \cup Clearing}
    BY WritersAre DEF PlacesOk, Writers, Generating, Changing, Actor, Writing, Clearing
  <2> QED
    BY <2>1, <2>2
<1>2. Typed'
  BY <1>1 DEF IInv, Typed, ghosts
<1>3. HandsOk'
  BY ActorAssumption DEF IInv, HandsOk, Writing, Clearing, Actor
<1>4. NeverUnset' /\ Solo' /\ GeneratedMustChange'
  BY <1>1 DEF IInv, NeverUnset, Solo, GeneratedMustChange, ghosts
<1>5. Progress'
  <2>1. alone \subseteq Actor
    BY DEF IInv, Typed, Writers, Generating, Changing, Actor
  <2> QED
    BY <2>1 DEF IInv, Progress, ghosts, Writing, Clearing
<1>6. FileTells'
  BY DEF IInv, FileTells, ghosts, Writing, Clearing
<1> QED
  BY <1>2, <1>3, <1>4, <1>5, <1>6 DEF Credential

(* The bootstrap either finds a password, takes that of the environment, or *)
(* begins to generate one while nobody is served.                           *)
LEMMA BootInv == ASSUME IInv, BootKeeps \/ BootFromEnv \/ BootGenerates PROVE Credential'
<1> USE ActorAssumption, PasswordsApart
<1>0. /\ PlacesOk /\ at \in [Actor -> Step] /\ pw \in [Actor -> Password \cup {None}]
      /\ Boot \in Actor /\ Client \subseteq Actor
      /\ authed \subseteq Client /\ failures \in Nat /\ resets \in 0 .. MaxResets
  BY DEF IInv, Typed, Actor
<1>1. CASE BootKeeps
  <2>1. PlacesOk'
    BY <1>0, <1>1 DEF BootKeeps, Goes, PlacesOk, Serving, Actor, Writing
  <2> QED
    BY <1>0, <1>1, <2>1, AsideInv DEF BootKeeps, Goes, Step, Writing, Clearing, ghosts, credential, limiters
<1>2. CASE BootFromEnv
  <2>a. /\ at[Boot] = "down" /\ at' = [at EXCEPT ![Boot] = "idle"] /\ hash' = Own
        /\ UNCHANGED <<flag, file, pw, authed, failures, resets, mixed, alone>>
    BY <1>2 DEF BootFromEnv, Goes, limiters, ghosts
  <2>1. PlacesOk'
    BY <1>0, <2>a DEF PlacesOk, Serving, Actor, Writing
  <2>2. Writers' = Writers /\ Boot \notin alone
    BY <1>0, <2>a, <2>1, WritersAre DEF Writing, Clearing, PlacesOk, Writers, Generating, Changing, Actor, IInv, Typed
  <2>3. Typed' /\ HandsOk'
    BY <1>0, <2>a, <2>2 DEF IInv, Typed, HandsOk, Writing, Step, Actor
  <2>4. NeverUnset' /\ GeneratedMustChange' /\ FileTells'
    BY <1>0, <2>a, PasswordAssumption DEF NeverUnset, GeneratedMustChange, FileTells
  <2>5. Solo' /\ Progress'
    BY <1>0, <2>a, <2>2 DEF IInv, Solo, Progress
  <2> QED
    BY <2>1, <2>3, <2>4, <2>5 DEF Credential
<1>3. CASE BootGenerates
  <2>a. /\ at[Boot] = "down" /\ hash = None /\ at' = [at EXCEPT ![Boot] = "write"]
        /\ Begins(Boot) /\ UNCHANGED <<hash, flag, file, authed, failures, resets>>
    BY <1>3 DEF BootGenerates, Goes, credential, limiters
  <2>b. PICK g \in Generated : pw' = [pw EXCEPT ![Boot] = g]
    BY <1>3 DEF BootGenerates, Fresh
  <2>1. PlacesOk'
    BY <1>0, <2>a DEF PlacesOk, Serving, Actor, Writing
  <2>2. Writers' = Writers \cup {Boot} /\ Boot \notin Writers
    BY <1>0, <2>a, <2>1, WritersAre DEF Writing, Clearing, PlacesOk, Writers, Generating, Changing, Actor
  <2>3. /\ Solo' /\ Progress' /\ alone' \subseteq Writers' /\ mixed' \in BOOLEAN
        /\ (mixed => mixed')
    BY <1>0, <2>a, <2>b, <2>2, BeginsInv DEF credential
  <2>4. Typed' /\ HandsOk'
    BY <1>0, <2>a, <2>b, <2>3 DEF IInv, Typed, HandsOk, Writing, Step, Actor, Password
  <2>5. NeverUnset' /\ GeneratedMustChange' /\ FileTells'
    BY <1>0, <2>a, <2>3 DEF IInv, NeverUnset, Serving, GeneratedMustChange, FileTells
  <2> QED
    BY <2>1, <2>3, <2>4, <2>5 DEF Credential
<1> QED
  BY <1>1, <1>2, <1>3

(* A crash takes every writer away. *)
LEMMA CrashInv == ASSUME IInv, Crash PROVE Credential'
<1> USE ActorAssumption, PasswordsApart
<1>a. /\ at' = [a \in Actor |-> IF a = Boot THEN "down" ELSE "idle"]
      /\ pw' = [a \in Actor |-> None] /\ failures' = 0 /\ resets' = 0
      /\ mixed' = (mixed \/ \E a \in Actor : at[a] \in {"flag", "hash"}) /\ alone' = {}
      /\ UNCHANGED <<hash, flag, file, authed>>
  BY DEF Crash, credential
<1>1. PlacesOk'
  BY <1>a DEF PlacesOk, Serving, Actor, Writing
<1>2. Writers' = {}
  BY <1>a DEF Writers, Generating, Changing, Actor
<1>3. Typed'
  <2>1. MaxResets \in Nat
    BY LimitAssumption
  <2>2. at' \in [Actor -> Step] /\ pw' \in [Actor -> Password \cup {None}]
    BY <1>a DEF Step
  <2>3. resets' \in 0 .. MaxResets /\ failures' \in Nat
    BY <1>a, <2>1
  <2>4. mixed' \in BOOLEAN
    BY <1>a DEF IInv, Typed
  <2> QED
    BY <1>a, <2>2, <2>3, <2>4 DEF IInv, Typed
<1>4. HandsOk'
  BY <1>a DEF HandsOk, Writing, Actor
<1>5. NeverUnset' /\ GeneratedMustChange'
  BY <1>a DEF IInv, NeverUnset, Serving, GeneratedMustChange, Actor
<1>6. Solo' /\ Progress'
  BY <1>a, <1>2 DEF Solo, Progress
<1>7. FileTells'
  BY <1>a DEF IInv, FileTells
<1> QED
  BY <1>1, <1>3, <1>4, <1>5, <1>6, <1>7 DEF Credential

(* Logging in and out, and what the guards let through, leave the credential alone. *)
LEMMA LoginWorkInv ==
    ASSUME IInv, NEW c \in Client, Login(c) \/ Logout(c) \/ Admit(c) \/ Enter(c)
    PROVE  Credential'
<1> USE ActorAssumption, PasswordsApart
<1>0. /\ PlacesOk /\ at \in [Actor -> Step] /\ pw \in [Actor -> Password \cup {None}]
      /\ Boot \in Actor /\ Client \subseteq Actor /\ c # Boot
      /\ authed \subseteq Client /\ failures \in Nat /\ resets \in 0 .. MaxResets
      /\ Known \subseteq Password
  BY DEF IInv, Typed, Actor, Known, Password
<1>a. /\ at[c] \notin Writing \cup Clearing
      /\ \E s \in Step \ (Writing \cup Clearing \cup {"down"}) : at' = [at EXCEPT ![c] = s]
      /\ \E p \in Password \cup {None} : pw' = [pw EXCEPT ![c] = p]
      /\ authed' \subseteq Client /\ failures' \in Nat
      /\ Serving
      /\ UNCHANGED <<hash, flag, file, resets, mixed, alone>>
  <2>1. \A d \in Actor : pw = [pw EXCEPT ![d] = pw[d]] /\ at = [at EXCEPT ![d] = at[d]]
    BY <1>0
  <2>2. pw[c] \in Password \cup {None} /\ at[c] \in Step
    BY <1>0
  <2>3. CASE \E p \in Known : LoginAsk(c, p)
    BY <1>0, <2>3 DEF LoginAsk, Free, Goes, Step, Writing, Clearing, credential, limiters, ghosts
  <2>4. CASE LoginVerify(c)
    BY <1>0, <2>4 DEF LoginVerify, PlacesOk, Goes, Step, Writing, Clearing, credential, limiters, ghosts
  <2>5. CASE LoginAccepted(c)
    BY <1>0, <2>1, <2>2, <2>5 DEF LoginAccepted, PlacesOk, Goes, Step, Writing, Clearing, credential, limiters, ghosts
  <2>6. CASE LoginRefused(c)
    <3>1. /\ at[c] = "refused" /\ Serving /\ failures' = failures + 1
          /\ at' = [at EXCEPT ![c] = "idle"] /\ pw' = [pw EXCEPT ![c] = pw[c]]
          /\ UNCHANGED <<hash, flag, file, authed, resets, mixed, alone>>
      BY <1>0, <2>1, <2>6 DEF LoginRefused, PlacesOk, Goes, credential, ghosts
    <3>2. failures' \in Nat
      BY <1>0, <3>1
    <3>3. "idle" \in Step \ (Writing \cup Clearing \cup {"down"}) /\ "refused" \notin Writing \cup Clearing
      BY DEF Step, Writing, Clearing
    <3> QED
      BY <1>0, <2>2, <3>1, <3>2, <3>3
  <2>7. CASE Logout(c)
    <3>1. at[c] = "idle" /\ Serving /\ authed' = authed \ {c}
          /\ UNCHANGED <<at, pw, hash, flag, file, failures, resets, mixed, alone>>
      BY <2>7 DEF Logout, Free, credential, limiters, ghosts
    <3>2. at' = [at EXCEPT ![c] = "idle"] /\ pw' = [pw EXCEPT ![c] = pw[c]]
      BY <1>0, <3>1
    <3> QED
      BY <1>0, <2>2, <3>1, <3>2 DEF Step, Writing, Clearing
  <2>8. CASE Admit(c) \/ Enter(c)
    BY <1>0, <2>1, <2>2, <2>8 DEF Admit, Enter, Free, PlacesOk, Goes, Step, Writing, Clearing, credential, limiters, ghosts
  <2> QED
    BY <2>3, <2>4, <2>5, <2>6, <2>7, <2>8 DEF Login
<1>1. PlacesOk' /\ at' \in [Actor -> Step] /\ pw' \in [Actor -> Password \cup {None}]
  BY <1>0, <1>a DEF PlacesOk, Serving, Actor
<1> QED
  BY <1>0, <1>1, <1>a, AsideInv

(* A reset begins. *)
LEMMA ResetInv == ASSUME IInv, NEW c \in Client, Reset(c) PROVE Credential'
<1> USE ActorAssumption, PasswordsApart
<1>0. /\ PlacesOk /\ at \in [Actor -> Step] /\ pw \in [Actor -> Password \cup {None}]
      /\ Boot \in Actor /\ Client \subseteq Actor /\ c # Boot
      /\ authed \subseteq Client /\ failures \in Nat /\ resets \in 0 .. MaxResets
  BY DEF IInv, Typed, Actor
<1>a. /\ at[c] = "idle" /\ Serving /\ at' = [at EXCEPT ![c] = "write"]
      /\ Begins(c) /\ resets < MaxResets /\ resets' = resets + 1
      /\ UNCHANGED <<hash, flag, file, authed, failures>>
  BY DEF Reset, Free, Allowed, Goes, credential
<1>b. PICK g \in Generated : pw' = [pw EXCEPT ![c] = g]
  BY DEF Reset, Fresh
<1>1. PlacesOk'
  BY <1>0, <1>a DEF PlacesOk, Serving, Actor, Writing
<1>2. Writers' = Writers \cup {c} /\ c \notin Writers
  BY <1>0, <1>a, <1>1, WritersAre DEF Writing, Clearing, PlacesOk, Writers, Generating, Changing, Actor
<1>3. /\ Solo' /\ Progress' /\ alone' \subseteq Writers' /\ mixed' \in BOOLEAN
      /\ (mixed => mixed')
  BY <1>0, <1>a, <1>b, <1>2, BeginsInv DEF credential
<1>4. resets' \in 0 .. MaxResets
  BY <1>0, <1>a, LimitAssumption
<1>5. Typed' /\ HandsOk'
  BY <1>0, <1>a, <1>b, <1>3, <1>4 DEF IInv, Typed, HandsOk, Writing, Step, Actor, Password
<1>6. NeverUnset' /\ GeneratedMustChange' /\ FileTells'
  BY <1>0, <1>a, <1>3 DEF IInv, NeverUnset, Serving, GeneratedMustChange, FileTells
<1> QED
  BY <1>1, <1>3, <1>5, <1>6 DEF Credential

(* A change of password: begun, checked, written, and its two clearings. *)
LEMMA ChangeInv == ASSUME IInv, NEW c \in Client, ChangePassword(c) PROVE Credential'
<1> USE ActorAssumption, PasswordsApart
<1>0. /\ PlacesOk /\ at \in [Actor -> Step] /\ pw \in [Actor -> Password \cup {None}]
      /\ Boot \in Actor /\ Client \subseteq Actor /\ c # Boot
      /\ authed \subseteq Client /\ failures \in Nat /\ resets \in 0 .. MaxResets
      /\ Known \subseteq Password
  BY DEF IInv, Typed, Actor, Known, Password
<1>1. ASSUME NEW p \in Known, Change(c, p) PROVE Credential'
  <2>a. /\ at[c] = "idle" /\ Serving /\ at' = [at EXCEPT ![c] = "check"]
        /\ Begins(c) /\ pw' = [pw EXCEPT ![c] = p] /\ p \in Password
        /\ UNCHANGED <<hash, flag, file, authed, failures, resets>>
    BY <1>0, <1>1 DEF Change, Free, Goes, credential, limiters
  <2>1. PlacesOk'
    BY <1>0, <2>a DEF PlacesOk, Serving, Actor, Writing
  <2>2. Writers' = Writers \cup {c} /\ c \notin Writers
    BY <1>0, <2>a, <2>1, WritersAre DEF Writing, Clearing, PlacesOk, Writers, Generating, Changing, Actor
  <2>3. /\ Solo' /\ Progress' /\ alone' \subseteq Writers' /\ mixed' \in BOOLEAN
        /\ (mixed => mixed')
    BY <1>0, <2>a, <2>2, BeginsInv DEF credential
  <2>4. Typed' /\ HandsOk'
    BY <1>0, <2>a, <2>3 DEF IInv, Typed, HandsOk, Writing, Step, Actor
  <2>5. NeverUnset' /\ GeneratedMustChange' /\ FileTells'
    BY <1>0, <2>a, <2>3 DEF IInv, NeverUnset, Serving, GeneratedMustChange, FileTells
  <2> QED
    BY <2>1, <2>3, <2>4, <2>5 DEF Credential
<1>2. CASE ChangeCheck(c) /\ pw[c] = hash
  <2>a. /\ at[c] = "check" /\ at' = [at EXCEPT ![c] = "set"] /\ pw[c] = hash /\ pw[c] \in Password
        /\ UNCHANGED <<hash, flag, file, pw, authed, failures, resets, mixed, alone>>
    BY <1>2 DEF ChangeCheck, Goes, IInv, HandsOk, credential, limiters, ghosts
  <2>1. PlacesOk'
    BY <1>0, <2>a DEF PlacesOk, Serving, Actor, Writing
  <2>2. Writers' = Writers /\ c \in Writers
    BY <1>0, <2>a, <2>1, WritersAre DEF Writing, Clearing, PlacesOk, Writers, Generating, Changing, Actor
  <2>3. Typed' /\ HandsOk'
    BY <1>0, <2>a, <2>2, PasswordAssumption DEF IInv, Typed, HandsOk, Writing, Step, Actor, Password
  <2>4. NeverUnset' /\ GeneratedMustChange' /\ FileTells'
    BY <1>0, <2>a DEF IInv, NeverUnset, PlacesOk, Serving, GeneratedMustChange, FileTells
  <2>5. Solo' /\ Progress'
    BY <1>0, <2>a, <2>2 DEF IInv, Solo, Progress
  <2> QED
    BY <2>1, <2>3, <2>4, <2>5 DEF Credential
<1>3. CASE ChangeCheck(c) /\ pw[c] # hash
  <2>a. /\ at[c] = "check" /\ at' = [at EXCEPT ![c] = "idle"] /\ pw' = [pw EXCEPT ![c] = None]
        /\ alone' = alone \ {c}
        /\ UNCHANGED <<hash, flag, file, authed, failures, resets, mixed>>
    BY <1>3 DEF ChangeCheck, Goes, GivesUp, credential, limiters
  <2>1. PlacesOk'
    BY <1>0, <2>a DEF PlacesOk, Serving, Actor, Writing
  <2>2. Writers' = Writers \ {c} /\ c \in Writers
    BY <1>0, <2>a, <2>1, WritersAre DEF Writing, Clearing, PlacesOk, Writers, Generating, Changing, Actor
  <2>3. Typed' /\ HandsOk'
    BY <1>0, <2>a, <2>2 DEF IInv, Typed, HandsOk, Writing, Step, Actor
  <2>4. NeverUnset' /\ GeneratedMustChange' /\ FileTells'
    BY <1>0, <2>a DEF IInv, NeverUnset, PlacesOk, Serving, GeneratedMustChange, FileTells
  <2>5. Solo' /\ Progress'
    BY <1>0, <2>a, <2>2 DEF IInv, Solo, Progress
  <2> QED
    BY <2>1, <2>3, <2>4, <2>5 DEF Credential
<1>4. CASE ChangeSet(c)
  <2>a. /\ at[c] = "set" /\ at' = [at EXCEPT ![c] = "clear"] /\ pw' = [pw EXCEPT ![c] = None]
        /\ \/ hash' = Own /\ UNCHANGED <<mixed, alone>>
           \/ hash' = pw[c] /\ mixed' = TRUE /\ alone' = alone \ {c}
        /\ pw[c] \in Generated \cup {Own}
        /\ UNCHANGED <<flag, file, authed, failures, resets>>
    BY <1>4 DEF ChangeSet, Goes, GivesUp, IInv, HandsOk, limiters, ghosts
  <2>1. PlacesOk'
    BY <1>0, <2>a DEF PlacesOk, Serving, Actor, Writing
  <2>2. Writers' = Writers /\ c \in Writers
    BY <1>0, <2>a, <2>1, WritersAre DEF Writing, Clearing, PlacesOk, Writers, Generating, Changing, Actor
  <2>3. Typed' /\ HandsOk'
    BY <1>0, <2>a, <2>2 DEF IInv, Typed, HandsOk, Writing, Step, Actor
  <2>4. NeverUnset' /\ GeneratedMustChange' /\ FileTells'
    BY <1>0, <2>a, PasswordAssumption DEF NeverUnset, GeneratedMustChange, FileTells
  <2>5. Solo' /\ Progress'
    BY <1>0, <2>a, <2>2 DEF IInv, Solo, Progress
  <2> QED
    BY <2>1, <2>3, <2>4, <2>5 DEF Credential
<1>5. CASE ClearFlag(c)
  <2>a. /\ at[c] = "clear" /\ at' = [at EXCEPT ![c] = "unlink"] /\ flag' = FALSE
        /\ UNCHANGED <<hash, file, pw, authed, failures, resets, mixed, alone>>
    BY <1>5 DEF ClearFlag, Goes, limiters, ghosts
  <2>1. PlacesOk'
    BY <1>0, <2>a DEF PlacesOk, Serving, Actor, Writing
  <2>2. Writers' = Writers /\ c \in Writers
    BY <1>0, <2>a, <2>1, WritersAre DEF Writing, Clearing, PlacesOk, Writers, Generating, Changing, Actor
  <2>3. Typed' /\ HandsOk'
    BY <1>0, <2>a, <2>2 DEF IInv, Typed, HandsOk, Writing, Step, Actor
  <2>4. ~mixed => hash = Own
    BY <2>a, <2>2 DEF IInv, Solo, Progress
  <2>5. NeverUnset' /\ GeneratedMustChange' /\ FileTells'
    BY <1>0, <2>a, <2>4 DEF IInv, NeverUnset, PlacesOk, Serving, GeneratedMustChange, FileTells
  <2>6. Solo' /\ Progress'
    BY <1>0, <2>a, <2>2 DEF IInv, Solo, Progress
  <2> QED
    BY <2>1, <2>3, <2>5, <2>6 DEF Credential
<1>6. CASE Unlink(c)
  <2>a. /\ at[c] = "unlink" /\ at' = [at EXCEPT ![c] = "idle"] /\ file' = None
        /\ alone' = alone \ {c} /\ mixed' = (mixed /\ c \notin alone)
        /\ UNCHANGED <<hash, flag, pw, authed, failures, resets>>
    BY <1>6 DEF Unlink, Goes, Completes, limiters
  <2>1. PlacesOk'
    BY <1>0, <2>a DEF PlacesOk, Serving, Actor, Writing
  <2>2. Writers' = Writers \ {c} /\ c \in Writers
    BY <1>0, <2>a, <2>1, WritersAre DEF Writing, Clearing, PlacesOk, Writers, Generating, Changing, Actor
  <2>3. Typed' /\ HandsOk'
    BY <1>0, <2>a, <2>2 DEF IInv, Typed, HandsOk, Writing, Step, Actor
  <2>4. ~mixed' => hash = Own
    BY <2>a, <2>2 DEF IInv, Typed, Solo, Progress
  <2>5. NeverUnset' /\ GeneratedMustChange' /\ FileTells'
    BY <1>0, <2>a, <2>4 DEF IInv, NeverUnset, PlacesOk, Serving, GeneratedMustChange, FileTells
  <2>6. Solo' /\ Progress'
    BY <1>0, <2>a, <2>2 DEF IInv, Typed, Solo, Progress
  <2> QED
    BY <2>1, <2>3, <2>5, <2>6 DEF Credential
<1> QED
  BY <1>1, <1>2, <1>3, <1>4, <1>5, <1>6 DEF ChangePassword

(* The logins that are under way are finitely many, and no more than the clients. *)
LEMMA TryingFinite ==
    /\ IsFiniteSet(Trying) /\ Cardinality(Trying) \in Nat
    /\ Cardinality(Client) \in Nat
    /\ Cardinality(Trying) <= Cardinality(Client)
<1>1. IsFiniteSet(Client) /\ Trying \subseteq Client
  BY ActorAssumption DEF Trying
<1> QED
  BY <1>1, FS_Subset, FS_CardinalityType

(* The count of the logins: who is let in finds room for himself, and one   *)
(* failure is counted for each that is refused.                             *)
LEMMA LoginsInv == ASSUME IInv, [Next]_vars PROVE LoginsBounded'
<1> USE ActorAssumption, LimitAssumption
<1>0. /\ at \in [Actor -> Step] /\ failures \in Nat /\ MaxAttempts \in Nat \ {0} /\ Client \subseteq Actor
      /\ LoginsBounded
  BY DEF IInv, Typed, Actor
<1>t. Cardinality(Trying') \in Nat /\ Cardinality(Trying') <= Cardinality(Client)
  <2>1. IsFiniteSet(Client) /\ Trying' \subseteq Client
    BY DEF Trying
  <2> QED
    BY <2>1, FS_Subset, FS_CardinalityType
<1>1. CASE Trying' = Trying /\ failures' \in {failures, failures - 1}
  BY <1>0, <1>1, TryingFinite DEF LoginsBounded
<1>2. CASE failures' = 0
  BY <1>0, <1>2, <1>t, TryingFinite DEF LoginsBounded
<1>3. CASE failures' = failures /\ failures < MaxAttempts
  BY <1>0, <1>3, <1>t, TryingFinite DEF LoginsBounded
<1>4. ASSUME NEW c \in Client, LoginVerify(c) PROVE LoginsBounded'
  <2>1. failures' = failures /\ Trying' \subseteq Trying
    BY <1>0, <1>4 DEF LoginVerify, Goes, Trying, limiters
  <2>2. Cardinality(Trying') <= Cardinality(Trying)
    BY <2>1, TryingFinite, FS_Subset
  <2> QED
    BY <1>0, <1>t, <2>1, <2>2, TryingFinite DEF LoginsBounded
<1>5. ASSUME NEW c \in Client, LoginRefused(c) PROVE LoginsBounded'
  <2>1. failures' = failures + 1 /\ Trying' = Trying \ {c} /\ c \in Trying
    BY <1>0, <1>5 DEF LoginRefused, Goes, Trying
  <2>2. Cardinality(Trying') = Cardinality(Trying) - 1
    BY <2>1, TryingFinite, FS_RemoveElement
  <2> QED
    BY <1>0, <2>1, <2>2, TryingFinite DEF LoginsBounded
<1>6. \/ Trying' = Trying /\ failures' \in {failures, failures - 1}
      \/ failures' = 0
      \/ failures' = failures /\ failures < MaxAttempts
      \/ \E c \in Client : LoginVerify(c) \/ LoginRefused(c)
  <2>1. CASE \E a \in Actor : Generate(a)
    BY <1>0, <2>1 DEF Generate, WriteFile, WriteFileFails, SetFlag, StoreGenerated, Goes, Trying, limiters
  <2>2. CASE BootKeeps \/ BootFromEnv \/ BootGenerates
    BY <1>0, <2>2 DEF BootKeeps, BootFromEnv, BootGenerates, Goes, Trying, limiters
  <2>3. CASE Crash
    BY <2>3 DEF Crash
  <2>4. ASSUME NEW c \in Client, Login(c) \/ Logout(c) \/ Admit(c) \/ Enter(c) \/ Reset(c)
        PROVE  \/ Trying' = Trying /\ failures' \in {failures, failures - 1}
               \/ failures' = 0
               \/ failures' = failures /\ failures < MaxAttempts
               \/ LoginVerify(c) \/ LoginRefused(c)
    BY <1>0, <2>4 DEF Login, LoginAsk, Allowed, LoginAccepted, Logout, Admit, Enter, Reset, Free, Goes, Trying, limiters
  <2>5. ASSUME NEW c \in Client, ChangePassword(c)
        PROVE  Trying' = Trying /\ failures' = failures
    BY <1>0, <2>5 DEF ChangePassword, Change, ChangeCheck, ChangeSet, ClearFlag, Unlink, Free, Goes, Trying, limiters
  <2>6. CASE Expire
    BY <2>6 DEF Expire, Trying
  <2>7. CASE UNCHANGED vars
    BY <2>7 DEF vars, limiters, Trying
  <2> QED
    BY <2>1, <2>2, <2>3, <2>4, <2>5, <2>6, <2>7 DEF Next
<1> QED
  BY <1>1, <1>2, <1>3, <1>4, <1>5, <1>6

(* Only a generated password that is stored overtakes who was let through; *)
(* whoever is let through later finds the flag of the password in force.   *)
LEMMA GuardInv == ASSUME IInv, [Next]_vars PROVE GuardOk'
<1> USE ActorAssumption, PasswordsApart
<1>0. /\ at \in [Actor -> Step] /\ Client \subseteq Actor /\ alone \subseteq Writers
      /\ overtaken \subseteq Admitted /\ AdmittedBefore /\ mixed \in BOOLEAN
  BY DEF IInv, Typed, Actor, GuardOk
<1>kept. ASSUME overtaken' = overtaken, Admitted' = Admitted,
                hash' \in Generated /\ ~mixed' => hash' = hash /\ ~mixed
         PROVE  GuardOk'
  BY <1>0, <1>kept DEF GuardOk, AdmittedBefore
<1>1. ASSUME NEW a \in Actor, Generate(a) PROVE GuardOk'
  <2>1. CASE WriteFile(a) \/ WriteFileFails(a) \/ SetFlag(a)
    <3>1. overtaken' = overtaken /\ hash' = hash /\ (~mixed' => ~mixed) /\ Admitted' = Admitted
      BY <1>0, <2>1 DEF WriteFile, WriteFileFails, SetFlag, GivesUp, Goes, Admitted, ghosts
    <3> QED
      BY <3>1, <1>kept
  <2>2. CASE StoreGenerated(a)
    <3>1. overtaken' = Admitted /\ Admitted' = Admitted
      BY <1>0, <2>2 DEF StoreGenerated, Goes, Admitted
    <3> QED
      BY <3>1 DEF GuardOk, AdmittedBefore
  <2> QED
    BY <1>1, <2>1, <2>2 DEF Generate
<1>2. CASE BootKeeps \/ BootFromEnv \/ BootGenerates
  <2>1. /\ overtaken' = overtaken /\ Admitted' = Admitted
        /\ hash' \in Generated /\ ~mixed' => hash' = hash /\ ~mixed
    BY <1>0, <1>2 DEF BootKeeps, BootFromEnv, BootGenerates, Begins, Goes, Admitted, credential, ghosts
  <2> QED
    BY <2>1, <1>kept
<1>3. CASE Crash
  BY <1>3 DEF Crash, GuardOk, AdmittedBefore, Admitted, Actor
<1>4. ASSUME NEW c \in Client, Login(c) \/ Logout(c) \/ Reset(c) PROVE GuardOk'
  <2>1. overtaken' = overtaken /\ hash' = hash /\ (~mixed' => ~mixed) /\ Admitted' = Admitted
    BY <1>0, <1>4 DEF Login, LoginAsk, LoginVerify, LoginAccepted, LoginRefused, Logout, Reset, Begins, Free, Goes,
       Admitted, credential, ghosts
  <2> QED
    BY <2>1, <1>kept
<1>5. ASSUME NEW c \in Client, Admit(c) PROVE GuardOk'
  <2>1. Admitted' = Admitted \cup {c} /\ UNCHANGED <<hash, mixed, overtaken>>
    BY <1>0, <1>5 DEF Admit, Goes, Admitted, credential, ghosts
  <2>2. ~(hash \in Generated /\ ~mixed)
    BY <1>5 DEF Admit, Guard, IInv, GeneratedMustChange
  <2> QED
    BY <1>0, <2>1, <2>2 DEF GuardOk, AdmittedBefore
<1>6. ASSUME NEW c \in Client, Enter(c) PROVE GuardOk'
  <2>1. Admitted' = Admitted \ {c} /\ overtaken' = overtaken \ {c} /\ UNCHANGED <<hash, mixed>>
    BY <1>0, <1>6 DEF Enter, Goes, Admitted, credential
  <2> QED
    BY <1>0, <2>1 DEF GuardOk, AdmittedBefore
<1>7. ASSUME NEW c \in Client, ChangePassword(c) PROVE GuardOk'
  <2>1. overtaken' = overtaken /\ Admitted' = Admitted
    BY <1>0, <1>7 DEF ChangePassword, Change, ChangeCheck, ChangeSet, ClearFlag, Unlink, Begins, GivesUp, Free, Goes,
       Admitted, ghosts
  <2>2. CASE Unlink(c)
    <3>1. hash' = hash /\ at[c] = "unlink" /\ mixed' = (mixed /\ c \notin alone)
      BY <2>2 DEF Unlink, Completes
    <3>2. c \in alone => hash = Own
      BY <3>1 DEF IInv, Progress
    <3> QED
      BY <1>0, <2>1, <3>1, <3>2, <1>kept
  <2>3. CASE ~Unlink(c)
    <3>1. hash' \in Generated /\ ~mixed' => hash' = hash /\ ~mixed
      BY <1>0, <1>7, <2>3, PasswordAssumption DEF ChangePassword, Change, ChangeCheck, ChangeSet, ClearFlag, Begins, credential, ghosts
    <3> QED
      BY <2>1, <3>1, <1>kept
  <2> QED
    BY <2>2, <2>3
<1>8. CASE Expire \/ UNCHANGED vars
  <2>1. UNCHANGED <<overtaken, hash, mixed, at>>
    BY <1>8 DEF Expire, vars, credential, ghosts
  <2>2. Admitted' = Admitted
    BY <2>1 DEF Admitted
  <2> QED
    BY <2>1, <2>2, <1>kept
<1> QED
  BY <1>1, <1>2, <1>3, <1>4, <1>5, <1>6, <1>7, <1>8 DEF Next

(* Every step of the bootstrap, the clients and the limiters preserves the invariant. *)
LEMMA NextInv == IInv /\ [Next]_vars => IInv'
<1> SUFFICES ASSUME IInv, [Next]_vars PROVE Credential'
  BY LoginsInv, GuardInv DEF Credential, IInv
<1>1. ASSUME NEW a \in Actor, Generate(a) PROVE Credential'
  BY <1>1, GenerateInv
<1>2. CASE BootKeeps \/ BootFromEnv \/ BootGenerates
  BY <1>2, BootInv
<1>3. CASE Crash
  BY <1>3, CrashInv
<1>4. ASSUME NEW c \in Client, Login(c) \/ Logout(c) \/ Admit(c) \/ Enter(c) PROVE Credential'
  BY <1>4, LoginWorkInv
<1>5. ASSUME NEW c \in Client, Reset(c) PROVE Credential'
  BY <1>5, ResetInv
<1>6. ASSUME NEW c \in Client, ChangePassword(c) PROVE Credential'
  BY <1>6, ChangeInv
<1>7. CASE Expire \/ UNCHANGED vars
  <2>1. /\ UNCHANGED <<hash, flag, file, at, pw, authed, mixed, alone>>
        /\ failures' \in Nat /\ resets' \in 0 .. MaxResets
    BY <1>7, LimitAssumption DEF Expire, vars, credential, limiters, ghosts, IInv, Typed
  <2>2. PlacesOk' /\ (Serving' => Serving)
    BY <2>1 DEF IInv, PlacesOk, Serving
  <2> QED
    BY <2>1, <2>2, AsideInv DEF IInv, Typed
<1> QED
  BY <1>1, <1>2, <1>3, <1>4, <1>5, <1>6, <1>7 DEF Next

----------------------------------------------------------------------------
(* The credential is well-formed and the counters of both throttles stay   *)
(* within their bounds, whatever requests, crashes and failed writes meet. *)
THEOREM TypeCorrect == Spec => []TypeOK
<1>1. IInv => TypeOK
  <2> SUFFICES ASSUME IInv PROVE failures \in 0 .. MaxAttempts + Cardinality(Client)
    BY DEF IInv, Typed, GuardOk, TypeOK
  <2> QED
    BY LimitAssumption, TryingFinite DEF IInv, Typed, LoginsBounded
<1> QED
  BY <1>1, InitInv, NextInv, PTL DEF Spec

(* Nobody is ever served by a process that has no password set, also after *)
(* a crash anywhere in the first bootstrap.                                *)
THEOREM ServedWithPassword == Spec => []NeverUnset
<1>1. IInv => NeverUnset
  BY DEF IInv
<1> QED
  BY <1>1, InitInv, NextInv, PTL DEF Spec

(* Wherever the process dies, the password in force is the operator's or   *)
(* flagged to be changed, unless writers were mixed.                       *)
THEOREM FlaggedWhenGenerated == Spec => []GeneratedMustChange
<1>1. IInv => GeneratedMustChange
  BY DEF IInv
<1> QED
  BY <1>1, InitInv, NextInv, PTL DEF Spec

(* A route that must not be reached under a generated password is entered  *)
(* under one only by a request whose guard read the flag before, however   *)
(* resets, changes, crashes and restarts interleave with the requests.     *)
THEOREM GuardNeverTooLate == Spec => []AdmittedBefore
<1>1. IInv => AdmittedBefore
  BY DEF IInv, GuardOk
<1> QED
  BY <1>1, InitInv, NextInv, PTL DEF Spec

(* No lockout: whenever nobody is writing, the file has the generated      *)
(* password in force, unless writers were mixed or cut off.                *)
THEOREM FileOpensTheDoor == Spec => []NoLockout
<1>1. IInv => NoLockout
  <2> SUFFICES ASSUME IInv, Writers = {} PROVE \A a \in Actor : at[a] \notin {"flag", "hash"}
    BY DEF IInv, NoLockout, FileTells
  <2> QED
    BY DEF Writers, Generating
<1> QED
  BY <1>1, InitInv, NextInv, PTL DEF Spec

(* The failures in a window are at most one below the limit plus one for   *)
(* every client let in together; the resets never exceed theirs.           *)
THEOREM GuessesBounded == Spec => []Throttled
<1>1. IInv => Throttled
  BY LimitAssumption, TryingFinite DEF IInv, Typed, LoginsBounded, Throttled
<1> QED
  BY <1>1, InitInv, NextInv, PTL DEF Spec
==============================================================================
