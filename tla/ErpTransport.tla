----------------------------- MODULE ErpTransport -----------------------------
(***************************************************************************)
(* AuthManager and HttpERPAdapter: concurrent calls to the ERP that share  *)
(* one bearer token, one login and one bound on retries.                   *)
(*                                                                         *)
(* A call runs on the event loop until it awaits: the auth manager's lock  *)
(* (an asyncio.Lock: first come, first served), the login request, or the  *)
(* request itself.  A token is the number of the login that issued it.     *)
(* Credentials are configured (AuthManager.enabled).                       *)
(***************************************************************************)
EXTENDS Integers, Sequences, FiniteSets

CONSTANTS
  Tasks,      \* the coroutines that call the ERP
  Attempts,   \* max(1, erp_max_retries)
  MaxTokens   \* bound: number of tokens the ERP issues

ASSUME TransportAssumption == Attempts \in Nat \ {0} /\ MaxTokens \in Nat

VARIABLES
  token,      \* AuthManager._token, NoToken for None
  lasting,    \* time.monotonic() < AuthManager._expires_at
  lock,       \* the holder of AuthManager._lock, then those who wait for it
  issued,     \* the ERP: number of tokens issued
  accepted,   \* the ERP: the tokens it still accepts
  call        \* the call each task is making

transport == <<token, lasting, lock, issued, accepted, call>>

NoToken == 0
Tokens  == 1..MaxTokens

Place == {"idle", "auth", "lock", "login", "granted", "request", "refused", "invalidate"}
Outcome == {"none", "answer", "unauthorized", "exhausted", "failed", "no login", "raised"}
Call == [at : Place, tries : 1..Attempts, reauthed : BOOLEAN, header : Tokens \cup {NoToken},
         refused : SUBSET (Tokens \cup {NoToken}), outcome : Outcome]

NewCall == [at |-> "auth", tries |-> 1, reauthed |-> FALSE, header |-> NoToken,
            refused |-> {}, outcome |-> "none"]

Init ==
  /\ token = NoToken
  /\ lasting = FALSE
  /\ lock = <<>>
  /\ issued = 0
  /\ accepted = {}
  /\ call = [t \in Tasks |-> [NewCall EXCEPT !.at = "idle"]]

(* The cached token would be returned without a login.                     *)
Usable == token # NoToken /\ lasting

(* asyncio.Lock: a call that awaits it runs when all before it released it. *)
Holds(t) == lock # <<>> /\ Head(lock) = t
Acquire(t) == lock' = Append(lock, t)
Release_Not == UNCHANGED lock
Release == lock' = Tail(lock)

At(t, place) == call[t].at = place
Move(t, place) == call' = [call EXCEPT ![t].at = place]
Finish(t, outcome) == call' = [call EXCEPT ![t].at = "idle", ![t].outcome = outcome]

(* tenacity: another attempt, or the last error is raised again.           *)
Retry_Unbounded(t, outcome) ==
  IF call[t].tries < Attempts + 1
  THEN call' = [call EXCEPT ![t].at = "auth"]
  ELSE Finish(t, outcome)
Retry(t, outcome) ==
  IF call[t].tries < Attempts
  THEN call' = [call EXCEPT ![t].at = "auth", ![t].tries = @ + 1]
  ELSE Finish(t, outcome)

-----------------------------------------------------------------------------
(* AuthManager.                                                            *)

(* The request carries the cached token.                                   *)
Carry(t) == call' = [call EXCEPT ![t].at = "request", ![t].header = token]

(* _get_valid_token: a valid token is used, else the lock is asked for.    *)
GetToken(t) ==
  /\ At(t, "auth")
  /\ \/ Usable /\ Carry(t) /\ UNCHANGED lock
     \/ ~Usable /\ Move(t, "lock") /\ Acquire(t)
  /\ UNCHANGED <<token, lasting, issued, accepted>>

(* Under the lock the token is checked again before a login is sent.       *)
GetTokenLocked_Unchecked(t) ==
  /\ At(t, "lock") /\ Holds(t)
  /\ Move(t, "login")
  /\ UNCHANGED <<token, lasting, lock, issued, accepted>>
GetTokenLocked_NoLock(t) ==
  /\ At(t, "lock")
  /\ \/ Usable /\ Carry(t) /\ Release
     \/ ~Usable /\ Move(t, "login") /\ UNCHANGED lock
  /\ UNCHANGED <<token, lasting, issued, accepted>>
GetTokenLocked(t) ==
  /\ At(t, "lock") /\ Holds(t)
  /\ \/ Usable /\ Carry(t) /\ Release
     \/ ~Usable /\ Move(t, "login") /\ UNCHANGED lock
  /\ UNCHANGED <<token, lasting, issued, accepted>>

(* The ERP accepts the credentials; its answer is under way.               *)
Grant(t) ==
  /\ At(t, "login")
  /\ issued < MaxTokens
  /\ issued' = issued + 1
  /\ accepted' = accepted \cup {issued + 1}
  /\ call' = [call EXCEPT ![t].at = "granted", ![t].header = issued + 1]
  /\ UNCHANGED <<token, lasting, lock>>

(* The answer arrives.  A lifetime within the skew of thirty seconds is    *)
(* over at once, and the token is used all the same.                       *)
LoggedIn(t) ==
  /\ At(t, "granted")
  /\ token' = call[t].header
  /\ lasting' \in BOOLEAN
  /\ Move(t, "request")
  /\ Release
  /\ UNCHANGED <<issued, accepted>>

(* The login is refused, answers without a token, or its answer is lost:   *)
(* AuthError, which is not retried.  A body that is not JSON raises a      *)
(* ValueError no caller catches.  Either way the lock is released.         *)
LoginFails_Locked(t) ==
  /\ At(t, "login") \/ At(t, "granted")
  /\ Finish(t, "no login") \/ Finish(t, "raised")
  /\ Release_Not
  /\ UNCHANGED <<token, lasting, issued, accepted>>
LoginFails(t) ==
  /\ At(t, "login") \/ At(t, "granted")
  /\ Finish(t, "no login") \/ Finish(t, "raised")
  /\ Release
  /\ UNCHANGED <<token, lasting, issued, accepted>>

-----------------------------------------------------------------------------
(* HttpERPAdapter.                                                         *)

Start(t) ==
  /\ At(t, "idle")
  /\ call' = [call EXCEPT ![t] = NewCall]
  /\ UNCHANGED <<token, lasting, lock, issued, accepted>>

(* Any answer that is neither a 401 nor a server error.                    *)
Answer(t) ==
  /\ At(t, "request")
  /\ call[t].header \in accepted
  /\ Finish(t, "answer")
  /\ UNCHANGED <<token, lasting, lock, issued, accepted>>

(* A server error or a broken connection is retried; an HTTP error of      *)
(* another kind is not.                                                    *)
Fault(t) ==
  /\ At(t, "request")
  /\ Retry(t, "exhausted") \/ Finish(t, "failed")
  /\ UNCHANGED <<token, lasting, lock, issued, accepted>>

(* The ERP does not know the token: its 401 is under way.                  *)
Refuse(t) ==
  /\ At(t, "request")
  /\ call[t].header \notin accepted
  /\ call' = [call EXCEPT ![t].at = "refused", ![t].refused = @ \cup {call[t].header}]
  /\ UNCHANGED <<token, lasting, lock, issued, accepted>>

(* The first 401 of a call invalidates the token, the second is its answer. *)
Refused(t) ==
  /\ At(t, "refused")
  /\ \/ /\ ~call[t].reauthed
        /\ call' = [call EXCEPT ![t].at = "invalidate", ![t].reauthed = TRUE]
        /\ Acquire(t)
     \/ /\ call[t].reauthed
        /\ Finish(t, "unauthorized")
        /\ UNCHANGED lock
  /\ UNCHANGED <<token, lasting, issued, accepted>>

(* invalidate() forgets whatever token is cached by then.                  *)
Invalidate_Nothing(t) ==
  /\ At(t, "invalidate") /\ Holds(t)
  /\ Release
  /\ Retry(t, "exhausted")
  /\ UNCHANGED <<token, lasting, issued, accepted>>
Invalidate(t) ==
  /\ At(t, "invalidate") /\ Holds(t)
  /\ token' = NoToken
  /\ lasting' = FALSE
  /\ Release
  /\ Retry(t, "exhausted")
  /\ UNCHANGED <<issued, accepted>>

-----------------------------------------------------------------------------
(* The cached token's lifetime ends.                                       *)
Expire ==
  /\ lasting
  /\ lasting' = FALSE
  /\ UNCHANGED <<token, lock, issued, accepted, call>>

(* The ERP forgets a token: its own expiry, a restart, a logout elsewhere. *)
Revoke ==
  /\ \E n \in accepted : accepted' = accepted \ {n}
  /\ UNCHANGED <<token, lasting, lock, issued, call>>

Progress(t) ==
  \/ GetToken(t) \/ GetTokenLocked(t) \/ Grant(t) \/ LoggedIn(t) \/ LoginFails(t)
  \/ Answer(t) \/ Fault(t) \/ Refuse(t) \/ Refused(t) \/ Invalidate(t)

Next == (\E t \in Tasks : Start(t) \/ Progress(t)) \/ Expire \/ Revoke

TransportSpec == Init /\ [][Next]_transport

(* Every request is answered or times out, and the event loop resumes      *)
(* every coroutine that can run.                                           *)
FairTransport == TransportSpec /\ \A t \in Tasks : WF_transport(Progress(t))

-----------------------------------------------------------------------------
(* Every variable keeps its shape, and the lock's queue is made of the     *)
(* tasks that hold it or wait for it, once each.                           *)
TransportTypeOK ==
  /\ token \in Tokens \cup {NoToken}
  /\ lasting \in BOOLEAN
  /\ lock \in Seq(Tasks)
  /\ issued \in 0..MaxTokens
  /\ accepted \subseteq 1..issued
  /\ call \in [Tasks -> Call]
  /\ \A i, j \in DOMAIN lock : lock[i] = lock[j] => i = j
  /\ \A t \in Tasks : call[t].at \in {"lock", "login", "granted", "invalidate"}
                        <=> \E i \in DOMAIN lock : lock[i] = t

(* Simultaneous callers share a login: while one is under way there is no  *)
(* other, and it is sent only when the cached token is of no use           *)
(* (src/auth/auth_manager.py, "will share a single login request").        *)
LoginIsShared ==
  \A t \in Tasks : call[t].at \in {"login", "granted"} =>
    ~Usable /\ \A u \in Tasks : call[u].at \in {"login", "granted"} => u = t

(* A token used from the cache is the newest the ERP issued: no login      *)
(* answer overwrites the token of a later login.                           *)
TokenIsNewest == Usable => token = issued

(* A call reports 401 only after the ERP refused two different tokens: the *)
(* one it had and one from a login after that, whoever made that login.    *)
RefusedWithTwoTokens ==
  \A t \in Tasks : call[t].outcome = "unauthorized" => Cardinality(call[t].refused) = 2

(* Every call ends, whatever the other calls' logins and failures are.     *)
CallsEnd == \A t \in Tasks : call[t].at # "idle" ~> call[t].at = "idle"
=============================================================================
