-------------------------- MODULE ErpTransportProofs --------------------------
(***************************************************************************)
(* For any number of concurrent callers and every bound on retries and     *)
(* tokens: the callers share one login, the cached token is the newest,    *)
(* the lock's queue is made of those who hold it or wait for it, and a     *)
(* call reports 401 only when two different tokens were refused to it.     *)
(***************************************************************************)
EXTENDS ErpTransport, SequenceTheorems, FiniteSetTheorems, TLAPS

LoggingIn(t) == call[t].at \in {"login", "granted"}

(* The lock's part: only its holder logs in.  The token's part: a login is *)
(* under way only when the cached token is of no use, and then the next    *)
(* token to be cached is the newest.                                       *)
SharedInv ==
  /\ lock \in Seq(Tasks)
  /\ call \in [Tasks -> Call]
  /\ token \in 0..MaxTokens /\ issued \in 0..MaxTokens
  /\ \A t \in Tasks : LoggingIn(t) => Holds(t) /\ ~Usable
  /\ \A t \in Tasks : call[t].at = "granted" => call[t].header = issued
  /\ TokenIsNewest

(* Appending to the queue keeps its head, and tasks that did not move keep *)
(* the lock.                                                               *)
LEMMA AppendKeepsHead ==
  ASSUME NEW S, NEW s \in Seq(S), NEW x \in S, s # <<>>
  PROVE  Append(s, x) \in Seq(S) /\ Append(s, x) # <<>> /\ Head(Append(s, x)) = Head(s)
OBVIOUS

(* The two login states have one task at most, the holder of the lock.     *)
LEMMA OneHolder == SharedInv => LoginIsShared
BY DEF SharedInv, LoginIsShared, LoggingIn, Holds

(* A new call has the shape of a call.                                     *)
LEMMA NewCallType == NewCall \in Call /\ NewCall.at = "auth"
<1>1. 1 \in 1..Attempts
  BY TransportAssumption
<1> QED BY <1>1 DEF NewCall, Call, Place, Outcome

(* At first nobody logs in.                                                *)
LEMMA SharedInit == Init => SharedInv
<1> SUFFICES ASSUME Init PROVE SharedInv
  OBVIOUS
<1>1. [NewCall EXCEPT !.at = "idle"] \in Call /\ [NewCall EXCEPT !.at = "idle"].at = "idle"
  BY NewCallType DEF Call, Place
<1>2. \A t \in Tasks : call[t].at = "idle" /\ call[t] \in Call
  BY <1>1 DEF Init
<1>3. token = 0 /\ issued = 0 /\ 0 \in 0..MaxTokens
  BY TransportAssumption DEF Init, NoToken
<1> QED BY <1>1, <1>2, <1>3 DEF Init, SharedInv, TokenIsNewest, Usable, LoggingIn, NoToken

(* A step of task t that changes neither the token nor the lock and starts *)
(* no login.                                                               *)
LEMMA Elsewhere ==
  ASSUME SharedInv, NEW t \in Tasks, call' \in [Tasks -> Call],
         \A u \in Tasks \ {t} : call'[u] = call[u],
         UNCHANGED <<token, lasting, lock, issued>>,
         ~LoggingIn(t)'
  PROVE  SharedInv'
BY DEF SharedInv, TokenIsNewest, Usable, LoggingIn, Holds

(* The same when the task joins the queue of the lock.                     *)
LEMMA Queueing ==
  ASSUME SharedInv, NEW t \in Tasks, call' \in [Tasks -> Call],
         \A u \in Tasks \ {t} : call'[u] = call[u],
         UNCHANGED <<token, lasting, issued>>, Acquire(t),
         ~LoggingIn(t)'
  PROVE  SharedInv'
<1>1. lock' \in Seq(Tasks)
  BY DEF Acquire, SharedInv
<1>2. ASSUME NEW u \in Tasks, LoggingIn(u)' PROVE Holds(u)' /\ ~Usable'
  <2>1. u # t /\ LoggingIn(u)
    BY <1>2 DEF LoggingIn
  <2>2. lock # <<>> /\ Head(lock) = u /\ ~Usable
    BY <2>1 DEF SharedInv, Holds
  <2> QED BY <2>2, AppendKeepsHead DEF Acquire, SharedInv, Holds, Usable
<1>3. ASSUME NEW u \in Tasks, call'[u].at = "granted" PROVE call'[u].header = issued'
  BY <1>3 DEF SharedInv, LoggingIn
<1> QED BY <1>1, <1>2, <1>3 DEF SharedInv, TokenIsNewest, Usable

(* The same when the task holds the lock and releases it: nobody else is   *)
(* logging in, so the token may change to none or to the newest.           *)
LEMMA Releasing ==
  ASSUME SharedInv, NEW t \in Tasks, call' \in [Tasks -> Call],
         \A u \in Tasks \ {t} : call'[u] = call[u],
         Holds(t), Release, TokenIsNewest', token' \in 0..MaxTokens, issued' = issued,
         ~LoggingIn(t)'
  PROVE  SharedInv'
<1>1. lock' \in Seq(Tasks)
  BY DEF Release, SharedInv, Holds
<1>2. \A u \in Tasks : ~LoggingIn(u)'
  BY DEF SharedInv, LoggingIn, Holds
<1> QED BY <1>1, <1>2 DEF SharedInv, LoggingIn

(* Every step keeps the invariant.                                         *)
LEMMA SharedStep == SharedInv /\ [Next]_transport => SharedInv'
<1> SUFFICES ASSUME SharedInv, [Next]_transport PROVE SharedInv'
  OBVIOUS
<1>1. CASE Expire \/ Revoke \/ UNCHANGED transport
  BY <1>1 DEF Expire, Revoke, transport, SharedInv, TokenIsNewest, Usable, LoggingIn, Holds
<1>2. ASSUME NEW t \in Tasks, Start(t) \/ Progress(t) PROVE SharedInv'
  <2> DEFINE c == call[t]
  <2>1. call \in [Tasks -> Call] /\ c \in Call
    BY DEF SharedInv
  <2>2. c.at \in Place /\ c.tries \in 1..Attempts /\ c.header \in Tokens \cup {NoToken}
    BY <2>1 DEF Call
  <2>3. ASSUME NEW d \in Call, call' = [call EXCEPT ![t] = d]
        PROVE  /\ call' \in [Tasks -> Call] /\ call'[t] = d
               /\ \A u \in Tasks \ {t} : call'[u] = call[u]
    BY <2>1, <2>3
  <2>4. ASSUME NEW p \in Place, p \notin {"login", "granted"}, Move(t, p)
        PROVE  /\ call' \in [Tasks -> Call] /\ ~LoggingIn(t)'
               /\ \A u \in Tasks \ {t} : call'[u] = call[u]
    <3>1. [c EXCEPT !.at = p] \in Call /\ [c EXCEPT !.at = p].at = p
      BY <2>1 DEF Call
    <3> QED BY <2>3, <2>4, <3>1 DEF Move, LoggingIn
  <2>5. ASSUME NEW o \in Outcome, Finish(t, o)
        PROVE  /\ call' \in [Tasks -> Call] /\ ~LoggingIn(t)'
               /\ \A u \in Tasks \ {t} : call'[u] = call[u]
    <3>1. [c EXCEPT !.at = "idle", !.outcome = o] \in Call
          /\ [c EXCEPT !.at = "idle", !.outcome = o].at = "idle"
      BY <2>1 DEF Call, Place
    <3>2. call' = [call EXCEPT ![t] = [c EXCEPT !.at = "idle", !.outcome = o]]
      BY <2>5 DEF Finish
    <3> QED BY <2>3, <3>1, <3>2 DEF LoggingIn
  <2>6. ASSUME NEW o \in Outcome, Retry(t, o)
        PROVE  /\ call' \in [Tasks -> Call] /\ ~LoggingIn(t)'
               /\ \A u \in Tasks \ {t} : call'[u] = call[u]
    <3>1. CASE c.tries < Attempts
      <4>1. c.tries + 1 \in 1..Attempts
        BY <2>2, <3>1, TransportAssumption
      <4>2. [c EXCEPT !.at = "auth", !.tries = c.tries + 1] \in Call
            /\ [c EXCEPT !.at = "auth", !.tries = c.tries + 1].at = "auth"
        BY <2>1, <4>1 DEF Call, Place
      <4>3. call' = [call EXCEPT ![t] = [c EXCEPT !.at = "auth", !.tries = c.tries + 1]]
        BY <2>6, <3>1 DEF Retry
      <4> QED BY <2>3, <4>2, <4>3 DEF LoggingIn
    <3>2. CASE ~(c.tries < Attempts)
      BY <2>5, <2>6, <3>2 DEF Retry
    <3> QED BY <3>1, <3>2
  <2>7. ASSUME Carry(t), token \in Tokens \cup {NoToken}
        PROVE  /\ call' \in [Tasks -> Call] /\ ~LoggingIn(t)'
               /\ \A u \in Tasks \ {t} : call'[u] = call[u]
    <3>1. [c EXCEPT !.at = "request", !.header = token] \in Call
          /\ [c EXCEPT !.at = "request", !.header = token].at = "request"
      BY <2>1, <2>7 DEF Call, Place
    <3>2. call' = [call EXCEPT ![t] = [c EXCEPT !.at = "request", !.header = token]]
      BY <2>7 DEF Carry
    <3> QED BY <2>3, <3>1, <3>2 DEF LoggingIn
  <2>8. 0..MaxTokens = Tokens \cup {NoToken}
    BY TransportAssumption DEF Tokens, NoToken
  <2>9. CASE Start(t)
    BY <2>9, <2>3, NewCallType, Elsewhere DEF Start, LoggingIn
  <2>10. CASE GetToken(t)
    <3>1. CASE Usable /\ Carry(t) /\ UNCHANGED lock
      BY <2>7, <2>8, <2>10, <3>1, Elsewhere DEF GetToken, SharedInv
    <3>2. CASE ~Usable /\ Move(t, "lock") /\ Acquire(t)
      BY <2>4, <2>10, <3>2, Queueing DEF GetToken, Place
    <3> QED BY <2>10, <3>1, <3>2 DEF GetToken
  <2>11. CASE GetTokenLocked(t)
    <3>1. CASE Usable /\ Carry(t) /\ Release
      <4>1. TokenIsNewest' /\ token' \in 0..MaxTokens /\ issued' = issued /\ Holds(t)
        BY <2>11 DEF GetTokenLocked, SharedInv, TokenIsNewest, Usable
      <4>2. token \in Tokens \cup {NoToken}
        BY <2>8 DEF SharedInv
      <4> QED BY <2>7, <3>1, <4>1, <4>2, Releasing
    <3>2. CASE ~Usable /\ Move(t, "login") /\ UNCHANGED lock
      <4>1. [c EXCEPT !.at = "login"] \in Call /\ [c EXCEPT !.at = "login"].at = "login"
        BY <2>1 DEF Call, Place
      <4>2. call' = [call EXCEPT ![t] = [c EXCEPT !.at = "login"]]
        BY <3>2 DEF Move
      <4>3. /\ call' \in [Tasks -> Call] /\ call'[t].at = "login"
            /\ \A u \in Tasks \ {t} : call'[u] = call[u]
        BY <2>3, <4>1, <4>2
      <4> QED BY <2>11, <3>2, <4>3
              DEF GetTokenLocked, SharedInv, TokenIsNewest, Usable, LoggingIn, Holds
    <3> QED BY <2>11, <3>1, <3>2 DEF GetTokenLocked
  <2>12. CASE Grant(t)
    <3>1. issued + 1 \in Tokens /\ issued + 1 \in 0..MaxTokens
      BY <2>12, TransportAssumption DEF Grant, Tokens, SharedInv
    <3> DEFINE d == [c EXCEPT !.at = "granted", !.header = issued + 1]
    <3>2. d \in Call /\ d.at = "granted" /\ d.header = issued + 1
      BY <2>1, <3>1 DEF Call, Place
    <3>3. call' = [call EXCEPT ![t] = d]
      BY <2>12 DEF Grant
    <3> HIDE DEF d
    <3>4. /\ call' \in [Tasks -> Call] /\ call'[t] = d
          /\ \A u \in Tasks \ {t} : call'[u] = call[u]
      BY <2>3, <3>2, <3>3
    <3>5. LoggingIn(t) /\ Holds(t) /\ ~Usable
      BY <2>12 DEF Grant, At, LoggingIn, SharedInv
    <3>6. \A u \in Tasks \ {t} : ~LoggingIn(u)
      BY <3>5 DEF SharedInv, Holds
    <3> QED BY <2>12, <3>1, <3>2, <3>4, <3>5, <3>6
            DEF Grant, SharedInv, TokenIsNewest, Usable, LoggingIn, Holds
  <2>13. CASE LoggedIn(t)
    <3>1. LoggingIn(t) /\ Holds(t) /\ c.header = issued
      BY <2>13 DEF LoggedIn, At, LoggingIn, SharedInv
    <3>2. TokenIsNewest' /\ token' \in 0..MaxTokens /\ issued' = issued
      BY <2>13, <3>1 DEF LoggedIn, TokenIsNewest, SharedInv
    <3> QED BY <2>4, <2>13, <3>1, <3>2, Releasing DEF LoggedIn, Place
  <2>14. CASE LoginFails(t)
    <3>1. LoggingIn(t) /\ Holds(t)
      BY <2>14 DEF LoginFails, At, LoggingIn, SharedInv
    <3>2. TokenIsNewest' /\ token' \in 0..MaxTokens /\ issued' = issued
      BY <2>14 DEF LoginFails, TokenIsNewest, SharedInv, Usable
    <3> QED BY <2>5, <2>14, <3>1, <3>2, Releasing DEF LoginFails, Outcome
  <2>15. CASE Answer(t)
    BY <2>5, <2>15, Elsewhere DEF Answer, Outcome
  <2>16. CASE Fault(t)
    BY <2>5, <2>6, <2>16, Elsewhere DEF Fault, Outcome
  <2>17. CASE Refuse(t)
    <3> DEFINE d == [c EXCEPT !.at = "refused", !.refused = c.refused \cup {c.header}]
    <3>1. d \in Call /\ d.at = "refused"
      BY <2>1, <2>2 DEF Call, Place
    <3>2. call' = [call EXCEPT ![t] = d]
      BY <2>17 DEF Refuse
    <3> HIDE DEF d
    <3> QED BY <2>3, <2>17, <3>1, <3>2, Elsewhere DEF Refuse, LoggingIn
  <2>18. CASE Refused(t)
    <3>1. CASE c.reauthed
      BY <2>5, <2>18, <3>1, Elsewhere DEF Refused, Outcome
    <3>2. CASE ~c.reauthed
      <4> DEFINE d == [c EXCEPT !.at = "invalidate", !.reauthed = TRUE]
      <4>1. d \in Call /\ d.at = "invalidate"
        BY <2>1 DEF Call, Place
      <4>2. call' = [call EXCEPT ![t] = d] /\ Acquire(t)
        BY <2>18, <3>2 DEF Refused
      <4> HIDE DEF d
      <4> QED BY <2>3, <2>18, <4>1, <4>2, Queueing DEF Refused, LoggingIn
    <3> QED BY <3>1, <3>2
  <2>19. CASE Invalidate(t)
    <3>1. TokenIsNewest' /\ token' \in 0..MaxTokens /\ issued' = issued /\ Holds(t)
      BY <2>19, TransportAssumption DEF Invalidate, TokenIsNewest, Usable, NoToken
    <3> QED BY <2>6, <2>19, <3>1, Releasing DEF Invalidate, Outcome
  <2> QED BY <1>2, <2>9, <2>10, <2>11, <2>12, <2>13, <2>14, <2>15, <2>16, <2>17, <2>18, <2>19
          DEF Progress
<1> QED BY <1>1, <1>2 DEF Next

(* At most one login at any time, sent only when no usable token is cached. *)
THEOREM LoginAlwaysShared == TransportSpec => []LoginIsShared
BY SharedInit, SharedStep, OneHolder, PTL DEF TransportSpec

(* No login answer ever replaces a newer token.                            *)
THEOREM CachedTokenIsNewest == TransportSpec => []TokenIsNewest
<1>1. SharedInv => TokenIsNewest
  BY DEF SharedInv
<1> QED BY <1>1, SharedInit, SharedStep, PTL DEF TransportSpec

-----------------------------------------------------------------------------
(* The queue of the lock.                                                  *)

(* The places of a call that holds the lock or waits for it.               *)
Queued == {"lock", "login", "granted", "invalidate"}

QueueInv ==
  /\ \A i, j \in DOMAIN lock : lock[i] = lock[j] => i = j
  /\ \A t \in Tasks : call[t].at \in Queued <=> \E i \in DOMAIN lock : lock[i] = t

(* The tokens the ERP accepts are tokens it issued.                        *)
AcceptedInv == lasting \in BOOLEAN /\ accepted \subseteq 1..issued

(* A refused token is never cached, carried or granted again once the call *)
(* invalidated the cache: the tokens it may meet then are from later       *)
(* logins.  Until it is refused again a call was refused once.             *)
Renewed(c) == c.reauthed /\ c.at \notin {"idle", "invalidate", "refused"}

RefusalOf(c) ==
  /\ c.refused \subseteq 1..issued
  /\ c.at \in {"granted", "request", "refused"} => c.header \in 1..issued
  /\ c.at # "idle" => c.outcome = "none"
  /\ c.at \notin {"idle", "refused"} /\ ~c.reauthed => c.refused = {}
  /\ c.at \notin {"idle", "refused"} /\ c.reauthed => \E r \in 1..issued : c.refused = {r}
  /\ c.at = "refused" /\ ~c.reauthed => c.refused = {c.header}
  /\ c.at = "refused" /\ c.reauthed =>
       \E r \in 1..issued : r # c.header /\ c.refused = {r, c.header}
  /\ c.outcome = "unauthorized" => \E r, s \in 1..issued : r # s /\ c.refused = {r, s}
  /\ c.at = "request" => c.header \notin c.refused

(* Neither the cached token nor one that is under way was refused.         *)
NewTokensFor(c) ==
  /\ token \notin c.refused
  /\ \A u \in Tasks : call[u].at = "granted" => call[u].header \notin c.refused

RefusalInv ==
  \A t \in Tasks : RefusalOf(call[t]) /\ (Renewed(call[t]) => NewTokensFor(call[t]))

(* At first the queue is empty, and no call was refused.                   *)
LEMMA QueueInit == Init => QueueInv /\ AcceptedInv /\ RefusalInv
<1> SUFFICES ASSUME Init PROVE QueueInv /\ AcceptedInv /\ RefusalInv
  OBVIOUS
<1>1. QueueInv /\ AcceptedInv
  <2>1. DOMAIN lock = {} /\ \A t \in Tasks : call[t].at = "idle"
    BY DEF Init, NewCall
  <2> QED BY <2>1 DEF Init, QueueInv, AcceptedInv, Queued
<1>2. \A t \in Tasks : /\ call[t].at = "idle" /\ call[t].outcome = "none"
                       /\ call[t].refused = {} /\ call[t].reauthed = FALSE
  BY DEF Init, NewCall
<1>3. RefusalInv
  BY <1>2 DEF RefusalInv, RefusalOf, Renewed
<1> QED BY <1>1, <1>3

(* A step of a task changes no call but its own.                           *)
LEMMA OthersKeepTheirCall ==
  ASSUME call \in [Tasks -> Call], NEW t \in Tasks, Start(t) \/ Progress(t)
  PROVE  \A u \in Tasks \ {t} : call'[u] = call[u]
<1>1. CASE Start(t) \/ GetToken(t) \/ GetTokenLocked(t) \/ Grant(t) \/ LoggedIn(t) \/ LoginFails(t)
  BY <1>1 DEF Start, GetToken, GetTokenLocked, Grant, LoggedIn, LoginFails, Carry, Move, Finish
<1>2. CASE Answer(t) \/ Fault(t) \/ Refuse(t) \/ Refused(t) \/ Invalidate(t)
  BY <1>2 DEF Answer, Fault, Refuse, Refused, Invalidate, Finish, Retry
<1> QED BY <1>1, <1>2 DEF Progress

(* A task that joins a queue it is not in is in it once, as the last.      *)
LEMMA AppendOnce ==
  ASSUME NEW S, NEW s \in Seq(S), NEW x \in S,
         \A i, j \in DOMAIN s : s[i] = s[j] => i = j,
         ~\E i \in DOMAIN s : s[i] = x
  PROVE  /\ \A i, j \in DOMAIN Append(s, x) : Append(s, x)[i] = Append(s, x)[j] => i = j
         /\ \A y \in S : (\E i \in DOMAIN Append(s, x) : Append(s, x)[i] = y)
                         <=> y = x \/ \E i \in DOMAIN s : s[i] = y
<1>1. /\ Len(s) \in Nat /\ DOMAIN s = 1..Len(s) /\ DOMAIN Append(s, x) = 1..(Len(s) + 1)
      /\ \A i \in 1..Len(s) : Append(s, x)[i] = s[i]
      /\ Append(s, x)[Len(s) + 1] = x
  OBVIOUS
<1>2. \A i \in DOMAIN Append(s, x) : i \in DOMAIN s \/ i = Len(s) + 1
  BY <1>1
<1>3. DOMAIN s \subseteq DOMAIN Append(s, x) /\ Len(s) + 1 \in DOMAIN Append(s, x)
  BY <1>1
<1> QED BY <1>1, <1>2, <1>3

(* When the head leaves a queue without repetitions, only it has left.     *)
LEMMA TailLeaves ==
  ASSUME NEW S, NEW s \in Seq(S), s # <<>>,
         \A i, j \in DOMAIN s : s[i] = s[j] => i = j
  PROVE  /\ \A i, j \in DOMAIN Tail(s) : Tail(s)[i] = Tail(s)[j] => i = j
         /\ \A y \in S : (\E i \in DOMAIN Tail(s) : Tail(s)[i] = y)
                         <=> y # Head(s) /\ \E i \in DOMAIN s : s[i] = y
<1>1. /\ Len(s) \in Nat \ {0} /\ DOMAIN s = 1..Len(s) /\ DOMAIN Tail(s) = 1..(Len(s) - 1)
      /\ \A i \in 1..(Len(s) - 1) : Tail(s)[i] = s[i + 1]
      /\ Head(s) = s[1]
  BY EmptySeq, HeadTailProperties
<1>2. \A i \in DOMAIN Tail(s) : i + 1 \in DOMAIN s /\ i + 1 # 1 /\ Tail(s)[i] = s[i + 1]
  BY <1>1
<1>3. \A i \in DOMAIN s : i # 1 => i - 1 \in DOMAIN Tail(s) /\ Tail(s)[i - 1] = s[i]
  BY <1>1
<1>4. ASSUME NEW i \in DOMAIN Tail(s), NEW j \in DOMAIN Tail(s), Tail(s)[i] = Tail(s)[j]
      PROVE  i = j
  <2>1. i + 1 = j + 1
    BY <1>2, <1>4
  <2> QED BY <1>1, <2>1
<1>5. ASSUME NEW y \in S
      PROVE  (\E i \in DOMAIN Tail(s) : Tail(s)[i] = y)
               <=> y # Head(s) /\ \E i \in DOMAIN s : s[i] = y
  <2>1. 1 \in DOMAIN s
    BY <1>1
  <2>2. ASSUME NEW i \in DOMAIN Tail(s), Tail(s)[i] = y
        PROVE  y # Head(s) /\ \E j \in DOMAIN s : s[j] = y
    BY <1>1, <1>2, <2>1, <2>2
  <2>3. ASSUME y # Head(s), NEW j \in DOMAIN s, s[j] = y
        PROVE  \E i \in DOMAIN Tail(s) : Tail(s)[i] = y
    BY <1>1, <1>3, <2>3
  <2> QED BY <2>2, <2>3
<1> QED BY <1>4, <1>5

(* The lock and the calls stay in step when one task moves: it stays where *)
(* it waits or does not, it joins the queue, or it leaves it as its head.  *)
LEMMA QueueMoves ==
  ASSUME lock \in Seq(Tasks), QueueInv, NEW t \in Tasks,
         \A u \in Tasks \ {t} : call'[u] = call[u],
         \/ UNCHANGED lock /\ (call'[t].at \in Queued <=> call[t].at \in Queued)
         \/ Acquire(t) /\ call[t].at \notin Queued /\ call'[t].at \in Queued
         \/ Release /\ Holds(t) /\ call'[t].at \notin Queued
  PROVE  QueueInv'
<1>1. CASE UNCHANGED lock /\ (call'[t].at \in Queued <=> call[t].at \in Queued)
  BY <1>1 DEF QueueInv
<1>2. CASE Acquire(t) /\ call[t].at \notin Queued /\ call'[t].at \in Queued
  <2>1. ~\E i \in DOMAIN lock : lock[i] = t
    BY <1>2 DEF QueueInv
  <2>2. /\ \A i, j \in DOMAIN lock' : lock'[i] = lock'[j] => i = j
        /\ \A u \in Tasks : (\E i \in DOMAIN lock' : lock'[i] = u)
                            <=> u = t \/ \E i \in DOMAIN lock : lock[i] = u
    BY <1>2, <2>1, AppendOnce DEF Acquire, QueueInv
  <2> QED BY <1>2, <2>2 DEF QueueInv
<1>3. CASE Release /\ Holds(t) /\ call'[t].at \notin Queued
  <2>1. /\ \A i, j \in DOMAIN lock' : lock'[i] = lock'[j] => i = j
        /\ \A u \in Tasks : (\E i \in DOMAIN lock' : lock'[i] = u)
                            <=> u # t /\ \E i \in DOMAIN lock : lock[i] = u
    BY <1>3, TailLeaves DEF Release, Holds, QueueInv
  <2> QED BY <1>3, <2>1 DEF QueueInv
<1> QED BY <1>1, <1>2, <1>3

(* Every step keeps the queue and the calls in step.                       *)
LEMMA QueueStep == SharedInv /\ QueueInv /\ [Next]_transport => QueueInv'
<1> SUFFICES ASSUME SharedInv, QueueInv, [Next]_transport PROVE QueueInv'
  OBVIOUS
<1>1. CASE Expire \/ Revoke \/ UNCHANGED transport
  BY <1>1 DEF Expire, Revoke, transport, QueueInv
<1>2. ASSUME NEW t \in Tasks, Start(t) \/ Progress(t) PROVE QueueInv'
  <2>1. lock \in Seq(Tasks) /\ call \in [Tasks -> Call]
    BY DEF SharedInv
  <2>2. \A u \in Tasks \ {t} : call'[u] = call[u]
    BY <1>2, <2>1, OthersKeepTheirCall
  <2>3. CASE Start(t)
    <3>1. UNCHANGED lock /\ call'[t].at \notin Queued /\ call[t].at \notin Queued
      BY <2>1, <2>3 DEF Start, At, Queued, NewCall
    <3> QED BY <2>1, <2>2, <3>1, QueueMoves
  <2>4. CASE GetToken(t)
    <3>1. call[t].at \notin Queued
      BY <2>4 DEF GetToken, At, Queued
    <3>2. \/ UNCHANGED lock /\ call'[t].at \notin Queued
          \/ Acquire(t) /\ call'[t].at \in Queued
      BY <2>1, <2>4 DEF GetToken, Carry, Move, Queued, Call
    <3> QED BY <2>1, <2>2, <3>1, <3>2, QueueMoves
  <2>5. CASE GetTokenLocked(t)
    <3>1. call[t].at \in Queued /\ Holds(t)
      BY <2>5 DEF GetTokenLocked, At, Queued
    <3>2. \/ UNCHANGED lock /\ call'[t].at \in Queued
          \/ Release /\ call'[t].at \notin Queued
      BY <2>1, <2>5 DEF GetTokenLocked, Carry, Move, Queued, Call
    <3> QED BY <2>1, <2>2, <3>1, <3>2, QueueMoves
  <2>6. CASE Grant(t)
    <3>1. UNCHANGED lock /\ call'[t].at \in Queued /\ call[t].at \in Queued
      BY <2>1, <2>6 DEF Grant, At, Queued
    <3> QED BY <2>1, <2>2, <3>1, QueueMoves
  <2>7. CASE LoggedIn(t) \/ LoginFails(t)
    <3>1. Holds(t)
      BY <2>7 DEF LoggedIn, LoginFails, At, SharedInv, LoggingIn
    <3>2. Release
      BY <2>7 DEF LoggedIn, LoginFails
    <3>3. call[t] \in Call /\ (Move(t, "request") \/ \E o \in Outcome : Finish(t, o))
      BY <2>1, <2>7 DEF LoggedIn, LoginFails, Outcome
    <3>4. call'[t].at \notin Queued
      BY <2>1, <3>3 DEF Move, Finish, Queued, Call
    <3> QED BY <2>1, <2>2, <3>1, <3>2, <3>4, QueueMoves
  <2>8. CASE Answer(t) \/ Fault(t) \/ Refuse(t)
    <3>1. UNCHANGED lock /\ call'[t].at \notin Queued /\ call[t].at \notin Queued
      BY <2>1, <2>8 DEF Answer, Fault, Refuse, At, Finish, Retry, Queued, Call
    <3> QED BY <2>1, <2>2, <3>1, QueueMoves
  <2>9. CASE Refused(t)
    <3>1. call[t].at \notin Queued
      BY <2>9 DEF Refused, At, Queued
    <3>2. \/ UNCHANGED lock /\ call'[t].at \notin Queued
          \/ Acquire(t) /\ call'[t].at \in Queued
      BY <2>1, <2>9 DEF Refused, Finish, Queued, Call
    <3> QED BY <2>1, <2>2, <3>1, <3>2, QueueMoves
  <2>10. CASE Invalidate(t)
    <3>1. Holds(t) /\ Release /\ call'[t].at \notin Queued
      BY <2>1, <2>10 DEF Invalidate, Retry, Finish, Queued, Call
    <3> QED BY <2>1, <2>2, <3>1, QueueMoves
  <2> QED BY <1>2, <2>3, <2>4, <2>5, <2>6, <2>7, <2>8, <2>9, <2>10 DEF Progress
<1> QED BY <1>1, <1>2 DEF Next

(* The accepted tokens stay issued ones.                                   *)
LEMMA AcceptedStep == SharedInv /\ AcceptedInv /\ [Next]_transport => AcceptedInv'
<1> SUFFICES ASSUME SharedInv, AcceptedInv, [Next]_transport PROVE AcceptedInv'
  OBVIOUS
<1>1. issued \in Nat
  BY TransportAssumption DEF SharedInv
<1>2. CASE Expire \/ Revoke \/ UNCHANGED transport
  BY <1>2 DEF Expire, Revoke, transport, AcceptedInv
<1>3. ASSUME NEW t \in Tasks, Grant(t) PROVE AcceptedInv'
  BY <1>1, <1>3 DEF Grant, AcceptedInv
<1>4. ASSUME NEW t \in Tasks, LoggedIn(t) \/ Invalidate(t) PROVE AcceptedInv'
  BY <1>4 DEF LoggedIn, Invalidate, AcceptedInv
<1>5. ASSUME NEW t \in Tasks,
             \/ Start(t) \/ GetToken(t) \/ GetTokenLocked(t) \/ LoginFails(t)
             \/ Answer(t) \/ Fault(t) \/ Refuse(t) \/ Refused(t)
      PROVE  AcceptedInv'
  BY <1>5 DEF Start, GetToken, GetTokenLocked, LoginFails, Answer, Fault, Refuse, Refused,
              AcceptedInv
<1> QED BY <1>2, <1>3, <1>4, <1>5 DEF Next, Progress

(* A step that caches no token and starts no answer to a login: what is    *)
(* left to show is about the task that moves.                              *)
LEMMA RefusalMoves ==
  ASSUME RefusalInv, NEW t \in Tasks,
         \A u \in Tasks \ {t} : call'[u] = call[u],
         UNCHANGED <<token, issued>>,
         call'[t].at # "granted",
         RefusalOf(call[t])',
         Renewed(call'[t]) => Renewed(call[t]) /\ call'[t].refused = call[t].refused
  PROVE  RefusalInv'
<1>1. \A u \in Tasks : RefusalOf(call[u])'
  BY DEF RefusalInv, RefusalOf
<1>2. ASSUME NEW u \in Tasks, Renewed(call'[u]) PROVE NewTokensFor(call[u])'
  <2>1. Renewed(call[u]) /\ call'[u].refused = call[u].refused
    BY <1>2
  <2>2. \A v \in Tasks : call'[v].at = "granted" => call'[v] = call[v]
    OBVIOUS
  <2> QED BY <2>1, <2>2 DEF RefusalInv, NewTokensFor
<1> QED BY <1>1, <1>2 DEF RefusalInv, Renewed

(* Every step keeps the refused tokens out of the way of those to come.    *)
LEMMA RefusalStep == SharedInv /\ AcceptedInv /\ RefusalInv /\ [Next]_transport => RefusalInv'
<1> SUFFICES ASSUME SharedInv, AcceptedInv, RefusalInv, [Next]_transport PROVE RefusalInv'
  OBVIOUS
<1>1. CASE Expire \/ Revoke \/ UNCHANGED transport
  BY <1>1 DEF Expire, Revoke, transport, RefusalInv, RefusalOf, Renewed, NewTokensFor
<1>2. ASSUME NEW t \in Tasks, Start(t) \/ Progress(t) PROVE RefusalInv'
  <2> DEFINE c == call[t]
  <2>1. call \in [Tasks -> Call] /\ c \in Call /\ issued \in Nat
    BY TransportAssumption DEF SharedInv
  <2>2. \A u \in Tasks \ {t} : call'[u] = call[u]
    BY <1>2, <2>1, OthersKeepTheirCall
  <2>3. RefusalOf(c) /\ (Renewed(c) => NewTokensFor(c))
    BY DEF RefusalInv
  <2>4. Usable => token \in 1..issued
    BY TransportAssumption DEF SharedInv, TokenIsNewest, Usable, NoToken
  <2>5. ASSUME NEW o \in Outcome \ {"unauthorized"}, Finish(t, o), UNCHANGED <<token, issued>>
        PROVE  RefusalInv'
    <3>1. /\ call'[t].at = "idle" /\ call'[t].outcome # "unauthorized"
          /\ call'[t].refused = c.refused
      BY <2>1, <2>5 DEF Finish, Call
    <3>2. RefusalOf(call[t])' /\ ~Renewed(call'[t])
      BY <2>3, <2>5, <3>1 DEF RefusalOf, Renewed
    <3> QED BY <2>2, <2>5, <3>1, <3>2, RefusalMoves
  <2>6. ASSUME Carry(t), Usable, c.at \in {"auth", "lock"}, UNCHANGED <<token, issued>>
        PROVE  RefusalInv'
    <3>1. /\ call'[t].at = "request" /\ call'[t].header = token
          /\ call'[t].refused = c.refused /\ call'[t].outcome = c.outcome
          /\ call'[t].reauthed = c.reauthed
      BY <2>1, <2>6 DEF Carry, Call
    <3>2. Renewed(c) <=> c.reauthed
      BY <2>6 DEF Renewed
    <3>3. token \notin c.refused
      BY <2>3, <2>6, <3>2 DEF RefusalOf, NewTokensFor
    <3>4. RefusalOf(call[t])'
      BY <2>3, <2>4, <2>6, <3>1, <3>3 DEF RefusalOf
    <3>5. Renewed(call'[t]) => Renewed(call[t])
      BY <3>1, <3>2 DEF Renewed
    <3> QED BY <2>2, <2>6, <3>1, <3>4, <3>5, RefusalMoves
  <2>7. ASSUME NEW p \in {"lock", "login"}, Move(t, p), c.at \in {"auth", "lock"},
               UNCHANGED <<token, issued>>
        PROVE  RefusalInv'
    <3>1. /\ call'[t].at = p /\ call'[t].refused = c.refused
          /\ call'[t].outcome = c.outcome /\ call'[t].reauthed = c.reauthed
      BY <2>1, <2>7 DEF Move, Call
    <3>2. RefusalOf(call[t])'
      BY <2>3, <2>7, <3>1 DEF RefusalOf
    <3>3. Renewed(call'[t]) => Renewed(call[t])
      BY <2>7, <3>1 DEF Renewed
    <3> QED BY <2>2, <2>7, <3>1, <3>2, <3>3, RefusalMoves
  <2>8. CASE Start(t)
    <3>1. call'[t] = NewCall /\ UNCHANGED <<token, issued>>
      BY <2>1, <2>8 DEF Start
    <3>2. RefusalOf(call[t])' /\ ~Renewed(call'[t]) /\ call'[t].at # "granted"
      BY <3>1 DEF RefusalOf, Renewed, NewCall
    <3> QED BY <2>2, <3>1, <3>2, RefusalMoves
  <2>9. CASE GetToken(t)
    BY <2>6, <2>7, <2>9 DEF GetToken, At
  <2>10. CASE GetTokenLocked(t)
    BY <2>6, <2>7, <2>10 DEF GetTokenLocked, At
  <2>11. CASE Answer(t) \/ LoginFails(t)
    BY <2>5, <2>11 DEF Answer, LoginFails, Outcome
  <2>12. CASE Refuse(t)
    <3>1. /\ call'[t].at = "refused" /\ call'[t].header = c.header
          /\ call'[t].refused = c.refused \cup {c.header}
          /\ call'[t].outcome = c.outcome /\ call'[t].reauthed = c.reauthed
      BY <2>1, <2>12 DEF Refuse, Call
    <3>2. UNCHANGED <<token, issued>> /\ c.at = "request"
      BY <2>12 DEF Refuse, At
    <3>3. RefusalOf(call[t])'
      BY <2>3, <3>1, <3>2 DEF RefusalOf
    <3>4. ~Renewed(call'[t])
      BY <3>1 DEF Renewed
    <3> QED BY <2>2, <3>1, <3>2, <3>3, <3>4, RefusalMoves
  <2>13. CASE Refused(t)
    <3>1. UNCHANGED <<token, issued>> /\ c.at = "refused"
      BY <2>13 DEF Refused, At
    <3>2. CASE ~c.reauthed
      <4>1. /\ call'[t].at = "invalidate" /\ call'[t].refused = c.refused
            /\ call'[t].outcome = c.outcome /\ call'[t].reauthed
        BY <2>1, <2>13, <3>2 DEF Refused, Call
      <4>2. RefusalOf(call[t])'
        BY <2>3, <3>1, <3>2, <4>1 DEF RefusalOf
      <4>3. ~Renewed(call'[t])
        BY <4>1 DEF Renewed
      <4> QED BY <2>2, <3>1, <4>1, <4>2, <4>3, RefusalMoves
    <3>3. CASE c.reauthed
      <4>1. /\ call'[t].at = "idle" /\ call'[t].refused = c.refused
        BY <2>1, <2>13, <3>3 DEF Refused, Finish, Call
      <4>2. \E r, s \in 1..issued : r # s /\ c.refused = {r, s}
        BY <2>3, <3>1, <3>3 DEF RefusalOf
      <4>3. RefusalOf(call[t])'
        BY <2>3, <3>1, <4>1, <4>2 DEF RefusalOf
      <4>4. ~Renewed(call'[t])
        BY <4>1 DEF Renewed
      <4> QED BY <2>2, <3>1, <4>1, <4>3, <4>4, RefusalMoves
    <3> QED BY <3>2, <3>3
  <2>14. CASE Fault(t)
    <3>1. UNCHANGED <<token, issued>> /\ c.at = "request"
      BY <2>14 DEF Fault, At
    <3>2. CASE Finish(t, "failed") \/ Finish(t, "exhausted")
      BY <2>5, <3>1, <3>2 DEF Outcome
    <3>3. CASE call' = [call EXCEPT ![t].at = "auth", ![t].tries = @ + 1]
      <4>1. /\ call'[t].at = "auth" /\ call'[t].refused = c.refused
            /\ call'[t].outcome = c.outcome /\ call'[t].reauthed = c.reauthed
        BY <2>1, <3>3 DEF Call
      <4>2. RefusalOf(call[t])'
        BY <2>3, <3>1, <4>1 DEF RefusalOf
      <4>3. Renewed(call'[t]) => Renewed(call[t])
        BY <3>1, <4>1 DEF Renewed
      <4> QED BY <2>2, <3>1, <4>1, <4>2, <4>3, RefusalMoves
    <3> QED BY <2>14, <3>2, <3>3 DEF Fault, Retry
  <2>15. CASE Grant(t)
    <3>1. /\ call'[t].at = "granted" /\ call'[t].header = issued + 1
          /\ call'[t].refused = c.refused /\ call'[t].outcome = c.outcome
          /\ call'[t].reauthed = c.reauthed
      BY <2>1, <2>15 DEF Grant, Call
    <3>2. c.at = "login" /\ token' = token /\ issued' = issued + 1
      BY <2>15 DEF Grant, At
    <3>3. \A u \in Tasks : /\ call'[u].refused = call[u].refused
                           /\ Renewed(call'[u]) => Renewed(call[u])
      BY <2>2, <3>1, <3>2 DEF Renewed
    <3>4. \A n \in 1..issued : n \in 1..(issued + 1) /\ n # issued + 1
      BY <2>1
    <3>5. RefusalOf(call[t])'
      BY <2>1, <2>3, <3>1, <3>2, <3>4 DEF RefusalOf
    <3>6. \A u \in Tasks \ {t} : RefusalOf(call[u])'
      BY <2>2, <3>2, <3>4 DEF RefusalInv, RefusalOf
    <3>7. ASSUME NEW u \in Tasks, Renewed(call'[u]) PROVE NewTokensFor(call[u])'
      <4>1. call[u].refused \subseteq 1..issued /\ NewTokensFor(call[u])
        BY <3>3, <3>7 DEF RefusalInv, RefusalOf
      <4>2. \A v \in Tasks : call'[v].at = "granted" => call'[v].header \notin call[u].refused
        BY <2>2, <3>1, <3>4, <4>1 DEF NewTokensFor
      <4> QED BY <3>2, <3>3, <4>1, <4>2 DEF NewTokensFor
    <3> QED BY <3>5, <3>6, <3>7 DEF RefusalInv, Renewed
  <2>16. CASE LoggedIn(t)
    <3>1. /\ call'[t].at = "request" /\ call'[t].header = c.header
          /\ call'[t].refused = c.refused /\ call'[t].outcome = c.outcome
          /\ call'[t].reauthed = c.reauthed
      BY <2>1, <2>16 DEF LoggedIn, Move, Call
    <3>2. c.at = "granted" /\ token' = c.header /\ issued' = issued
      BY <2>16 DEF LoggedIn, At
    <3>3. \A u \in Tasks : /\ call'[u].refused = call[u].refused
                           /\ Renewed(call'[u]) => Renewed(call[u])
      BY <2>2, <3>1, <3>2 DEF Renewed
    <3>4. c.header \notin c.refused
      BY <2>3, <3>2 DEF RefusalOf, Renewed, NewTokensFor
    <3>5. RefusalOf(call[t])'
      BY <2>3, <3>1, <3>2, <3>4 DEF RefusalOf
    <3>6. \A u \in Tasks \ {t} : RefusalOf(call[u])'
      BY <2>2, <3>2 DEF RefusalInv, RefusalOf
    <3>7. ASSUME NEW u \in Tasks, Renewed(call'[u]) PROVE NewTokensFor(call[u])'
      <4>1. NewTokensFor(call[u])
        BY <3>3, <3>7 DEF RefusalInv
      <4>2. \A v \in Tasks : call'[v].at = "granted" => call'[v].header \notin call[u].refused
        BY <2>2, <3>1, <4>1 DEF NewTokensFor
      <4> QED BY <3>2, <3>3, <4>1, <4>2 DEF NewTokensFor
    <3> QED BY <3>5, <3>6, <3>7 DEF RefusalInv, Renewed
  <2>17. CASE Invalidate(t)
    <3>1. /\ call'[t].at \in {"auth", "idle"} /\ call'[t].refused = c.refused
          /\ call'[t].outcome \in {c.outcome, "exhausted"} /\ call'[t].reauthed = c.reauthed
          /\ call'[t].at = "auth" => call'[t].outcome = c.outcome
      BY <2>1, <2>17 DEF Invalidate, Retry, Finish, Call
    <3>2. c.at = "invalidate" /\ token' = NoToken /\ issued' = issued
      BY <2>17 DEF Invalidate, At
    <3>3. \A u \in Tasks : call[u].at # "granted"
      BY <2>17, <3>2 DEF Invalidate, SharedInv, LoggingIn, Holds
    <3>4. \A u \in Tasks : call'[u].at # "granted"
      BY <2>2, <3>1, <3>3
    <3>5. RefusalOf(call[t])'
      BY <2>3, <3>1, <3>2 DEF RefusalOf
    <3>6. \A u \in Tasks \ {t} : RefusalOf(call[u])'
      BY <2>2, <3>2 DEF RefusalInv, RefusalOf
    <3>7. ASSUME NEW u \in Tasks PROVE NewTokensFor(call[u])'
      BY <3>2, <3>4, <3>5, <3>6, TransportAssumption
         DEF NewTokensFor, RefusalOf, SharedInv, NoToken
    <3> QED BY <3>5, <3>6, <3>7 DEF RefusalInv, Renewed
  <2> HIDE DEF c
  <2> QED BY <1>2, <2>8, <2>9, <2>10, <2>11, <2>12, <2>13, <2>14, <2>15, <2>16, <2>17 DEF Progress
<1> QED BY <1>1, <1>2 DEF Next

(* The four invariants, together inductive.                                *)
TransportInv == SharedInv /\ QueueInv /\ AcceptedInv /\ RefusalInv

(* They hold in every state of the transport.                              *)
LEMMA TransportAlways == TransportSpec => []TransportInv
<1>1. Init => TransportInv
  BY SharedInit, QueueInit DEF TransportInv
<1>2. TransportInv /\ [Next]_transport => TransportInv'
  BY SharedStep, QueueStep, AcceptedStep, RefusalStep DEF TransportInv
<1> QED BY <1>1, <1>2, PTL DEF TransportSpec

(* Every variable keeps its shape, and the lock's queue holds the calls    *)
(* that wait for it or hold it, once each: no call that left it stays      *)
(* behind in it, and none waits without being in it.                       *)
THEOREM TransportTypeCorrect == TransportSpec => []TransportTypeOK
<1>1. 0..MaxTokens = Tokens \cup {NoToken}
  BY TransportAssumption DEF Tokens, NoToken
<1>2. TransportInv => TransportTypeOK
  BY <1>1 DEF TransportInv, SharedInv, QueueInv, AcceptedInv, Queued, TransportTypeOK
<1> QED BY <1>2, TransportAlways, PTL

(* A call gives up with 401 only after two different tokens were refused:  *)
(* the one it had and one from a login after its invalidation.             *)
THEOREM UnauthorizedAfterTwoTokens == TransportSpec => []RefusedWithTwoTokens
<1>1. ASSUME NEW r, NEW s, r # s PROVE Cardinality({r, s}) = 2
  <2>1. IsFiniteSet({s}) /\ Cardinality({s}) = 1
    BY FS_Singleton
  <2>2. Cardinality({s} \cup {r}) = 2
    BY <1>1, <2>1, FS_AddElement
  <2>3. {r, s} = {s} \cup {r}
    OBVIOUS
  <2> QED BY <2>2, <2>3
<1>2. RefusalInv => RefusedWithTwoTokens
  <2> SUFFICES ASSUME RefusalInv, NEW t \in Tasks, call[t].outcome = "unauthorized"
               PROVE  Cardinality(call[t].refused) = 2
    BY DEF RefusedWithTwoTokens
  <2>1. PICK r, s \in 1..issued : r # s /\ call[t].refused = {r, s}
    BY DEF RefusalInv, RefusalOf
  <2>2. Cardinality({r, s}) = 2
    BY <1>1, <2>1
  <2> QED BY <2>1, <2>2
<1>3. TransportInv => RefusedWithTwoTokens
  BY <1>2 DEF TransportInv
<1> QED BY <1>3, TransportAlways, PTL
=============================================================================
