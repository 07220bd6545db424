-------------------------------- MODULE Auth --------------------------------
(***************************************************************************)
(* Digest authentication of one phone, over a network that loses, delays   *)
(* and reorders.  The server remembers nothing of a challenge: all it      *)
(* checks is inside the nonce.  401 and 200 are sent without a transaction *)
(* (empbx_reply), so that a request retransmitted after them is handled    *)
(* anew; 403, 404 and 500 go through one (sip_treply), which repeats them. *)
(***************************************************************************)
EXTENDS Naturals, FiniteSets

CONSTANTS
  Methods,   \* REGISTER, INVITE
  Addrs,     \* addresses the phone may have
  Lifetime,  \* AUTH_NONCE_LIFETIME_SEC
  Skew,      \* how far the clock of the server may be set
  MaxNet,    \* bound: messages on their way at which none is sent again
  Null

ASSUME AuthAssumption ==
  /\ Lifetime \in Nat /\ Skew \in Nat /\ MaxNet \in Nat
  /\ Methods \subseteq {"REGISTER", "INVITE"} /\ Null \notin Addrs

VARIABLES
  account,     \* of the phone, in the configuration of the server
  registered,  \* the server has a registration of the phone
  trans,       \* server transactions, with the answer each repeats
  off,         \* the clock of the server, against the true time
  addr,        \* address of the phone
  cache,       \* the nonce it was last given
  sent, n,     \* the request it waits on, and the number of its transaction
  net,         \* messages on their way
  first        \* history: the first answer to request n since the server started

phone == <<addr, cache, sent, n>>
authVars == <<account, registered, trans, off, phone, net, first>>

Old == Lifetime + Skew + 1   \* an age at which no clock makes a nonce valid

\* A nonce is a digest of the time, the source address and the realm, which a
\* phone does not change, with the time appended.  The digest is kept by what
\* goes into it, the time by the true age and the clock of the server then.
NonceT == [age : 0 .. Old, off : 0 .. Skew, src : Addrs]
\* The password of the phone is right, wrong (so is that of a phone without an
\* account, for every answer it gets), or not asked for.
Accounts == {"right", "wrong", "open"}
Codes == {200, 401, 403, 404, 500}
Request == [n : {0, 1}, met : Methods, src : Addrs, nonce : NonceT \cup {Null}]
Response == [n : {0, 1}, code : Codes, dst : Addrs, nonce : NonceT \cup {Null}]
IsRequest(m) == "met" \in DOMAIN m

ASSUME NullAssumption == Null \notin NonceT \cup Request

AuthTypeOK ==
  /\ account \in Accounts
  /\ registered \in BOOLEAN
  /\ trans \subseteq [n : {0, 1}, code : Codes]
  /\ off \in 0 .. Skew
  /\ addr \in Addrs /\ cache \in NonceT \cup {Null}
  /\ sent \in Request \cup {Null} /\ n \in {0, 1}
  /\ net \subseteq Request \cup Response
  /\ first \in Codes \cup {0}

AuthInit ==
  /\ account \in Accounts
  /\ registered = FALSE /\ trans = {} /\ off = 0
  /\ addr \in Addrs /\ cache = Null /\ sent = Null /\ n = 0
  /\ net = {} /\ first = 0

-----------------------------------------------------------------------------
(***************************************************************************)
(* Time, network and phone.                                                *)
(***************************************************************************)
Older(x) ==
  IF x = Null \/ x.age = Old THEN x ELSE [x EXCEPT !.age = @ + 1]

Tick ==
  /\ cache' = Older(cache)
  /\ sent' = IF sent = Null THEN Null ELSE [sent EXCEPT !.nonce = Older(@)]
  /\ net' = {[m EXCEPT !.nonce = Older(@)] : m \in net}
  /\ UNCHANGED <<account, registered, trans, off, addr, n, first>>

\* The clock of the server is set, forward or back.
ClockSet(o) ==
  off' = o /\ UNCHANGED <<account, registered, trans, phone, net, first>>

Lose(m) ==
  /\ m \in net /\ net' = net \ {m}
  /\ UNCHANGED <<account, registered, trans, off, phone, first>>

\* A new transaction.  Two numbers are used in turn: a message outlives its
\* own transaction, but not the next.
Send(met) ==
  LET k == 1 - n IN
    /\ sent = Null
    /\ n' = k /\ first' = 0
    /\ sent' = [n |-> k, met |-> met, src |-> addr, nonce |-> cache]
    /\ net' = {m \in net : m.n # k} \cup {sent'}
    /\ trans' = {x \in trans : x.n # k}
    /\ UNCHANGED <<account, registered, off, addr, cache>>

Retransmit ==
  /\ sent # Null /\ Cardinality(net) < MaxNet
  /\ sent' = [sent EXCEPT !.src = addr]
  /\ net' = net \cup {sent'}
  /\ UNCHANGED <<account, registered, trans, off, addr, cache, n, first>>

GiveUp ==
  /\ sent # Null /\ sent' = Null
  /\ UNCHANGED <<account, registered, trans, off, addr, cache, n, net, first>>

\* A refused phone starts over, without a nonce; a challenged one tries again.
Receive(r) ==
  /\ r \in net /\ ~IsRequest(r) /\ r.dst = addr /\ net' = net \ {r}
  /\ IF sent # Null /\ r.n = n
     THEN /\ sent' = Null
          /\ cache' = CASE r.code = 401 -> r.nonce
                        [] r.code = 403 -> Null
                        [] OTHER -> cache
     ELSE UNCHANGED <<sent, cache>>
  /\ UNCHANGED <<account, registered, trans, off, addr, n, first>>

Move(a) ==
  /\ addr' = a
  /\ UNCHANGED <<account, registered, trans, off, cache, sent, n, net, first>>

-----------------------------------------------------------------------------
(***************************************************************************)
(* Server.                                                                 *)
(***************************************************************************)
\* Faulty variant: the time at which the nonce was issued is not looked at.
ValidForEver(m) == m.nonce.src = m.src

\* Faulty variant: a nonce issued within the same second is refused.
CheckNonceLater(m) ==
  /\ m.nonce.age + off <= Lifetime + m.nonce.off /\ m.nonce.age > 0
  /\ m.nonce.src = m.src

\* The nonce is not older than its lifetime, on the clock of the server, and
\* comes out the same when it is computed again for this request.
check_nonce(m) ==
  /\ m.nonce.age + off <= Lifetime + m.nonce.off
  /\ m.nonce.src = m.src

challenge_check(m) == account = "right" /\ check_nonce(m)

Answer(m, code, nonce) ==
  /\ net' = (net \ {m})
              \cup {[n |-> m.n, code |-> code, dst |-> m.src, nonce |-> nonce]}
  /\ first' = IF m.n = n /\ first = 0 THEN code ELSE first

Stateless(m, code, nonce) == Answer(m, code, nonce) /\ UNCHANGED trans

InTransaction(m, code) ==
  /\ Answer(m, code, Null)
  /\ trans' = trans \cup {[n |-> m.n, code |-> code]}

Same == UNCHANGED <<account, off, phone>>

\* A request that the handler gets: no transaction takes it for itself.
Arrives(m) == m \in net /\ IsRequest(m) /\ \A x \in trans : x.n # m.n

Repeat(m, x) ==
  /\ m \in net /\ IsRequest(m) /\ x \in trans /\ x.n = m.n
  /\ Answer(m, x.code, Null)
  /\ UNCHANGED <<registered, trans>> /\ Same

TransactionEnd(x) ==
  /\ x \in trans /\ (sent # Null => x.n # n)
  /\ trans' = trans \ {x}
  /\ UNCHANGED <<account, registered, off, phone, net, first>>

\* The caller of an INVITE must be registered first.
Challenged(m) ==
  /\ Arrives(m) /\ account # "open" /\ m.nonce = Null
  /\ m.met = "INVITE" => registered

challenge_start(m) ==
  /\ Challenged(m)
  /\ Stateless(m, 401, [age |-> 0, off |-> off, src |-> m.src])
  /\ UNCHANGED registered /\ Same

ChallengeFail(m) ==
  Challenged(m) /\ InTransaction(m, 500) /\ UNCHANGED registered /\ Same

Passed(m) ==
  Arrives(m) /\ (account = "open" \/ (m.nonce # Null /\ challenge_check(m)))

\* The registration is made or brought up to date, or that fails.
Accept(m) ==
  /\ Passed(m) /\ m.met = "REGISTER"
  /\ Stateless(m, 200, Null) /\ registered' = TRUE /\ Same

AcceptFail(m) ==
  /\ Passed(m) /\ m.met = "REGISTER"
  /\ InTransaction(m, 500) /\ UNCHANGED registered /\ Same

\* ua_accept: the call goes to the session layer, and is taken there.
AcceptCall(m) ==
  /\ Passed(m) /\ m.met = "INVITE" /\ registered
  /\ InTransaction(m, 200) /\ UNCHANGED registered /\ Same

\* The UA of the registration does not take the call.
WrongOrigin(m) ==
  /\ Passed(m) /\ m.met = "INVITE" /\ registered
  /\ InTransaction(m, 403) /\ UNCHANGED registered /\ Same

NotFound(m) ==
  /\ Arrives(m) /\ m.met = "INVITE" /\ ~registered
  /\ InTransaction(m, 404) /\ UNCHANGED registered /\ Same

\* Faulty variant: the refusal is sent without a transaction.
RefuseStateless(m) ==
  /\ Arrives(m) /\ m.nonce # Null /\ ~Passed(m)
  /\ m.met = "INVITE" => registered
  /\ Stateless(m, 403, Null) /\ UNCHANGED registered /\ Same

\* Also for a nonce that is only too old: there is no second challenge.
Refuse(m) ==
  /\ Arrives(m) /\ m.nonce # Null /\ ~Passed(m)
  /\ m.met = "INVITE" => registered
  /\ InTransaction(m, 403) /\ UNCHANGED registered /\ Same

RegistrationLost ==
  /\ registered /\ registered' = FALSE
  /\ UNCHANGED <<account, trans, off, phone, net, first>>

\* The server starts again, perhaps with another configuration.
Restart(a) ==
  /\ account' = a /\ registered' = FALSE /\ trans' = {} /\ first' = 0
  /\ UNCHANGED <<off, phone, net>>

-----------------------------------------------------------------------------
Serve(m) ==
  \/ challenge_start(m) \/ ChallengeFail(m) \/ Refuse(m)
  \/ Accept(m) \/ AcceptFail(m) \/ AcceptCall(m) \/ WrongOrigin(m)
  \/ NotFound(m) \/ \E x \in trans : Repeat(m, x)

Server ==
  \/ \E m \in net : Serve(m)
  \/ \E x \in trans : TransactionEnd(x)
  \/ RegistrationLost
  \/ \E a \in Accounts : Restart(a)
  \/ \E o \in 0 .. Skew : ClockSet(o)

Phone ==
  \/ \E met \in Methods : Send(met)
  \/ Retransmit \/ GiveUp
  \/ \E r \in net : Receive(r)
  \/ \E a \in Addrs : Move(a)

AuthNext == Tick \/ (\E m \in net : Lose(m)) \/ Server \/ Phone

AuthSpec == AuthInit /\ [][AuthNext]_authVars

\* The phone goes on registering, and its transactions end.  The network drops
\* what is too late.  What happens again and again in time, a challenge that
\* arrives, its answer sent, the answer handled with memory left, is not for
\* ever missed.
Stale(m) == m.n # n \/ sent = Null \/ (~IsRequest(m) /\ m.dst # addr)
Current(m) == sent # Null /\ m.n = n
InTime(x) == x # Null /\ x.age + off <= Lifetime + x.off

AuthFairness ==
  /\ SF_authVars(Send("REGISTER")) /\ SF_authVars(Send("REGISTER") /\ InTime(cache))
  /\ WF_authVars(GiveUp) /\ WF_authVars(\E x \in trans : TransactionEnd(x))
  /\ SF_authVars(\E m \in net : Stale(m) /\ Lose(m))
  /\ SF_authVars(\E m \in net : Current(m) /\ challenge_start(m))
  /\ SF_authVars(\E m \in net : Accept(m))
  /\ SF_authVars(\E m \in net : Current(m) /\ Refuse(m))
  /\ SF_authVars(\E r \in net : Current(r) /\ InTime(r.nonce) /\ Receive(r))
  /\ SF_authVars(\E r \in net : ~IsRequest(r) /\ Current(r) /\ r.code = 403 /\ Receive(r))

AuthFairSpec == AuthSpec /\ AuthFairness

-----------------------------------------------------------------------------
\* Properties.

\* Whatever the network delays and however the clock is set: a request is let
\* through only with a nonce the server issued to the address it comes from,
\* at most a lifetime and the skew of the clock ago.
AcceptedIsRecent(m) ==
  (Accept(m) \/ AcceptCall(m)) /\ account # "open" =>
    /\ account = "right" /\ m.nonce # Null
    /\ m.nonce.age <= Lifetime + Skew /\ m.nonce.src = m.src

\* A phone that knows its password, and answers from where it was challenged,
\* is refused only when its nonce is old.
RefusedIsOld(m) ==
  Refuse(m) /\ account = "right" =>
    m.nonce.age + Skew > Lifetime \/ m.nonce.src # m.src

NonceStep == \A m \in net : AcceptedIsRecent(m) /\ RefusedIsOld(m)
NonceDecides == [][NonceStep]_net

\* What has been refused is not accepted when the same request arrives again,
\* although by then the clock, or the address, may make its nonce valid.
RefusedStep ==
  sent # Null /\ first \notin {0, 200} =>
    \A m \in net : m.n = n => ~Accept(m) /\ ~AcceptCall(m)
RefusedStaysRefused == [][RefusedStep]_authVars

\* A phone that stays at its address, with the right password, does not stay
\* without a registration: a stale nonce costs it a refusal, no more.
Settled == <>[](account = "right") /\ <>[][addr' = addr]_authVars
RegistersAgain == Settled => []<>registered
=============================================================================
