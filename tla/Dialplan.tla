------------------------------ MODULE Dialplan ------------------------------
(***************************************************************************)
(* The way of an incoming call on the main thread: the number, the first   *)
(* rule of the dialplan that takes it, the application of the rule, and    *)
(* the destination the bridge makes of the data of the rule.  A rule, a    *)
(* number and a part of a destination between slashes are values; what an  *)
(* expression matches, which PCRE decides, is a part of the rule.          *)
(***************************************************************************)
EXTENDS Naturals, Sequences

CONSTANTS
  Parts,      \* of a destination, between slashes
  Numbers,    \* that are dialled
  Rules,      \* that may be configured
  MaxRules,   \* bound: rules in the dialplan
  Users,      \* that may be registered
  GatewayNames,   \* names of the configured gateways
  LikeUser,   \* parts other than "user" that end in it
  LikeGateway \* parts other than "gateway" that end in it

\* One substring takes three elements of the vector of 30 that PCRE fills.
MaxSubstrings == 10

Shapes == {"empty", "plain", "slashes", "ast", "unended", "broken"}
Rule == [field : STRING, shape : Shapes, text : STRING, match : SUBSET Numbers,
         groups : Nat, app : STRING, data : Seq(Parts)]

\* "gateway" does not end in "user".
ASSUME DialplanAssumption ==
  /\ MaxRules \in Nat /\ Numbers \cup {""} \subseteq Parts /\ Rules \subseteq Rule
  /\ "gateway" \notin LikeUser

VARIABLES
  rules,       \* global->dialplan_rules
  registered,  \* users with a registration
  app, refs,   \* the bridge is registered; references to it
  pc, from, number, k, dst,  \* the call being handled, locals of the handlers
  verdicts,    \* what has been done with the call
  target,      \* where a session was made to
  oom          \* history: memory was short while the rules were searched

local == <<from, number, k, dst>>
planVars == <<rules, registered, app, refs, pc, local, verdicts, target, oom>>

PlanTypeOK ==
  /\ rules \in Seq(Rules) /\ registered \subseteq Users
  /\ app \in BOOLEAN /\ refs \in Nat
  /\ pc \in {"start", "idle", "find", "app", "bridge", "release", "stopping", "stopped"}
  /\ from \in {"user", "gateway"} /\ number \in Numbers /\ k \in 1 .. MaxRules + 1
  /\ dst \in Seq(Parts)
  /\ verdicts \in Seq({"session", "404", "500", "603"})
  /\ target \in Seq(Parts) /\ oom \in BOOLEAN

PlanInit ==
  /\ rules \in UNION {[1 .. n -> Rules] : n \in 0 .. MaxRules}
  /\ registered = {} /\ app = FALSE /\ refs = 0 /\ pc = "start"
  /\ from = "user" /\ number \in Numbers /\ k = 1 /\ dst = << >>
  /\ verdicts = << >> /\ target = << >> /\ oom = FALSE

-----------------------------------------------------------------------------
(***************************************************************************)
(* The expression of a rule.                                               *)
(***************************************************************************)
\* The substrings found: none when the closing slash is missing, when PCRE
\* does not compile the expression, or when they do not fit into the vector.
empbx_regex_perform(r, n) ==
  IF \/ r.shape \in {"unended", "broken"} \/ n \notin r.match
     \/ r.groups + 1 > MaxSubstrings
  THEN 0 ELSE r.groups + 1

Literal(r, n) == r.text = n
Takes(r, n) ==
  /\ r.field = "dst-number" /\ r.shape # "empty"
  /\ Literal(r, n) \/ empbx_regex_perform(r, n) > 0

\* See Substitution; here $1 is a part by itself and group 1 the whole number.
substitute(r, n) ==
  [i \in DOMAIN r.data |->
     IF r.data[i] # "$1" THEN r.data[i] ELSE IF r.groups > 0 THEN n ELSE ""]

\* The data go through unchanged for a literal match, and when nothing would
\* be left of them.
Destination(r, n) ==
  IF Literal(r, n) \/ substitute(r, n) = <<"">> THEN r.data ELSE substitute(r, n)

-----------------------------------------------------------------------------
(***************************************************************************)
(* The call, up to its application.                                        *)
(***************************************************************************)
RegisterApp ==
  /\ pc = "start" /\ app' \in BOOLEAN /\ pc' = "idle"
  /\ UNCHANGED <<rules, registered, refs, local, verdicts, target, oom>>

\* Registrations come and go; only main sees it, between two steps of its own.
Location(U) ==
  /\ registered' = U
  /\ UNCHANGED <<rules, app, refs, pc, local, verdicts, target, oom>>

Verdict(v) == verdicts' = Append(verdicts, v)

IncomingCall(f, n) ==
  /\ pc = "idle"
  /\ from' = f /\ number' = n /\ k' = 1 /\ dst' = << >>
  /\ verdicts' = << >> /\ target' = << >> /\ oom' = FALSE /\ pc' = "find"
  /\ UNCHANGED <<rules, registered, app, refs>>

\* The address that was dialled has no number in it.
NoNumber ==
  /\ pc = "idle" /\ verdicts' = <<"500">> /\ target' = << >>
  /\ UNCHANGED <<rules, registered, app, refs, pc, local, oom>>

Missed ==
  /\ pc = "find" /\ k <= Len(rules) /\ ~Takes(rules[k], number)
  /\ k' = k + 1
  /\ UNCHANGED <<rules, registered, app, refs, pc, from, number, dst, verdicts,
                 target, oom>>

\* Without memory for the number no expression is tried: on to the next rule.
NoMemory ==
  /\ pc = "find" /\ k <= Len(rules) /\ ~Literal(rules[k], number)
  /\ rules[k].field = "dst-number" /\ rules[k].shape # "empty"
  /\ k' = k + 1 /\ oom' = TRUE
  /\ UNCHANGED <<rules, registered, app, refs, pc, from, number, dst, verdicts,
                 target>>

\* Faulty variant: the search goes on, and the last rule decides.
TakenGoOn ==
  /\ pc = "find" /\ k <= Len(rules) /\ Takes(rules[k], number)
  /\ dst' = Destination(rules[k], number)
  /\ IF \E j \in k + 1 .. Len(rules) : Takes(rules[j], number)
     THEN k' = k + 1 /\ UNCHANGED pc ELSE pc' = "app" /\ UNCHANGED k
  /\ UNCHANGED <<rules, registered, app, refs, from, number, verdicts, target,
                 oom>>

Taken ==
  /\ pc = "find" /\ k <= Len(rules) /\ Takes(rules[k], number)
  /\ dst' = Destination(rules[k], number) /\ pc' = "app"
  /\ UNCHANGED <<rules, registered, app, refs, from, number, k, verdicts,
                 target, oom>>

\* Without memory for the destination the rule has been taken all the same.
TakenNoMemory ==
  /\ pc = "find" /\ k <= Len(rules) /\ Takes(rules[k], number)
  /\ dst' = << >> /\ oom' = TRUE /\ pc' = "app"
  /\ UNCHANGED <<rules, registered, app, refs, from, number, k, verdicts,
                 target>>

NoRule ==
  /\ pc = "find" /\ k > Len(rules)
  /\ Verdict("404") /\ pc' = "idle"
  /\ UNCHANGED <<rules, registered, app, refs, local, target, oom>>

UnknownApp ==
  /\ pc = "app" /\ ~(app /\ rules[k].app = "bridge")
  /\ Verdict("500") /\ pc' = "idle"
  /\ UNCHANGED <<rules, registered, app, refs, local, target, oom>>

LookupApp ==
  /\ pc = "app" /\ app /\ rules[k].app = "bridge"
  /\ refs' = refs + 1 /\ pc' = "bridge"
  /\ UNCHANGED <<rules, registered, app, local, verdicts, target, oom>>

-----------------------------------------------------------------------------
(***************************************************************************)
(* The bridge.                                                             *)
(***************************************************************************)
\* strstr(dst, "user/"): anywhere, at the end of any part but the last.
Has(name, like) ==
  \E i \in 1 .. Len(dst) - 1 : dst[i] = name \/ dst[i] \in like
HasUser == Has("user", LikeUser)
HasGateway == ~HasUser /\ Has("gateway", LikeGateway)

\* What comes after as many characters as "user/" has: a user only if that is
\* where the destination begins, else something that no user is called.
UserFound == dst[1] = "user" /\ Len(dst) = 2 /\ dst[2] \in registered

\* Faulty variant: the number is taken for the name of the gateway.
GatewayByNumber == dst[1] = "gateway" /\ dst[Len(dst)] \in GatewayNames

GatewayFound == dst[1] = "gateway" /\ dst[2] \in GatewayNames

\* Faulty variant: after its refusal the bridge reports a failure.
RefuseAndFail(v) ==
  /\ verdicts' = verdicts \o <<v, "500">> /\ pc' = "release"
  /\ UNCHANGED <<rules, registered, app, refs, local, target, oom>>

\* The bridge hangs up and reports success.
Refuse(v) ==
  /\ Verdict(v) /\ pc' = "release"
  /\ UNCHANGED <<rules, registered, app, refs, local, target, oom>>

NoDestination == pc = "bridge" /\ dst \in {<< >>, <<"">>} /\ Refuse("404")

NoSuchUser == pc = "bridge" /\ HasUser /\ ~UserFound /\ Refuse("404")

FromGateway ==
  pc = "bridge" /\ HasGateway /\ from # "user" /\ Refuse("603")

NoSuchGateway ==
  pc = "bridge" /\ HasGateway /\ from = "user" /\ ~GatewayFound /\ Refuse("404")

Unsupported ==
  /\ pc = "bridge" /\ dst \notin {<< >>, <<"">>} /\ ~HasUser /\ ~HasGateway
  /\ Refuse("404")

\* The session is made to the user, or to the number behind the gateway.
Bridge ==
  /\ pc = "bridge"
  /\ (HasUser /\ UserFound) \/ (HasGateway /\ from = "user" /\ GatewayFound)
  /\ Verdict("session") /\ target' = dst /\ pc' = "release"
  /\ UNCHANGED <<rules, registered, app, refs, local, oom>>

\* It cannot be made, or there is no memory for the name of the gateway: the
\* bridge reports a failure and its caller hangs up.
BridgeFail ==
  /\ pc = "bridge"
  /\ (HasUser /\ UserFound) \/ (HasGateway /\ from = "user")
  /\ Verdict("500") /\ pc' = "release"
  /\ UNCHANGED <<rules, registered, app, refs, local, target, oom>>

Release ==
  /\ pc = "release" /\ pc' = "idle"
  /\ refs' = IF refs > 0 THEN refs - 1 ELSE refs
  /\ UNCHANGED <<rules, registered, app, local, verdicts, target, oom>>

Stop ==
  /\ pc = "idle" /\ pc' = "stopping"
  /\ UNCHANGED <<rules, registered, app, refs, local, verdicts, target, oom>>

\* The destructor of the application waits for all references.
AppFreed ==
  /\ pc = "stopping" /\ refs = 0
  /\ app' = FALSE /\ pc' = "stopped"
  /\ UNCHANGED <<rules, registered, refs, local, verdicts, target, oom>>

-----------------------------------------------------------------------------
Handle ==
  \/ Missed \/ NoMemory \/ Taken \/ TakenNoMemory \/ NoRule \/ UnknownApp \/ LookupApp
  \/ NoDestination \/ NoSuchUser \/ FromGateway \/ NoSuchGateway
  \/ Unsupported \/ Bridge \/ BridgeFail \/ Release

PlanNext ==
  \/ RegisterApp \/ Stop \/ AppFreed \/ NoNumber \/ Handle
  \/ \E U \in SUBSET Users : Location(U)
  \/ \E f \in {"user", "gateway"}, n \in Numbers : IncomingCall(f, n)

PlanSpec == PlanInit /\ [][PlanNext]_planVars

-----------------------------------------------------------------------------
\* Properties.

\* Whatever rule a call meets and whatever fails on the way: it is bridged,
\* or hung up with one code, once, and the reference to its application does
\* not outlive it.
OneVerdict ==
  /\ Len(verdicts) <= 1
  /\ pc \in {"find", "app", "bridge"} => verdicts = << >>
  /\ pc = "release" => verdicts # << >>
  /\ refs = IF pc \in {"bridge", "release"} THEN 1 ELSE 0

\* The rule that routes the call: the first that takes the number.
Deciding ==
  {j \in DOMAIN rules :
     /\ Takes(rules[j], number)
     /\ \A i \in 1 .. j - 1 : ~Takes(rules[i], number)}
Configured == IF Deciding = {} THEN << >>
              ELSE LET r == rules[CHOOSE j \in Deciding : TRUE]
                   IN  Destination(r, number)

\* With memory to try each rule, a session leads where the first rule that
\* takes the number says, and without such a rule there is none.
RoutedAsConfigured == ~oom /\ target # << >> => target = Configured

\* Who has configured, for a number, a gateway that there is, gets every call
\* from a user to it unless the session fails.  Two things spoil it that the
\* text of a rule does not show: ten groups, and a name that ends in "user".
Meant(r) ==
  /\ r.field = "dst-number" /\ r.shape # "empty"
  /\ \/ number = r.text
     \/ r.shape \in {"plain", "slashes", "ast"} /\ number \in r.match
Plain(d) ==
  /\ Len(d) = 3 /\ d[1] = "gateway" /\ d[2] \in GatewayNames
  /\ d[2] \notin LikeUser \cup {"user"}
ReachableIsReached ==
  \A j \in DOMAIN rules :
    /\ pc \in {"idle", "release"} /\ verdicts # << >> /\ app /\ ~oom /\ from = "user"
    /\ Meant(rules[j]) /\ (\A i \in 1 .. j - 1 : ~Meant(rules[i]))
    /\ rules[j].groups < 10 /\ rules[j].app = "bridge"
    /\ Plain(Destination(rules[j], number))
    => verdicts \in {<<"session">>, <<"500">>}

Routed == RoutedAsConfigured /\ ReachableIsReached
=============================================================================
