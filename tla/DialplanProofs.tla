--------------------------- MODULE DialplanProofs ---------------------------
(***************************************************************************)
(* Proofs about the dialplan, for any rules, numbers, users and gateways,  *)
(* and any number of rules, and about the loop that replaces the           *)
(* references in the data of a rule, for any data and any matches.         *)
(***************************************************************************)
EXTENDS Dialplan, Substitution, TLAPS, NaturalsInduction, WellFoundedInduction

Shape == PlanTypeOK /\ Len(rules) <= MaxRules

Active == {"find", "app", "bridge"}

\* Nothing has been made of a call before its application is done with it.
TargetInv == pc \in Active => target = << >>

\* No rule before k takes the number.
FirstSoFar == \A i \in 1 .. k - 1 : i \in DOMAIN rules => ~Takes(rules[i], number)

\* While rules are tried none has taken the number yet.  Later the rule k has,
\* and unless memory was short it is the first and the destination is its own.
RouteInv ==
  /\ pc = "find" /\ ~oom => FirstSoFar
  /\ pc \in {"app", "bridge"} =>
       /\ k \in DOMAIN rules /\ Takes(rules[k], number)
       /\ ~oom => FirstSoFar /\ dst = Destination(rules[k], number)

\* The rule j is the first that was meant for the number, and leads through
\* the bridge to a gateway that there is.
Reaches(j) ==
  /\ app /\ ~oom /\ from = "user"
  /\ Meant(rules[j]) /\ (\A i \in 1 .. j - 1 : ~Meant(rules[i]))
  /\ rules[j].groups < 10 /\ rules[j].app = "bridge"
  /\ Plain(Destination(rules[j], number))

\* The search does not pass such a rule, takes it, and the bridge finds the
\* gateway.
Reached(j) ==
  /\ pc = "find" => k <= j
  /\ pc \in {"app", "bridge"} => k = j
  /\ pc \in {"idle", "release"} /\ verdicts # << >>
       => verdicts \in {<<"session">>, <<"500">>}

ReachInv ==
  /\ pc = "start" => verdicts = << >>
  /\ \A j \in DOMAIN rules : Reaches(j) => Reached(j)

DialplanInv ==
  Shape /\ OneVerdict /\ TargetInv /\ RouteInv /\ RoutedAsConfigured /\ ReachInv

-----------------------------------------------------------------------------
\* The destination a rule makes is a sequence of parts.
LEMMA DestinationType ==
  ASSUME NEW r \in Rule, NEW n \in Numbers
  PROVE  Destination(r, n) \in Seq(Parts)
<1> DEFINE p(i) == IF r.data[i] # "$1" THEN r.data[i]
                   ELSE IF r.groups > 0 THEN n ELSE ""
<1>1. /\ r.data \in Seq(Parts) /\ DOMAIN r.data = 1 .. Len(r.data)
      /\ Len(r.data) \in Nat
  BY DEF Rule
<1>2. \A i \in 1 .. Len(r.data) : p(i) \in Parts
  <2>1. \A i \in 1 .. Len(r.data) : r.data[i] \in Parts
    BY <1>1
  <2> QED
    BY <2>1, DialplanAssumption, Zenon
<1>3. substitute(r, n) = [i \in 1 .. Len(r.data) |-> p(i)]
  BY <1>1, Zenon DEF substitute
<1> HIDE DEF p
<1>4. substitute(r, n) \in Seq(Parts)
  BY <1>1, <1>2, <1>3
<1> QED
  BY <1>1, <1>4 DEF Destination

\* A rule takes a number only if it was meant for it; the one that was meant
\* takes it unless it has more groups than substrings are found.
LEMMA TakesMeant ==
  ASSUME NEW r \in Rule
  PROVE  /\ Takes(r, number) => Meant(r)
         /\ Meant(r) /\ r.groups < 10 => Takes(r, number)
<1>1. r.shape \in Shapes /\ r.groups \in Nat
  BY DEF Rule
<1>2. ASSUME Takes(r, number) PROVE Meant(r)
  BY <1>1, <1>2
  DEF Takes, Meant, Literal, empbx_regex_perform, Shapes, MaxSubstrings
<1>3. ASSUME Meant(r), r.groups < 10 PROVE Takes(r, number)
  BY <1>1, <1>3
  DEF Takes, Meant, Literal, empbx_regex_perform, Shapes, MaxSubstrings
<1> QED
  BY <1>2, <1>3

\* A destination that is plain is no destination of a user, and its gateway is
\* found.
LEMMA PlainGateway ==
  ASSUME Plain(dst)
  PROVE  /\ ~HasUser /\ HasGateway /\ GatewayFound
         /\ dst \notin {<< >>, <<"">>}
<1>1. Len(dst) = 3 /\ dst[1] = "gateway" /\ dst[2] \in GatewayNames
      /\ dst[2] \notin LikeUser /\ dst[2] # "user"
  BY DEF Plain
<1>2. ~HasUser
  <2>1. "gateway" \notin LikeUser
    BY DialplanAssumption, Zenon
  <2> QED
    BY <1>1, <2>1 DEF HasUser, Has
<1>3. HasGateway
  BY <1>1, <1>2 DEF HasGateway, Has
<1>4. GatewayFound
  BY <1>1 DEF GatewayFound
<1>5. dst # << >> /\ dst # <<"">>
  <2>1. Len(<< >>) = 0 /\ Len(<<"">>) = 1
    OBVIOUS
  <2>2. 3 # 0 /\ 3 # 1
    OBVIOUS
  <2> QED
    BY ONLY <1>1, <2>1, <2>2, Zenon
<1> QED
  BY <1>2, <1>3, <1>4, <1>5

\* The first rule that takes the number is the one that decides.
LEMMA FirstDecides ==
  ASSUME Shape, k \in DOMAIN rules, Takes(rules[k], number), FirstSoFar
  PROVE  Configured = Destination(rules[k], number)
<1>1. DOMAIN rules = 1 .. Len(rules) /\ Len(rules) \in Nat
  BY DEF Shape, PlanTypeOK
<1>2. k \in Deciding
  BY <1>1 DEF Deciding, FirstSoFar
<1>3. \A j \in Deciding : j = k
  BY <1>1 DEF Deciding, FirstSoFar
<1> QED
  BY <1>2, <1>3 DEF Configured

-----------------------------------------------------------------------------
\* The program starts without a call.
LEMMA InitDialplan == PlanInit => DialplanInv
<1> SUFFICES ASSUME PlanInit PROVE DialplanInv
  OBVIOUS
<1> MaxRules \in Nat
  BY DialplanAssumption, Zenon
<1>1. PICK n \in 0 .. MaxRules : rules \in [1 .. n -> Rules]
  BY DEF PlanInit
<1>2. rules \in Seq(Rules) /\ Len(rules) <= MaxRules
  BY <1>1
<1>3. Shape
  <2>1. 1 \in 1 .. MaxRules + 1
    OBVIOUS
  <2>2. /\ registered \subseteq Users /\ app \in BOOLEAN /\ oom \in BOOLEAN
        /\ pc \in {"start", "idle", "find", "app", "bridge", "release",
                  "stopping", "stopped"}
        /\ from \in {"user", "gateway"} /\ number \in Numbers
    BY DEF PlanInit
  <2>3. /\ refs \in Nat /\ k \in 1 .. MaxRules + 1 /\ dst \in Seq(Parts)
        /\ verdicts \in Seq({"session", "404", "500", "603"})
        /\ target \in Seq(Parts)
    BY <2>1 DEF PlanInit
  <2> QED
    BY <1>2, <2>2, <2>3 DEF Shape, PlanTypeOK
<1> QED
  BY <1>3 DEF PlanInit, DialplanInv, OneVerdict, TargetInv, RouteInv, Active,
              RoutedAsConfigured, ReachInv, Reached

\* Whatever the step, every variable keeps to its type.
LEMMA ShapeStep == Shape /\ [PlanNext]_planVars => Shape'
<1> SUFFICES ASSUME Shape, [PlanNext]_planVars PROVE Shape'
  OBVIOUS
<1> USE DEF Shape
<1>1. MaxRules \in Nat /\ Rules \subseteq Rule
  BY DialplanAssumption, Zenon
<1>2. k \in DOMAIN rules =>
        /\ Destination(rules[k], number) \in Seq(Parts)
        /\ k \in 1 .. MaxRules + 1 /\ k + 1 \in 1 .. MaxRules + 1
  <2> SUFFICES ASSUME k \in DOMAIN rules
               PROVE  /\ Destination(rules[k], number) \in Seq(Parts)
                      /\ k \in 1 .. MaxRules + 1 /\ k + 1 \in 1 .. MaxRules + 1
    OBVIOUS
  <2>1. rules[k] \in Rule /\ number \in Numbers
    BY <1>1 DEF PlanTypeOK
  <2>2. k \in 1 .. Len(rules) /\ Len(rules) \in Nat
    BY DEF PlanTypeOK
  <2> QED
    BY <1>1, <2>1, <2>2, DestinationType
<1>3. k <= Len(rules) => k \in DOMAIN rules
  BY DEF PlanTypeOK
<1> DEFINE Codes == {"session", "404", "500", "603"}
<1>19. ASSUME NEW v \in Codes, Verdict(v) PROVE verdicts' \in Seq(Codes)
  BY <1>19 DEF Verdict, PlanTypeOK
<1>4. CASE RegisterApp
  BY <1>4 DEF RegisterApp, PlanTypeOK, local
<1>5. ASSUME NEW U \in SUBSET Users, Location(U) PROVE Shape'
  BY <1>5 DEF Location, PlanTypeOK, local
<1>6. ASSUME NEW f \in {"user", "gateway"}, NEW n \in Numbers, IncomingCall(f, n)
      PROVE  Shape'
  <2>1. 1 \in 1 .. MaxRules + 1
    BY <1>1
  <2>2. oom' \in BOOLEAN /\ app' \in BOOLEAN
    BY <1>6, Zenon DEF IncomingCall, PlanTypeOK
  <2> QED
    BY <1>6, <2>1, <2>2 DEF IncomingCall, PlanTypeOK
<1>7. CASE NoNumber
  BY <1>7 DEF NoNumber, PlanTypeOK, local
<1>8. CASE Missed
  BY <1>2, <1>3, <1>8 DEF Missed, PlanTypeOK
<1>9. CASE NoMemory
  BY <1>2, <1>3, <1>9 DEF NoMemory, PlanTypeOK
<1>10. CASE Taken \/ TakenNoMemory
  <2>1. oom' \in BOOLEAN /\ app' \in BOOLEAN
    BY <1>10, Zenon DEF Taken, TakenNoMemory, PlanTypeOK
  <2>2. dst' \in Seq(Parts)
    <3>1. << >> \in Seq(Parts)
      OBVIOUS
    <3>2. k \in DOMAIN rules /\ dst' \in {Destination(rules[k], number), << >>}
      BY <1>3, <1>10 DEF Taken, TakenNoMemory
    <3> QED
      BY <1>2, <3>1, <3>2
  <2> QED
    BY <1>10, <2>1, <2>2 DEF Taken, TakenNoMemory, PlanTypeOK
<1>11. CASE NoRule \/ UnknownApp
  BY <1>11, <1>19 DEF NoRule, UnknownApp, PlanTypeOK, local
<1>12. CASE LookupApp
  BY <1>12 DEF LookupApp, PlanTypeOK, local
<1>13. CASE NoDestination \/ NoSuchUser \/ FromGateway \/ NoSuchGateway \/ Unsupported
  <2>1. PICK v \in {"404", "603"} : Refuse(v)
    BY <1>13, Zenon
    DEF NoDestination, NoSuchUser, FromGateway, NoSuchGateway, Unsupported
  <2> QED
    BY <1>19, <2>1 DEF Refuse, PlanTypeOK, local
<1>14. CASE Bridge
  BY <1>14, <1>19 DEF Bridge, PlanTypeOK, local
<1>15. CASE BridgeFail
  BY <1>15, <1>19 DEF BridgeFail, PlanTypeOK, local
<1>16. CASE Release
  BY <1>16 DEF Release, PlanTypeOK, local
<1>17. CASE Stop \/ AppFreed
  BY <1>17 DEF Stop, AppFreed, PlanTypeOK, local
<1>18. CASE UNCHANGED planVars
  BY <1>18 DEF planVars, local, PlanTypeOK
<1> QED
  BY <1>4, <1>5, <1>6, <1>7, <1>8, <1>9, <1>10, <1>11, <1>12, <1>13, <1>14,
     <1>15, <1>16, <1>17, <1>18 DEF PlanNext, Handle

\* A call without a verdict gets its first, and only then is it over.
LEMMA VerdictStep == Shape /\ OneVerdict /\ [PlanNext]_planVars => OneVerdict'
<1> SUFFICES ASSUME Shape, OneVerdict, [PlanNext]_planVars PROVE OneVerdict'
  OBVIOUS
<1> USE DEF OneVerdict
<1>1. refs \in Nat
  BY DEF Shape, PlanTypeOK
<1>2. ASSUME NEW v, Verdict(v), verdicts = << >>
      PROVE  Len(verdicts') = 1 /\ verdicts' # << >>
  <2>1. verdicts' = <<v>>
    BY <1>2 DEF Verdict
  <2> QED
    BY <2>1
<1>3. CASE RegisterApp \/ Stop \/ AppFreed
  BY <1>3 DEF RegisterApp, Stop, AppFreed
<1>4. ASSUME NEW U \in SUBSET Users, Location(U) PROVE OneVerdict'
  BY <1>4 DEF Location
<1>5. ASSUME NEW f, NEW n, IncomingCall(f, n) PROVE OneVerdict'
  BY <1>5 DEF IncomingCall
<1>6. CASE NoNumber
  BY <1>6 DEF NoNumber
<1>7. CASE Missed \/ NoMemory \/ Taken \/ TakenNoMemory
  BY <1>7 DEF Missed, NoMemory, Taken, TakenNoMemory
<1>8. CASE NoRule \/ UnknownApp
  <2>1. /\ pc \in Active /\ pc # "bridge" /\ pc' = "idle" /\ refs' = refs
        /\ verdicts = << >>
    BY <1>8 DEF NoRule, UnknownApp, Active
  <2>2. Len(verdicts') = 1 /\ verdicts' # << >>
    BY <1>2, <1>8, <2>1, Zenon DEF NoRule, UnknownApp
  <2> QED
    BY <2>1, <2>2 DEF Active
<1>9. CASE LookupApp
  BY <1>9 DEF LookupApp
<1>10. CASE NoDestination \/ NoSuchUser \/ FromGateway \/ NoSuchGateway \/ Unsupported
  <2>1. PICK v : pc = "bridge" /\ Refuse(v)
    BY <1>10, Zenon
    DEF NoDestination, NoSuchUser, FromGateway, NoSuchGateway, Unsupported
  <2>2. /\ pc' = "release" /\ refs' = refs /\ refs = 1
        /\ verdicts = << >>
    BY <2>1 DEF Refuse
  <2>3. Len(verdicts') = 1 /\ verdicts' # << >>
    BY <1>2, <2>1, <2>2, Zenon DEF Refuse
  <2> QED
    BY <2>2, <2>3
<1>11. CASE Bridge \/ BridgeFail
  <2>1. /\ pc = "bridge" /\ pc' = "release" /\ refs' = refs
        /\ verdicts = << >> /\ refs = 1
    BY <1>11 DEF Bridge, BridgeFail
  <2>2. Len(verdicts') = 1 /\ verdicts' # << >>
    BY <1>2, <1>11, <2>1, Zenon DEF Bridge, BridgeFail
  <2> QED
    BY <2>1, <2>2
<1>12. CASE Release
  BY <1>1, <1>12 DEF Release
<1>13. CASE UNCHANGED planVars
  BY <1>13 DEF planVars
<1> QED
  BY <1>3, <1>4, <1>5, <1>6, <1>7, <1>8, <1>9, <1>10, <1>11, <1>12, <1>13
  DEF PlanNext, Handle

\* While a call is looked at, it goes from rule to rule and keeps the first one
\* that takes its number, with the destination it made.
LEMMA RouteStep ==
  Shape /\ TargetInv /\ RouteInv /\ RoutedAsConfigured /\ [PlanNext]_planVars
    => TargetInv' /\ RouteInv' /\ RoutedAsConfigured'
<1> SUFFICES ASSUME Shape, TargetInv, RouteInv, RoutedAsConfigured, [PlanNext]_planVars
             PROVE  TargetInv' /\ RouteInv' /\ RoutedAsConfigured'
  OBVIOUS
<1>1. rules' = rules
  BY DEF PlanNext, Handle, planVars, RegisterApp, Stop, AppFreed, NoNumber, Location,
     IncomingCall, Missed, NoMemory, Taken, TakenNoMemory, NoRule, UnknownApp,
     LookupApp, NoDestination, NoSuchUser, FromGateway, NoSuchGateway,
     Unsupported, Refuse, Bridge, BridgeFail, Release
<1>2. number' = number => Configured' = Configured
  BY <1>1 DEF Configured, Deciding
<1>3. k \in Nat /\ DOMAIN rules = 1 .. Len(rules) /\ Len(rules) \in Nat
  BY DEF Shape, PlanTypeOK
\* A step that leaves the call, its rule and its destination alone.
<1>4. ASSUME UNCHANGED <<pc, number, k, dst, target, oom>>
      PROVE  TargetInv' /\ RouteInv' /\ RoutedAsConfigured'
  BY <1>1, <1>2, <1>4
  DEF TargetInv, RouteInv, RoutedAsConfigured, FirstSoFar
\* A step of a call, or after it, that ends where no rule is looked at.
<1>5. ASSUME pc' \notin Active, UNCHANGED <<number, target, oom>>
      PROVE  TargetInv' /\ RouteInv' /\ RoutedAsConfigured'
  BY <1>2, <1>5 DEF TargetInv, RouteInv, RoutedAsConfigured, Active
<1>6. CASE RegisterApp \/ Stop \/ AppFreed
  BY <1>5, <1>6 DEF RegisterApp, Stop, AppFreed, Active, local
<1>7. ASSUME NEW U \in SUBSET Users, Location(U)
      PROVE  TargetInv' /\ RouteInv' /\ RoutedAsConfigured'
  BY <1>4, <1>7 DEF Location, local
<1>8. ASSUME NEW f \in {"user", "gateway"}, NEW n \in Numbers, IncomingCall(f, n)
      PROVE  TargetInv' /\ RouteInv' /\ RoutedAsConfigured'
  <2>1. target' = << >> /\ k' = 1 /\ pc' = "find"
    BY <1>8 DEF IncomingCall
  <2> QED
    BY <2>1 DEF TargetInv, RouteInv, RoutedAsConfigured, FirstSoFar
<1>9. CASE NoNumber
  <2>1. target' = << >> /\ pc' = "idle"
    BY <1>9 DEF NoNumber
  <2> QED
    BY <2>1 DEF TargetInv, RouteInv, RoutedAsConfigured
<1>10. CASE Missed
  <2>1. /\ pc = "find" /\ ~Takes(rules[k], number) /\ k' = k + 1
        /\ UNCHANGED <<pc, number, target, oom>>
    BY <1>10 DEF Missed
  <2>2. FirstSoFar => FirstSoFar'
    BY <1>1, <1>3, <2>1 DEF FirstSoFar
  <2>3. target' = << >>
    BY <2>1 DEF TargetInv, Active
  <2> QED
    BY <2>1, <2>2, <2>3 DEF TargetInv, RouteInv, RoutedAsConfigured
<1>11. CASE NoMemory
  <2>1. pc' = "find" /\ oom' = TRUE /\ target' = << >>
    BY <1>11 DEF NoMemory, TargetInv, Active
  <2> QED
    BY <2>1 DEF TargetInv, RouteInv, RoutedAsConfigured
<1>12. CASE Taken \/ TakenNoMemory
  <2>1. /\ pc = "find" /\ k <= Len(rules) /\ Takes(rules[k], number)
        /\ pc' = "app" /\ UNCHANGED <<number, k, target>>
        /\ \/ dst' = Destination(rules[k], number) /\ oom' = oom
           \/ oom' = TRUE
    BY <1>12 DEF Taken, TakenNoMemory
  <2>2. k \in DOMAIN rules
    BY <1>3, <2>1 DEF Shape, PlanTypeOK
  <2>3. target' = << >>
    BY <2>1 DEF TargetInv, Active
  <2>4. FirstSoFar' <=> FirstSoFar
    BY <1>1, <2>1 DEF FirstSoFar
  <2> QED
    BY <1>1, <2>1, <2>2, <2>3, <2>4 DEF TargetInv, RouteInv, RoutedAsConfigured
<1>13. CASE NoRule \/ UnknownApp \/ BridgeFail \/ Release
  BY <1>5, <1>13 DEF NoRule, UnknownApp, BridgeFail, Release, Active, local
<1>14. CASE LookupApp
  <2>1. /\ pc = "app" /\ pc' = "bridge"
        /\ UNCHANGED <<number, k, dst, target, oom>>
    BY <1>14 DEF LookupApp, local
  <2>2. FirstSoFar' <=> FirstSoFar
    BY <1>1, <2>1 DEF FirstSoFar
  <2> QED
    BY <1>1, <1>2, <2>1, <2>2
    DEF TargetInv, RouteInv, RoutedAsConfigured, Active
<1>15. CASE NoDestination \/ NoSuchUser \/ FromGateway \/ NoSuchGateway \/ Unsupported
  <2>1. PICK v : Refuse(v)
    BY <1>15, Zenon
    DEF NoDestination, NoSuchUser, FromGateway, NoSuchGateway, Unsupported
  <2> QED
    BY <1>5, <2>1 DEF Refuse, Active, local
<1>16. CASE Bridge
  <2>1. /\ pc = "bridge" /\ pc' = "release" /\ target' = dst
        /\ UNCHANGED <<number, oom>>
    BY <1>16 DEF Bridge, local
  <2>2. ~oom => Configured = dst
    BY <2>1, FirstDecides DEF RouteInv
  <2> QED
    BY <1>2, <2>1, <2>2 DEF TargetInv, RouteInv, RoutedAsConfigured, Active
<1>17. CASE UNCHANGED planVars
  BY <1>4, <1>17 DEF planVars, local
<1> QED
  BY <1>6, <1>7, <1>8, <1>9, <1>10, <1>11, <1>12, <1>13, <1>14, <1>15, <1>16,
     <1>17 DEF PlanNext, Handle

\* A call for which a gateway was meant gets to it: the search ends at its rule,
\* and nothing but the making of the session can fail in the bridge.
LEMMA ReachStep == DialplanInv /\ [PlanNext]_planVars => ReachInv'
<1> SUFFICES ASSUME DialplanInv, [PlanNext]_planVars PROVE ReachInv'
  OBVIOUS
<1>1. rules' = rules
  BY DEF PlanNext, Handle, planVars, RegisterApp, Stop, AppFreed, NoNumber, Location,
     IncomingCall, Missed, NoMemory, Taken, TakenNoMemory, NoRule, UnknownApp,
     LookupApp, NoDestination, NoSuchUser, FromGateway, NoSuchGateway,
     Unsupported, Refuse, Bridge, BridgeFail, Release
<1>2. pc' = "start" => verdicts' = << >>
  <2>1. pc' = "start" => pc = "start" /\ verdicts' = verdicts
    BY DEF PlanNext, Handle, planVars, RegisterApp, Stop, AppFreed, NoNumber, Location,
       IncomingCall, Missed, NoMemory, Taken, TakenNoMemory, NoRule, UnknownApp,
       LookupApp, NoDestination, NoSuchUser, FromGateway, NoSuchGateway,
       Unsupported, Refuse, Bridge, BridgeFail, Release
  <2> QED
    BY <2>1 DEF DialplanInv, ReachInv
<1> SUFFICES ASSUME NEW j \in DOMAIN rules, Reaches(j)' PROVE Reached(j)'
  BY <1>1, <1>2 DEF ReachInv
<1>3. /\ k \in Nat /\ j \in Nat \ {0} /\ j <= Len(rules) /\ Len(rules) \in Nat
      /\ rules[j] \in Rule
  <2>1. Rules \subseteq Rule
    BY DialplanAssumption, Zenon
  <2> QED
    BY <2>1 DEF DialplanInv, Shape, PlanTypeOK
\* What holds of the rule, and of the call, before a step of the call.
<1>4. ASSUME UNCHANGED <<app, from, number>>, oom' = oom \/ oom' = TRUE
      PROVE  /\ Reaches(j) /\ Reached(j) /\ oom' = oom /\ ~oom
             /\ Takes(rules[j], number)
             /\ Meant(rules[j]) /\ (\A i \in 1 .. j - 1 : ~Meant(rules[i]))
  <2>1. Reaches(j) /\ oom' = oom
    BY <1>1, <1>4 DEF Reaches, Meant
  <2>2. Reached(j)
    BY <2>1 DEF DialplanInv, ReachInv
  <2>3. Takes(rules[j], number)
    BY <1>3, <2>1, TakesMeant DEF Reaches
  <2> QED
    BY <2>1, <2>2, <2>3 DEF Reaches
<1>5. CASE RegisterApp
  BY <1>5 DEF RegisterApp, Reached, DialplanInv, ReachInv
<1>6. ASSUME NEW U \in SUBSET Users, Location(U) PROVE Reached(j)'
  BY <1>4, <1>6 DEF Location, Reached, local
<1>7. ASSUME NEW f \in {"user", "gateway"}, NEW n \in Numbers, IncomingCall(f, n)
      PROVE  Reached(j)'
  <2>1. k' = 1 /\ pc' = "find"
    BY <1>7 DEF IncomingCall
  <2> QED
    BY <1>3, <2>1 DEF Reached
<1>8. CASE NoNumber
  <2>1. verdicts' = <<"500">> /\ pc' = "idle"
    BY <1>8 DEF NoNumber
  <2> QED
    BY <2>1 DEF Reached
<1>9. CASE Missed
  <2>1. /\ pc = "find" /\ pc' = "find" /\ k' = k + 1 /\ ~Takes(rules[k], number)
        /\ UNCHANGED <<app, from, number, oom>>
    BY <1>9 DEF Missed
  <2>2. k <= j /\ k # j
    BY <1>4, <2>1 DEF Reached
  <2> QED
    BY <1>3, <2>1, <2>2 DEF Reached
<1>10. CASE NoMemory \/ TakenNoMemory
  BY <1>10 DEF NoMemory, TakenNoMemory, Reaches
<1>11. CASE Taken
  <2>1. /\ pc = "find" /\ pc' = "app" /\ k' = k /\ Takes(rules[k], number)
        /\ k <= Len(rules) /\ UNCHANGED <<app, from, number, oom>>
    BY <1>11 DEF Taken
  <2>2. k <= j /\ k \in 1 .. j
    BY <1>3, <1>4, <2>1 DEF Reached, DialplanInv, Shape, PlanTypeOK
  <2>3. rules[k] \in Rule
    <3>1. Rules \subseteq Rule
      BY DialplanAssumption, Zenon
    <3> QED
      BY <1>3, <2>2, <3>1 DEF DialplanInv, Shape, PlanTypeOK
  <2>4. Meant(rules[k])
    BY <2>1, <2>3, TakesMeant
  <2>5. k \notin 1 .. j - 1
    BY <1>4, <2>1, <2>4
  <2> QED
    BY <1>3, <2>1, <2>2, <2>5 DEF Reached
<1>12. CASE NoRule
  <2>1. /\ pc = "find" /\ k > Len(rules)
        /\ UNCHANGED <<app, from, number, oom>>
    BY <1>12 DEF NoRule, local
  <2> QED
    BY <1>3, <1>4, <2>1 DEF Reached
<1>13. CASE UnknownApp
  <2>1. /\ pc = "app" /\ ~(app /\ rules[k].app = "bridge")
        /\ UNCHANGED <<app, from, number, oom>>
    BY <1>13 DEF UnknownApp, local
  <2> QED
    BY <1>4, <2>1 DEF Reached, Reaches
<1>14. CASE LookupApp
  <2>1. /\ pc = "app" /\ pc' = "bridge"
        /\ UNCHANGED <<app, from, number, k, oom>>
    BY <1>14 DEF LookupApp, local
  <2> QED
    BY <1>4, <2>1 DEF Reached
\* In the bridge the destination is that of the rule.
<1>15. ASSUME pc = "bridge", UNCHANGED <<app, from, number, oom>>
       PROVE  /\ ~HasUser /\ HasGateway /\ GatewayFound /\ from = "user"
              /\ dst \notin {<< >>, <<"">>} /\ verdicts = << >>
  <2>1. k = j /\ Reaches(j) /\ ~oom
    BY <1>4, <1>15 DEF Reached
  <2>2. dst = Destination(rules[j], number)
    BY <1>15, <2>1 DEF DialplanInv, RouteInv
  <2>3. Plain(dst) /\ from = "user"
    BY <2>1, <2>2 DEF Reaches
  <2>4. verdicts = << >>
    BY <1>15 DEF DialplanInv, OneVerdict
  <2> QED
    BY <2>3, <2>4, PlainGateway, Zenon
<1>16. CASE NoDestination \/ NoSuchUser \/ FromGateway \/ NoSuchGateway \/ Unsupported
  <2>1. PICK v : pc = "bridge" /\ Refuse(v)
    BY <1>16, Zenon
    DEF NoDestination, NoSuchUser, FromGateway, NoSuchGateway, Unsupported
  <2>2. UNCHANGED <<app, from, number, oom>>
    BY <2>1 DEF Refuse, local
  <2>3. /\ ~HasUser /\ HasGateway /\ GatewayFound /\ from = "user"
        /\ dst \notin {<< >>, <<"">>}
    BY <1>15, <2>1, <2>2, Zenon
  <2> QED
    BY <1>16, <2>3, Zenon
    DEF NoDestination, NoSuchUser, FromGateway, NoSuchGateway, Unsupported
<1>17. CASE Bridge \/ BridgeFail
  <2>1. pc = "bridge" /\ UNCHANGED <<app, from, number, oom>>
    BY <1>17 DEF Bridge, BridgeFail, local
  <2>2. verdicts = << >>
    BY <1>15, <2>1, Zenon
  <2>3. verdicts' = <<"session">> \/ verdicts' = <<"500">>
    BY <1>17, <2>2 DEF Bridge, BridgeFail, Verdict
  <2>4. pc' = "release"
    BY <1>17 DEF Bridge, BridgeFail
  <2> QED
    BY <2>3, <2>4 DEF Reached
<1>18. CASE Release
  <2>1. /\ pc = "release" /\ pc' = "idle"
        /\ UNCHANGED <<app, from, number, oom, verdicts>>
    BY <1>18 DEF Release, local
  <2> QED
    BY <1>4, <2>1 DEF Reached
<1>19. CASE Stop \/ AppFreed
  <2>1. pc' \in {"stopping", "stopped"}
    BY <1>19 DEF Stop, AppFreed
  <2> QED
    BY <2>1 DEF Reached
<1>20. CASE UNCHANGED planVars
  BY <1>4, <1>20 DEF planVars, local, Reached
<1> QED
  BY <1>5, <1>6, <1>7, <1>8, <1>9, <1>10, <1>11, <1>12, <1>13, <1>14, <1>16,
     <1>17, <1>18, <1>19, <1>20 DEF PlanNext, Handle

-----------------------------------------------------------------------------
\* What a call has come to, at each step of its way.
THEOREM CallsFollowed == PlanSpec => []DialplanInv
<1>1. PlanInit => DialplanInv
  BY InitDialplan
<1>2. DialplanInv /\ [PlanNext]_planVars => DialplanInv'
  BY ShapeStep, VerdictStep, RouteStep, ReachStep DEF DialplanInv
<1> QED
  BY <1>1, <1>2, PTL DEF PlanSpec

\* Every call is bridged or hung up with one code, once, whatever fails on its
\* way, and the reference to its application is given back.
THEOREM VerdictOnce == PlanSpec => []OneVerdict
<1>1. DialplanInv => OneVerdict
  BY DEF DialplanInv
<1> QED
  BY <1>1, CallsFollowed, PTL

\* A call goes where the first rule that takes its number says, and, from a
\* user, to every gateway that is configured for it.
THEOREM RoutedRight == PlanSpec => [](PlanTypeOK /\ Routed)
<1>1. DialplanInv => ReachableIsReached
  BY DEF DialplanInv, ReachInv, Reaches, Reached, ReachableIsReached
<1>2. DialplanInv => PlanTypeOK /\ Routed
  BY <1>1 DEF DialplanInv, Shape, Routed
<1> QED
  BY <1>2, CallsFollowed, PTL

-----------------------------------------------------------------------------
(***************************************************************************)
(* The substitution.  What FlattenSeq makes of a sequence of sequences is  *)
(* the value of a recursive function; that it has one, and that a sequence *)
(* more is put at its end, is proved by a least place where it were not so.*)
(***************************************************************************)

\* A set of natural numbers has a least one.
LEMMA LeastNatural ==
  ASSUME NEW T, T \subseteq Nat, T # {}
  PROVE  \E m \in T : \A j \in T : m <= j
<1>1. PICK m \in T : \A j \in T : ~(<<j, m>> \in OpToRel(<, Nat))
  BY WFMin, NatLessThanWellFounded, Zenon
<1>2. \A j \in T : m \in Nat /\ j \in Nat /\ ~(j < m)
  BY <1>1, Zenon DEF OpToRel
<1> QED
  BY <1>2

-----------------------------------------------------------------------------
\* What FlattenSeq computes, of the first n of a sequence of sequences.
Flattens(q, n, f) ==
  f = [i \in 1 .. n |-> IF i = 1 THEN q[i] ELSE f[i - 1] \o q[i]]

\* There is such a function.
LEMMA FlattenExists ==
  ASSUME NEW q, NEW n \in Nat
  PROVE  \E f : Flattens(q, n, f)
<1> DEFINE T == {e \in Nat : ~\E f : Flattens(q, e, f)}
<1> SUFFICES ASSUME T # {} PROVE FALSE
  OBVIOUS
<1>1. PICK m \in T : \A j \in T : m <= j
  <2>1. T \subseteq Nat
    OBVIOUS
  <2> HIDE DEF T
  <2> QED
    BY <2>1, LeastNatural
<1>2. m # 0
  <2>1. Flattens(q, 0, [i \in 1 .. 0 |-> {}])
    BY DEF Flattens
  <2> QED
    BY <2>1
<1>3. m - 1 \in Nat /\ m - 1 \notin T
  BY <1>1, <1>2
<1>4. PICK f : Flattens(q, m - 1, f)
  BY <1>3
<1> DEFINE g == [i \in 1 .. m |-> IF i < m THEN f[i]
                                  ELSE IF i = 1 THEN q[i] ELSE f[i - 1] \o q[i]]
<1>5. \A i \in 1 .. m - 1 : f[i] = IF i = 1 THEN q[i] ELSE f[i - 1] \o q[i]
  BY <1>4 DEF Flattens
<1>6. \A i \in 1 .. m : g[i] = IF i = 1 THEN q[i] ELSE g[i - 1] \o q[i]
  <2> SUFFICES ASSUME NEW i \in 1 .. m
               PROVE  g[i] = IF i = 1 THEN q[i] ELSE g[i - 1] \o q[i]
    OBVIOUS
  <2>1. i # 1 => i - 1 \in 1 .. m /\ i - 1 < m
    OBVIOUS
  <2>2. i # 1 => g[i - 1] = f[i - 1]
    BY <2>1
  <2>3. CASE i < m
    BY <2>3, <2>2, <1>5
  <2>4. CASE i = m
    BY <2>4, <2>2
  <2> QED
    BY <2>3, <2>4
<1>7. g = [i \in 1 .. m |-> IF i = 1 THEN q[i] ELSE g[i - 1] \o q[i]]
  <2> DEFINE h == [i \in 1 .. m |-> IF i = 1 THEN q[i] ELSE g[i - 1] \o q[i]]
  <2>1. \A i \in 1 .. m : g[i] = h[i]
    BY <1>6
  <2>2. DOMAIN g = 1 .. m /\ DOMAIN h = 1 .. m
    OBVIOUS
  <2>3. g = [i \in 1 .. m |-> g[i]]
    OBVIOUS
  <2>4. h = [i \in 1 .. m |-> h[i]]
    OBVIOUS
  <2> HIDE DEF g, h
  <2>5. [i \in 1 .. m |-> g[i]] = [i \in 1 .. m |-> h[i]]
    BY <2>1
  <2>6. g = h
    BY <2>3, <2>4, <2>5
  <2> QED
    BY <2>6 DEF h
<1>8. Flattens(q, m, g)
  <2> HIDE DEF g
  <2> QED
    BY <1>7 DEF Flattens
<1> QED
  BY <1>8

\* It depends on no more than the sequences it has come to.
Both(p, q, n, f, g) ==
  /\ Flattens(p, n, f) /\ Flattens(q, n + 1, g)
  /\ \A i \in 1 .. n : p[i] = q[i]

LEMMA FlattenAgrees ==
  ASSUME NEW n \in Nat, NEW p, NEW q, NEW f, NEW g, Both(p, q, n, f, g)
  PROVE  \A i \in 1 .. n : f[i] = g[i]
<1> DEFINE T == {e \in 1 .. n : f[e] # g[e]}
<1> SUFFICES ASSUME T # {} PROVE FALSE
  OBVIOUS
<1>1. PICK e \in T : \A j \in T : e <= j
  <2>1. T \subseteq Nat
    OBVIOUS
  <2> HIDE DEF T
  <2> QED
    BY <2>1, LeastNatural
<1>2. e \in 1 .. n /\ f[e] # g[e]
  OBVIOUS
<1>3. f[e] = IF e = 1 THEN p[e] ELSE f[e - 1] \o p[e]
  BY <1>2 DEF Both, Flattens
<1>4. g[e] = IF e = 1 THEN q[e] ELSE g[e - 1] \o q[e]
  <2>1. e \in 1 .. n + 1
    BY <1>2
  <2> QED
    BY <2>1 DEF Both, Flattens
<1>5. e # 1 => e - 1 \in 1 .. n /\ e - 1 \notin T
  BY <1>1, <1>2
<1>6. e # 1 => f[e - 1] = g[e - 1]
  BY <1>5
<1> QED
  BY <1>2, <1>3, <1>4, <1>6 DEF Both

\* Its values are sequences of the elements that the sequences have.
LEMMA FlattenType ==
  ASSUME NEW S, NEW n \in Nat, NEW q, \A i \in 1 .. n : q[i] \in Seq(S),
         NEW f, Flattens(q, n, f)
  PROVE  \A i \in 1 .. n : f[i] \in Seq(S)
<1> DEFINE T == {e \in 1 .. n : f[e] \notin Seq(S)}
<1> SUFFICES ASSUME T # {} PROVE FALSE
  OBVIOUS
<1>1. PICK e \in T : \A j \in T : e <= j
  <2>1. T \subseteq Nat
    OBVIOUS
  <2> HIDE DEF T
  <2> QED
    BY <2>1, LeastNatural
<1>2. e \in 1 .. n /\ f[e] \notin Seq(S)
  OBVIOUS
<1>3. f[e] = IF e = 1 THEN q[e] ELSE f[e - 1] \o q[e]
  BY <1>2 DEF Flattens
<1>5. e # 1 => e - 1 \in 1 .. n /\ e - 1 \notin T
  BY <1>1, <1>2
<1>6. e # 1 => f[e - 1] \in Seq(S)
  BY <1>5
<1> QED
  BY <1>2, <1>3, <1>6

\* FlattenSeq is its value at the end.
LEMMA FlattenIs ==
  ASSUME NEW n \in Nat \ {0}, NEW q, Len(q) = n
  PROVE  \E f : Flattens(q, n, f) /\ FlattenSeq(q) = f[n]
<1> DEFINE F == CHOOSE f : f = [i \in 1 .. n |-> IF i = 1 THEN q[i] ELSE f[i - 1] \o q[i]]
<1>1. \E f : f = [i \in 1 .. n |-> IF i = 1 THEN q[i] ELSE f[i - 1] \o q[i]]
  BY FlattenExists DEF Flattens
<1>2. Flattens(q, n, F)
  BY <1>1 DEF Flattens
<1>3. FlattenSeq(q) = F[n]
  BY DEF FlattenSeq
<1> HIDE DEF F
<1> QED
  BY <1>2, <1>3

\* With one sequence more.
OneMore(S, n, p, q) ==
  /\ Len(p) = n /\ Len(q) = n + 1 /\ (n = 0 => p = << >>)
  /\ \A i \in 1 .. n : p[i] = q[i] /\ p[i] \in Seq(S)
  /\ q[n + 1] \in Seq(S)

LEMMA FlattenMore ==
  ASSUME NEW S, NEW n \in Nat, NEW p, NEW q, OneMore(S, n, p, q)
  PROVE  /\ FlattenSeq(p) \in Seq(S)
         /\ FlattenSeq(q) = FlattenSeq(p) \o q[n + 1]
<1>1. PICK g : Flattens(q, n + 1, g) /\ FlattenSeq(q) = g[n + 1]
  <2>1. n + 1 \in Nat \ {0}
    OBVIOUS
  <2>2. Len(q) = n + 1
    BY DEF OneMore
  <2> QED
    BY <2>1, <2>2, FlattenIs
<1>2. g[n + 1] = IF n + 1 = 1 THEN q[n + 1] ELSE g[(n + 1) - 1] \o q[n + 1]
  <2>1. n + 1 \in 1 .. n + 1
    OBVIOUS
  <2> QED
    BY <2>1, <1>1 DEF Flattens
<1>3. CASE n = 0
  <2>1. FlattenSeq(p) = << >>
    BY <1>3 DEF FlattenSeq, OneMore
  <2> QED
    BY <2>1, <1>1, <1>2, <1>3 DEF OneMore
<1>4. CASE n # 0
  <2>1. PICK f : Flattens(p, n, f) /\ FlattenSeq(p) = f[n]
    BY <1>4, FlattenIs DEF OneMore
  <2>2. f[n] = g[n]
    <3>1. \A i \in 1 .. n : f[i] = g[i]
      <4>1. Both(p, q, n, f, g)
        BY <2>1, <1>1 DEF Both, OneMore
      <4> QED
        BY <4>1, FlattenAgrees
    <3> QED
      BY <3>1, <1>4
  <2>3. f[n] \in Seq(S)
    <3>1. \A i \in 1 .. n : f[i] \in Seq(S)
      BY <2>1, FlattenType DEF OneMore
    <3> QED
      BY <3>1, <1>4
  <2>4. g[n + 1] = g[n] \o q[n + 1]
    <3>1. n + 1 # 1 /\ (n + 1) - 1 = n
      BY <1>4
    <3> QED
      BY <3>1, <1>2, Zenon
  <2> QED
    BY <2>1, <2>2, <2>3, <2>4, <1>1, Zenon
<1> QED
  BY <1>3, <1>4

-----------------------------------------------------------------------------
\* The references of a template.

\* A reference has no other $ in it, and a place starts one reference only.
LEMMA RefInside ==
  ASSUME NEW t \in Seq(Nat), NEW h \in 1 .. Len(t), NEW j \in h .. Len(t),
         Ref(t, h, j), NEW i \in h + 1 .. j
  PROVE  t[i] # Dollar
BY DEF Ref, Bare, Braced, DigitsIn, IsDigit, Dollar, Open, Close

LEMMA RefUnique ==
  ASSUME NEW t \in Seq(Nat), NEW h \in 1 .. Len(t),
         NEW j \in h .. Len(t), NEW e \in h .. Len(t), Ref(t, h, j), Ref(t, h, e)
  PROVE  j = e
<1>1. CASE Bare(t, h, j) /\ Bare(t, h, e)
  <2>1. j < e => j + 1 \in h + 1 .. e
    BY DEF Bare, DigitsIn
  <2>2. e < j => e + 1 \in h + 1 .. j
    BY DEF Bare, DigitsIn
  <2> QED
    BY <1>1, <2>1, <2>2 DEF Bare, DigitsIn
<1>2. CASE Braced(t, h, j) /\ Braced(t, h, e)
  <2>1. j < e => j \in h + 2 .. e - 1
    BY <1>2 DEF Braced, DigitsIn
  <2>2. e < j => e \in h + 2 .. j - 1
    BY <1>2 DEF Braced, DigitsIn
  <2> QED
    BY <1>2, <2>1, <2>2 DEF Braced, DigitsIn, IsDigit, Close
<1>3. ~(Bare(t, h, j) /\ Braced(t, h, e)) /\ ~(Bare(t, h, e) /\ Braced(t, h, j))
  <2>1. \A i \in h .. Len(t) : Bare(t, h, i) => h + 1 <= i /\ IsDigit(t[h + 1])
    BY DEF Bare, DigitsIn
  <2>2. \A i \in h .. Len(t) : Braced(t, h, i) => t[h + 1] = Open
    BY DEF Braced
  <2>3. ~IsDigit(Open)
    BY DEF IsDigit, Open
  <2> QED
    BY <2>1, <2>2, <2>3
<1> QED
  BY <1>1, <1>2, <1>3 DEF Ref

\* The pieces that the places up to e stand for.
UpTo(t, m, e) == FlattenSeq([i \in 1 .. e |-> Piece(t, m, i)])

\* A place stands for a string.
LEMMA PieceType ==
  ASSUME NEW t \in Seq(Nat), NEW m \in Seq(Seq(Nat)), NEW i \in 1 .. Len(t)
  PROVE  Piece(t, m, i) \in Seq(Nat)
<1>1. \A n : Group(m, n) \in Seq(Nat)
  <2>1. \A e \in DOMAIN m : m[e] \in Seq(Nat)
    OBVIOUS
  <2> QED
    BY <2>1 DEF Group
<1>2. <<t[i]>> \in Seq(Nat) /\ << >> \in Seq(Nat)
  OBVIOUS
<1> QED
  BY <1>1, <1>2 DEF Piece

\* The next place adds what it stands for.
LEMMA UpToMore ==
  ASSUME NEW t \in Seq(Nat), NEW m \in Seq(Seq(Nat)), NEW e \in 0 .. Len(t) - 1
  PROVE  /\ UpTo(t, m, e) \in Seq(Nat)
         /\ UpTo(t, m, e + 1) = UpTo(t, m, e) \o Piece(t, m, e + 1)
<1> DEFINE p == [i \in 1 .. e |-> Piece(t, m, i)]
           q == [i \in 1 .. e + 1 |-> Piece(t, m, i)]
<1>1. \A i \in 1 .. e + 1 : Piece(t, m, i) \in Seq(Nat)
  BY PieceType
<1>2. Len(p) = e /\ Len(q) = e + 1 /\ (e = 0 => p = << >>) /\ e \in Nat
  OBVIOUS
<1>3. \A i \in 1 .. e : p[i] = q[i] /\ p[i] \in Seq(Nat)
  BY <1>1
<1>4. q[e + 1] = Piece(t, m, e + 1) /\ q[e + 1] \in Seq(Nat)
  BY <1>1
<1>5. UpTo(t, m, e) = FlattenSeq(p) /\ UpTo(t, m, e + 1) = FlattenSeq(q)
  BY DEF UpTo
<1> HIDE DEF p, q
<1>6. /\ FlattenSeq(p) \in Seq(Nat)
      /\ FlattenSeq(q) = FlattenSeq(p) \o q[e + 1]
  <2>1. OneMore(Nat, e, p, q)
    BY <1>2, <1>3, <1>4 DEF OneMore
  <2>2. e \in Nat
    OBVIOUS
  <2>3. \A n \in Nat : \A a, b : OneMore(Nat, n, a, b) =>
          /\ FlattenSeq(a) \in Seq(Nat)
          /\ FlattenSeq(b) = FlattenSeq(a) \o b[n + 1]
    BY FlattenMore
  <2> QED
    BY <2>1, <2>2, <2>3, Zenon
<1> QED
  BY <1>4, <1>5, <1>6, Zenon

\* All of them stand for a string.
LEMMA UpToType ==
  ASSUME NEW t \in Seq(Nat), NEW m \in Seq(Seq(Nat)), NEW e \in 0 .. Len(t)
  PROVE  UpTo(t, m, e) \in Seq(Nat)
<1>1. CASE e < Len(t)
  BY <1>1, UpToMore
<1>2. CASE e = Len(t) /\ e > 0
  <2>1. e - 1 \in 0 .. Len(t) - 1 /\ (e - 1) + 1 = e
    BY <1>2
  <2>2. UpTo(t, m, e - 1) \in Seq(Nat) /\ UpTo(t, m, e) = UpTo(t, m, e - 1) \o Piece(t, m, e)
    BY <2>1, UpToMore
  <2>3. Piece(t, m, e) \in Seq(Nat)
    BY <1>2, PieceType
  <2> QED
    BY <2>2, <2>3
<1>3. CASE e = 0
  BY <1>3 DEF UpTo, FlattenSeq
<1> QED
  BY <1>1, <1>2, <1>3

\* Places that stand for nothing add nothing.
LEMMA UpToSame ==
  ASSUME NEW t \in Seq(Nat), NEW m \in Seq(Seq(Nat)),
         NEW j \in 0 .. Len(t), NEW e \in j .. Len(t),
         \A i \in j + 1 .. e : Piece(t, m, i) = << >>
  PROVE  UpTo(t, m, e) = UpTo(t, m, j)
<1> DEFINE T == {i \in j .. e : UpTo(t, m, i) # UpTo(t, m, j)}
<1> SUFFICES ASSUME T # {} PROVE FALSE
  <2>1. e \in j .. e
    OBVIOUS
  <2>2. T = {} => UpTo(t, m, e) = UpTo(t, m, j)
    BY <2>1
  <2> HIDE DEF T
  <2> QED
    BY <2>2
<1>1. PICK i \in T : \A l \in T : i <= l
  <2>1. T \subseteq Nat
    OBVIOUS
  <2> HIDE DEF T
  <2> QED
    BY <2>1, LeastNatural
<1>2. i \in j + 1 .. e /\ UpTo(t, m, i) # UpTo(t, m, j)
  OBVIOUS
<1>3. i - 1 \in j .. e /\ i - 1 \notin T
  BY <1>1, <1>2
<1>4. UpTo(t, m, i - 1) = UpTo(t, m, j)
  BY <1>3
<1>5. /\ UpTo(t, m, i - 1) \in Seq(Nat)
      /\ UpTo(t, m, i) = UpTo(t, m, i - 1) \o Piece(t, m, i)
  <2>1. i - 1 \in 0 .. Len(t) - 1 /\ (i - 1) + 1 = i
    BY <1>2
  <2> QED
    BY <2>1, UpToMore
<1> QED
  BY <1>2, <1>4, <1>5

-----------------------------------------------------------------------------
\* Nothing is lost by cutting before more is put, but what is past the end.
LEMMA CutType ==
  ASSUME NEW a \in Seq(Nat)
  PROVE  Cut(a) \in Seq(Nat) /\ Len(Cut(a)) <= Cap
BY SubstitutionAssumption DEF Cut

\* What was cut before is not missed.
LEMMA CutTwice ==
  ASSUME NEW a \in Seq(Nat), NEW b \in Seq(Nat)
  PROVE  Cut(Cut(a) \o b) = Cut(a \o b)
<1>1. CASE Len(a) < Cap
  <2>1. Cut(a) = a
    BY <1>1, SubstitutionAssumption DEF Cut
  <2> QED
    BY <2>1
<1>2. CASE ~(Len(a) < Cap)
  <2> DEFINE c == SubSeq(a, 1, Cap)
  <2>1. Cut(a) = c /\ c \in Seq(Nat) /\ Len(c) = Cap
    BY <1>2, SubstitutionAssumption DEF Cut
  <2>2. \A i \in 1 .. Cap : c[i] = a[i]
    BY <1>2, SubstitutionAssumption
  <2> HIDE DEF c
  <2>3. Cut(c \o b) = c
    BY <2>1, SubstitutionAssumption DEF Cut
  <2>4. Cut(a \o b) = c
    BY <1>2, <2>1, <2>2, SubstitutionAssumption DEF Cut
  <2> QED
    BY <2>1, <2>3, <2>4
<1> QED
  BY <1>1, <1>2

\* Nothing is added to a full buffer.
LEMMA CutFull ==
  ASSUME NEW a \in Seq(Nat), NEW b \in Seq(Nat), Len(Cut(a)) >= Cap
  PROVE  Cut(a \o b) = Cut(a)
BY SubstitutionAssumption DEF Cut

\* A buffer that is full before the end of the template is as at its end.
LEMMA CutStays ==
  ASSUME NEW t \in Seq(Nat), NEW m \in Seq(Seq(Nat)),
         NEW j \in 0 .. Len(t), Len(Cut(UpTo(t, m, j))) >= Cap
  PROVE  Cut(UpTo(t, m, Len(t))) = Cut(UpTo(t, m, j))
<1> DEFINE T == {i \in j .. Len(t) : Cut(UpTo(t, m, i)) # Cut(UpTo(t, m, j))}
<1> SUFFICES ASSUME T # {} PROVE FALSE
  OBVIOUS
<1>1. PICK i \in T : \A l \in T : i <= l
  <2>1. T \subseteq Nat
    OBVIOUS
  <2> HIDE DEF T
  <2> QED
    BY <2>1, LeastNatural
<1>2. i \in j + 1 .. Len(t) /\ Cut(UpTo(t, m, i)) # Cut(UpTo(t, m, j))
  OBVIOUS
<1>3. i - 1 \in j .. Len(t) /\ i - 1 \notin T
  BY <1>1, <1>2
<1>4. Cut(UpTo(t, m, i - 1)) = Cut(UpTo(t, m, j))
  BY <1>3
<1>5. /\ UpTo(t, m, i - 1) \in Seq(Nat)
      /\ UpTo(t, m, i) = UpTo(t, m, i - 1) \o Piece(t, m, i)
  <2>1. i - 1 \in 0 .. Len(t) - 1 /\ (i - 1) + 1 = i
    BY <1>2
  <2> QED
    BY <2>1, UpToMore
<1>6. Piece(t, m, i) \in Seq(Nat)
  BY <1>2, PieceType
<1> QED
  BY <1>2, <1>4, <1>5, <1>6, CutFull

-----------------------------------------------------------------------------
\* How far the loop has come.
Converted ==
  /\ index = << >> /\ x \in 0 .. Len(data)
  /\ \A h \in 1 .. x : \A j \in h .. Len(data) : Ref(data, h, j) => j <= x
  /\ substituted = Cut(UpTo(data, match, x))

LoopInv ==
  /\ data \in Templates /\ match \in Matches
  /\ x \in Int /\ index \in Seq(Nat) /\ Len(index) < IndexSize
  /\ substituted \in Seq(Nat) /\ Len(substituted) <= Cap /\ done \in BOOLEAN
  /\ WellFormed(data) => Converted
  /\ done => Len(substituted) >= Cap \/ x \notin 0 .. Len(data) - 1

\* The arguments are strings.
LEMMA Arguments ==
  ASSUME LoopInv
  PROVE  data \in Seq(Nat) /\ match \in Seq(Seq(Nat)) /\ Len(data) \in Nat
BY SubstitutionAssumption DEF LoopInv

\* The digits that are taken.
TakesDigits(e) ==
  /\ \A i \in From .. From + e - 1 : IsDigit(At(i))
  /\ Len(index) + e < IndexSize
  /\ ~IsDigit(At(From + e)) \/ Len(index) + e + 1 = IndexSize

\* The loop is at a $, and looks past a brace.
LEMMA AtDollarIs ==
  ASSUME LoopInv, AtDollar
  PROVE  /\ x \in 0 .. Len(data) - 1 /\ data[x + 1] = Dollar
         /\ brace \in {0, 1} /\ From = x + 1 + brace /\ From <= Len(data)
         /\ brace = 1 => x + 2 <= Len(data) /\ data[x + 2] = Open
         /\ brace = 0 => (x + 2 <= Len(data) => data[x + 2] # Open)
<1>1. x \in 0 .. Len(data) - 1 /\ data[x + 1] = Dollar
  BY Arguments DEF AtDollar, More, At
<1>2. brace \in {0, 1} /\ From = x + 1 + brace
  BY DEF brace, From
<1>3. brace = 1 => x + 2 <= Len(data) /\ data[x + 2] = Open
  BY <1>1, Arguments DEF brace, At, Open
<1>4. brace = 0 => (x + 2 <= Len(data) => data[x + 2] # Open)
  BY <1>1, Arguments DEF brace, At, Open
<1> QED
  BY <1>1, <1>2, <1>3, <1>4, Arguments

\* There is such a number of digits, none of them past the end.
LEMMA RunTaken ==
  ASSUME LoopInv, AtDollar
  PROVE  /\ Run \in 0 .. Len(data) /\ TakesDigits(Run)
         /\ From + Run <= Len(data)
<1> DEFINE T == {e \in Nat : ~IsDigit(At(From + e)) \/ Len(index) + e + 1 = IndexSize}
<1>1. /\ From \in Nat /\ From <= Len(data) /\ Len(data) \in Nat
      /\ Len(index) \in Nat /\ Len(index) < IndexSize /\ IndexSize \in Nat
  BY AtDollarIs, Arguments, SubstitutionAssumption DEF LoopInv
<1>2. \A i \in Nat : i >= Len(data) => ~IsDigit(At(i))
  BY <1>1 DEF At, IsDigit
<1>3. Len(data) - From \in T
  <2>1. Len(data) - From \in Nat /\ From + (Len(data) - From) = Len(data)
    BY <1>1
  <2> QED
    BY <2>1, <1>2, <1>1
<1>4. PICK e \in T : \A j \in T : e <= j
  <2>1. T \subseteq Nat
    OBVIOUS
  <2> HIDE DEF T
  <2> QED
    BY <2>1, <1>3, LeastNatural
<1>5. e \in 0 .. Len(data) - From
  <2>1. e \in Nat
    OBVIOUS
  <2> HIDE DEF T
  <2> QED
    BY <2>1, <1>3, <1>4, <1>1
<1>6. \A i \in From .. From + e - 1 : IsDigit(At(i))
  <2> SUFFICES ASSUME NEW i \in From .. From + e - 1 PROVE IsDigit(At(i))
    OBVIOUS
  <2>1. i - From \in Nat /\ i - From < e /\ From + (i - From) = i
    BY <1>1, <1>5
  <2>2. i - From \notin T
    BY <2>1, <1>4, <1>5
  <2> QED
    BY <2>1, <2>2
<1>7. Len(index) + e < IndexSize
  <2> SUFFICES ASSUME Len(index) + e >= IndexSize PROVE FALSE
    BY <1>1, <1>5
  <2> DEFINE i == IndexSize - 1 - Len(index)
  <2>1. i \in Nat /\ i < e /\ Len(index) + i + 1 = IndexSize
    BY <1>1, <1>5
  <2>2. i \in T
    BY <2>1
  <2> HIDE DEF i, T
  <2> QED
    BY <2>1, <2>2, <1>4, <1>5, <1>1
<1>8. TakesDigits(e) /\ e \in 0 .. Len(data)
  BY <1>4, <1>5, <1>6, <1>7, <1>1 DEF TakesDigits
<1>9. Run \in 0 .. Len(data) /\ TakesDigits(Run)
  BY <1>8 DEF Run, TakesDigits
<1>10. From + Run <= Len(data)
  <2> SUFFICES ASSUME From + Run > Len(data) PROVE FALSE
    BY <1>1, <1>9
  <2>1. From + Run - 1 \in From .. From + Run - 1 /\ From + Run - 1 >= Len(data)
        /\ From + Run - 1 \in Nat
    BY <1>1, <1>9
  <2>2. IsDigit(At(From + Run - 1))
    BY <2>1, <1>9 DEF TakesDigits
  <2> QED
    BY <2>1, <2>2, <1>2
<1> QED
  BY <1>9, <1>10

\* Where all the digits have room, all are taken.
LEMMA RunIs ==
  ASSUME LoopInv, AtDollar, index = << >>, NEW m \in Nat, m < IndexSize,
         \A i \in From .. From + m - 1 : IsDigit(At(i)), ~IsDigit(At(From + m))
  PROVE  Run = m /\ Digits = SubSeq(data, From + 1, From + m)
<1>1. Run \in 0 .. Len(data) /\ TakesDigits(Run) /\ From \in Nat /\ Len(data) \in Nat
      /\ IndexSize \in Nat /\ From + Run <= Len(data)
  <2>1. From \in Nat /\ Len(data) \in Nat
    <3>1. x \in 0 .. Len(data) - 1 /\ Len(data) \in Nat
      BY AtDollarIs, Arguments
    <3>2. brace \in {0, 1} /\ From = x + 1 + brace
      BY AtDollarIs
    <3> QED
      BY <3>1, <3>2
  <2>2. IndexSize \in Nat
    BY SubstitutionAssumption
  <2>3. Run \in 0 .. Len(data) /\ TakesDigits(Run) /\ From + Run <= Len(data)
    BY RunTaken
  <2> QED
    BY <2>1, <2>2, <2>3
<1>2. ~(Run < m)
  <2> SUFFICES ASSUME Run < m PROVE FALSE
    OBVIOUS
  <2>1. From + Run \in From .. From + m - 1
    BY <1>1
  <2>2. 0 + Run + 1 = IndexSize
    BY <2>1, <1>1 DEF TakesDigits
  <2> QED
    BY <2>2, <1>1
<1>3. ~(m < Run)
  <2> SUFFICES ASSUME m < Run PROVE FALSE
    OBVIOUS
  <2>1. From + m \in From .. From + Run - 1
    BY <1>1
  <2> QED
    BY <2>1, <1>1 DEF TakesDigits
<1>4. Run = m
  BY <1>1, <1>2, <1>3
<1>5. << >> \o SubSeq(data, From + 1, From + m) = SubSeq(data, From + 1, From + m)
  <2>1. SubSeq(data, From + 1, From + m) \in Seq(Nat)
    BY <1>1, <1>4, Arguments
  <2> QED
    BY <2>1
<1> QED
  BY <1>4, <1>5 DEF Digits

\* The loop takes a reference whole.
FoundTo(j) ==
  /\ Ref(data, x + 1, j) /\ Digits = RefDigits(data, x + 1, j)
  /\ brace = 1 => At(To) = Close
  /\ To + brace = j

\* A digit after $ begins a reference.
LEMMA BareFound ==
  ASSUME LoopInv, WellFormed(data), Converted, AtDollar, IsDigit(At(From)), brace = 0
  PROVE  \E j \in x + 2 .. Len(data) : FoundTo(j)
<1> DEFINE T == {e \in Nat : ~IsDigit(At(From + e))}
<1>1. /\ x \in 0 .. Len(data) - 1 /\ data[x + 1] = Dollar
      /\ From = x + 1 /\ Len(data) \in Nat /\ data \in Seq(Nat)
  BY AtDollarIs, Arguments
<1>2. \A i \in Nat : i >= Len(data) => ~IsDigit(At(i))
  BY <1>1 DEF At, IsDigit
<1>3. PICK e \in T : \A j \in T : e <= j
  <2>1. Len(data) - From \in Nat /\ From + (Len(data) - From) = Len(data)
    BY <1>1
  <2>2. Len(data) - From \in T
    BY <2>1, <1>2, <1>1
  <2>3. T \subseteq Nat
    OBVIOUS
  <2> HIDE DEF T
  <2> QED
    BY <2>2, <2>3, LeastNatural
<1>4. e \in Nat /\ ~IsDigit(At(From + e))
  OBVIOUS
<1>5. e # 0
  BY <1>4, <1>1
<1>6. \A i \in From .. From + e - 1 : IsDigit(At(i))
  <2> SUFFICES ASSUME NEW i \in From .. From + e - 1 PROVE IsDigit(At(i))
    OBVIOUS
  <2>1. i - From \in Nat /\ i - From < e /\ From + (i - From) = i
    BY <1>1, <1>4
  <2>2. i - From \notin T
    BY <2>1, <1>3, <1>4
  <2> QED
    BY <2>1, <2>2
<1>7. From + e <= Len(data)
  <2>1. From + e - 1 \in From .. From + e - 1 /\ From + e - 1 \in Nat
    BY <1>1, <1>4, <1>5
  <2>2. IsDigit(At(From + e - 1))
    BY <2>1, <1>6
  <2> QED
    BY <2>1, <2>2, <1>2, <1>1, <1>4
<1> DEFINE j == From + e
<1>8. \A i \in x + 2 .. j : IsDigit(data[i])
  <2> SUFFICES ASSUME NEW i \in x + 2 .. j PROVE IsDigit(data[i])
    OBVIOUS
  <2>1. i - 1 \in From .. From + e - 1 /\ i - 1 < Len(data) /\ (i - 1) + 1 = i
    BY <1>1, <1>4, <1>7
  <2> QED
    BY <2>1, <1>6 DEF At
<1>9. j = Len(data) \/ ~IsDigit(data[j + 1])
  <2>1. j = From + e /\ j \in Nat /\ j <= Len(data)
    BY <1>1, <1>4, <1>7
  <2>2. ~IsDigit(At(j))
    BY <1>4
  <2> HIDE DEF j, T
  <2> QED
    BY <2>1, <2>2, <1>1 DEF At
<1>10. j \in x + 2 .. Len(data) /\ (x + 1) + 1 = x + 2 /\ x + 1 \in 1 .. Len(data)
       /\ j \in x + 1 .. Len(data)
  BY <1>1, <1>4, <1>5, <1>7
<1>11. Ref(data, x + 1, j)
  <2> HIDE DEF j, T
  <2> QED
    BY <1>1, <1>8, <1>9, <1>10 DEF Ref, Bare, DigitsIn
<1>12. RefDigits(data, x + 1, j) = SubSeq(data, x + 2, j)
  <2>1. data[x + 2] # Open
    BY <1>10, AtDollarIs
  <2> HIDE DEF j
  <2> QED
    BY <2>1, <1>10 DEF RefDigits
<1>13. e < IndexSize
  <2>1. Len(RefDigits(data, x + 1, j)) < IndexSize
    <3> HIDE DEF j
    <3> QED
      BY <1>10, <1>11 DEF WellFormed
  <2>2. Len(SubSeq(data, x + 2, j)) = e
    BY <1>1, <1>4, <1>10
  <2> QED
    BY <2>1, <2>2, <1>12
<1>14. Run = e /\ Digits = SubSeq(data, From + 1, From + e)
  <2>1. index = << >>
    BY DEF Converted
  <2> HIDE DEF T, j
  <2> QED
    BY <2>1, <1>4, <1>6, <1>13, RunIs
<1>15. FoundTo(j)
  <2>1. To + brace = j
    BY <1>14, <1>1, <1>4 DEF To
  <2>2. Digits = RefDigits(data, x + 1, j)
    BY <1>12, <1>14, <1>1
  <2> HIDE DEF j, T
  <2> QED
    BY <1>11, <2>1, <2>2 DEF FoundTo
<1> HIDE DEF j, T
<1> QED
  BY <1>10, <1>15

\* A digit after a brace begins one that is closed.
LEMMA BracedFound ==
  ASSUME LoopInv, WellFormed(data), Converted, AtDollar, IsDigit(At(From)), brace = 1
  PROVE  \E j \in x + 2 .. Len(data) : FoundTo(j)
<1>1. /\ x \in 0 .. Len(data) - 1 /\ data[x + 1] = Dollar
      /\ From = x + 2 /\ x + 2 <= Len(data) /\ data[x + 2] = Open
      /\ Len(data) \in Nat /\ data \in Seq(Nat)
  BY AtDollarIs, Arguments
<1>2. x + 3 <= Len(data) /\ IsDigit(data[x + 3])
  BY <1>1 DEF At, IsDigit
<1>3. PICK j \in x + 1 .. Len(data) : Braced(data, x + 1, j)
  <2>1. x + 1 \in 1 .. Len(data) - 2 /\ (x + 1) + 1 = x + 2 /\ (x + 1) + 2 = x + 3
    BY <1>1, <1>2
  <2>2. \A i \in 1 .. Len(data) - 2 :
          data[i] = Dollar /\ data[i + 1] = Open /\ IsDigit(data[i + 2]) =>
            \E jj \in i .. Len(data) : Braced(data, i, jj)
    BY DEF WellFormed
  <2> QED
    BY <2>1, <2>2, <1>1, <1>2
<1>4. /\ x + 3 <= j - 1 /\ data[j] = Close
      /\ \A i \in x + 3 .. j - 1 : IsDigit(data[i])
  BY <1>3, <1>1 DEF Braced, DigitsIn
<1> DEFINE e == j - 3 - x
<1>5. e \in Nat /\ From + e = j - 1 /\ At(From + e) = Close /\ j \in x + 2 .. Len(data)
  BY <1>1, <1>3, <1>4 DEF At
<1>6. \A i \in From .. From + e - 1 : IsDigit(At(i))
  <2> SUFFICES ASSUME NEW i \in From .. From + e - 1 PROVE IsDigit(At(i))
    OBVIOUS
  <2>1. i + 1 \in x + 3 .. j - 1 /\ i < Len(data)
    BY <1>1, <1>3, <1>4
  <2> QED
    BY <2>1, <1>4 DEF At
<1>7. Ref(data, x + 1, j) /\ RefDigits(data, x + 1, j) = SubSeq(data, x + 3, j - 1)
  <2>1. (x + 1) + 1 = x + 2 /\ (x + 1) + 2 = x + 3
    BY <1>1
  <2> QED
    BY <2>1, <1>1, <1>3 DEF Ref, RefDigits
<1>8. e < IndexSize
  <2>1. Len(RefDigits(data, x + 1, j)) < IndexSize
    <3>1. x + 1 \in 1 .. Len(data)
      BY <1>1
    <3> QED
      BY <3>1, <1>7, <1>3 DEF WellFormed
  <2>2. Len(SubSeq(data, x + 3, j - 1)) = e
    BY <1>1, <1>3, <1>4
  <2> QED
    BY <2>1, <2>2, <1>7
<1>9. Run = e /\ Digits = SubSeq(data, From + 1, From + e)
  <2>1. index = << >> /\ ~IsDigit(At(From + e))
    BY <1>5 DEF Converted, IsDigit, Close
  <2> HIDE DEF e
  <2> QED
    BY <2>1, <1>5, <1>6, <1>8, RunIs
<1>10. FoundTo(j)
  <2>1. To + brace = j /\ At(To) = Close
    BY <1>9, <1>1, <1>5 DEF To
  <2>2. Digits = RefDigits(data, x + 1, j)
    BY <1>7, <1>9, <1>1, <1>5
  <2> HIDE DEF e
  <2> QED
    BY <1>7, <2>1, <2>2 DEF FoundTo
<1> QED
  BY <1>5, <1>10

\* A place at which no reference starts, and that is in none.
LEMMA PlaceItself ==
  ASSUME LoopInv, Converted, x \in 0 .. Len(data) - 1,
         \A j \in x + 1 .. Len(data) : ~Ref(data, x + 1, j)
  PROVE  Piece(data, match, x + 1) = <<data[x + 1]>>
<1>1. \A h \in 1 .. (x + 1) - 1 : \A j \in x + 1 .. Len(data) : ~Ref(data, h, j)
  <2> SUFFICES ASSUME NEW h \in 1 .. (x + 1) - 1, NEW j \in x + 1 .. Len(data),
                      Ref(data, h, j)
               PROVE  FALSE
    OBVIOUS
  <2>1. h \in 1 .. x /\ j \in h .. Len(data) /\ ~(j <= x)
    BY Arguments
  <2> QED
    BY <2>1 DEF Converted
<1> QED
  BY <1>1, Zenon DEF Piece

\* A reference stands for what its group has matched.
LEMMA PlaceOfReference ==
  ASSUME LoopInv, x \in 0 .. Len(data) - 1, NEW j \in x + 1 .. Len(data),
         Ref(data, x + 1, j)
  PROVE  /\ Piece(data, match, x + 1) = Group(match, atoi(RefDigits(data, x + 1, j)))
         /\ \A i \in x + 2 .. j : data[i] # Dollar /\ Piece(data, match, i) = << >>
<1> DEFINE c == CHOOSE e \in x + 1 .. Len(data) : Ref(data, x + 1, e)
<1>1. c \in x + 1 .. Len(data) /\ Ref(data, x + 1, c)
  OBVIOUS
<1>2. c = j
  <2>1. x + 1 \in 1 .. Len(data)
    BY Arguments
  <2> HIDE DEF c
  <2> QED
    BY <2>1, <1>1, Arguments, RefUnique
<1>3. Piece(data, match, x + 1) = Group(match, atoi(RefDigits(data, x + 1, c)))
  <2>1. \E e \in x + 1 .. Len(data) : Ref(data, x + 1, e)
    OBVIOUS
  <2>2. \A h \in 1 .. (x + 1) - 1 : \A e \in x + 1 .. Len(data) : ~Ref(data, h, e)
    <3> SUFFICES ASSUME NEW h \in 1 .. (x + 1) - 1, NEW e \in x + 1 .. Len(data),
                        Ref(data, h, e)
                 PROVE  FALSE
      OBVIOUS
    <3>1. data[x + 1] = Dollar
      BY DEF Ref, Bare, Braced
    <3>2. h \in 1 .. Len(data) /\ e \in h .. Len(data) /\ x + 1 \in h + 1 .. e
      BY Arguments
    <3> QED
      BY <3>1, <3>2, Arguments, RefInside
  <2> QED
    BY <2>1, <2>2, Zenon DEF Piece
<1>4. ASSUME NEW i \in x + 2 .. j
      PROVE  data[i] # Dollar /\ Piece(data, match, i) = << >>
  <2>1. data[i] # Dollar
    <3>1. x + 1 \in 1 .. Len(data) /\ (x + 1) + 1 = x + 2
      BY Arguments
    <3> QED
      BY <3>1, Arguments, RefInside
  <2>2. \A e \in i .. Len(data) : ~Ref(data, i, e)
    BY <2>1 DEF Ref, Bare, Braced
  <2>3. x + 1 \in 1 .. i - 1 /\ j \in i .. Len(data)
    BY Arguments
  <2> QED
    BY <2>1, <2>2, <2>3, Zenon DEF Piece
<1> HIDE DEF c
<1> QED
  BY <1>2, <1>3, <1>4

-----------------------------------------------------------------------------
\* One step of the loop.
LEMMA OnePlaceMore ==
  ASSUME LoopInv, Converted, x \in 0 .. Len(data) - 1,
         \A j \in x + 1 .. Len(data) : ~Ref(data, x + 1, j),
         substituted' = Cut(substituted \o <<data[x + 1]>>), x' = x + 1,
         UNCHANGED <<data, match, index, done>>
  PROVE  Converted'
<1>1. /\ data \in Seq(Nat) /\ match \in Seq(Seq(Nat)) /\ Len(data) \in Nat
      /\ <<data[x + 1]>> \in Seq(Nat)
  BY Arguments
<1>2. /\ UpTo(data, match, x) \in Seq(Nat)
      /\ UpTo(data, match, x + 1) = UpTo(data, match, x) \o <<data[x + 1]>>
  BY <1>1, UpToMore, PlaceItself
<1>3. substituted' = Cut(UpTo(data, match, x + 1))
  <2>1. substituted = Cut(UpTo(data, match, x))
    BY DEF Converted
  <2> QED
    BY <2>1, <1>1, <1>2, CutTwice
<1>4. \A h \in 1 .. x + 1 : \A j \in h .. Len(data) : Ref(data, h, j) => j <= x + 1
  <2> SUFFICES ASSUME NEW h \in 1 .. x + 1, NEW j \in h .. Len(data), Ref(data, h, j)
               PROVE  j <= x + 1
    OBVIOUS
  <2>1. h # x + 1
    OBVIOUS
  <2>2. h \in 1 .. x
    BY <2>1
  <2>3. j <= x
    BY <2>2 DEF Converted
  <2> QED
    BY <2>3, <1>1
<1>5. index' = << >> /\ x' \in 0 .. Len(data)
  BY <1>1 DEF Converted
<1> QED
  BY <1>3, <1>4, <1>5 DEF Converted

\* Nothing has been put yet.
LEMMA LoopInvInit == LoopInit => LoopInv
<1> SUFFICES ASSUME LoopInit PROVE LoopInv
  OBVIOUS
<1>1. data \in Seq(Nat) /\ match \in Seq(Seq(Nat)) /\ Len(data) \in Nat
  BY SubstitutionAssumption DEF LoopInit
<1>2. Cut(UpTo(data, match, 0)) = << >>
  BY SubstitutionAssumption DEF UpTo, FlattenSeq, Cut
<1>3. Converted
  BY <1>1, <1>2 DEF Converted, LoopInit
<1> QED
  <2>1. << >> \in Seq(Nat) /\ Len(<< >>) = 0
    OBVIOUS
  <2>2. 0 < IndexSize /\ 0 <= Cap /\ 0 \in Int
    BY SubstitutionAssumption
  <2> QED
    BY <1>3, <2>1, <2>2 DEF LoopInv, LoopInit

\* What is put is cut to the size of the buffer.
LEMMA PutType ==
  ASSUME LoopInv, NEW s \in Seq(Nat), Put(s)
  PROVE  substituted' \in Seq(Nat) /\ Len(substituted') <= Cap
<1>1. substituted \o s \in Seq(Nat)
  BY DEF LoopInv
<1> QED
  BY <1>1, CutType DEF Put

\* A character that is no $.
LEMMA OrdinaryKeeps ==
  ASSUME LoopInv, Ordinary
  PROVE  LoopInv'
<1>1. /\ x \in 0 .. Len(data) - 1 /\ At(x) = data[x + 1] /\ data[x + 1] # Dollar
      /\ data[x + 1] \in Nat /\ ~done
  BY Arguments DEF Ordinary, More, At
<1>2. substituted' \in Seq(Nat) /\ Len(substituted') <= Cap
  <2>1. <<At(x)>> \in Seq(Nat) /\ Put(<<At(x)>>)
    BY <1>1 DEF Ordinary
  <2> QED
    BY <2>1, PutType
<1>3. WellFormed(data) => Converted'
  <2> SUFFICES ASSUME WellFormed(data) PROVE Converted'
    OBVIOUS
  <2>1. Converted
    BY DEF LoopInv
  <2>2. \A j \in x + 1 .. Len(data) : ~Ref(data, x + 1, j)
    BY <1>1 DEF Ref, Bare, Braced
  <2>3. /\ substituted' = Cut(substituted \o <<data[x + 1]>>) /\ x' = x + 1
        /\ UNCHANGED <<data, match, index, done>>
    BY <1>1 DEF Ordinary, Put
  <2> QED
    BY <1>1, <2>1, <2>2, <2>3, OnePlaceMore
<1>4. UNCHANGED <<data, match, index, done>> /\ x' \in Int
  BY <1>1 DEF Ordinary
<1> QED
  BY <1>1, <1>2, <1>3, <1>4 DEF LoopInv

\* A $ without digits.
LEMMA NoReferenceKeeps ==
  ASSUME LoopInv, NoReference
  PROVE  LoopInv'
<1>1. AtDollar /\ ~IsDigit(At(From)) /\ ~done
  BY DEF NoReference, AtDollar, More
<1>2. /\ x \in 0 .. Len(data) - 1 /\ data[x + 1] = Dollar
      /\ brace \in {0, 1} /\ From = x + 1 + brace /\ From <= Len(data)
      /\ brace = 1 => x + 2 <= Len(data) /\ data[x + 2] = Open
      /\ brace = 0 => (x + 2 <= Len(data) => data[x + 2] # Open)
      /\ data \in Seq(Nat) /\ Len(data) \in Nat
  BY <1>1, AtDollarIs, Arguments
<1>3. substituted' \in Seq(Nat) /\ Len(substituted') <= Cap
  <2>1. <<Dollar>> \in Seq(Nat) /\ Put(<<Dollar>>)
    BY DEF NoReference, Dollar
  <2> QED
    BY <2>1, PutType
<1>4. \A j \in x + 1 .. Len(data) : ~Ref(data, x + 1, j)
  <2> SUFFICES ASSUME NEW j \in x + 1 .. Len(data), Ref(data, x + 1, j) PROVE FALSE
    OBVIOUS
  <2>0. (x + 1) + 1 = x + 2 /\ (x + 1) + 2 = x + 3
    BY <1>2
  <2>1. CASE Bare(data, x + 1, j)
    <3>1. x + 2 <= Len(data) /\ IsDigit(data[x + 2])
      BY <2>0, <2>1, <1>2 DEF Bare, DigitsIn
    <3>2. data[x + 2] # Open
      BY <3>1, <1>2 DEF IsDigit, Open
    <3>3. At(From) = data[x + 2]
      BY <3>1, <3>2, <1>2 DEF At
    <3> QED
      BY <3>1, <3>3, <1>1
  <2>2. CASE Braced(data, x + 1, j)
    <3>1. x + 3 <= Len(data) /\ IsDigit(data[x + 3]) /\ data[x + 2] = Open
      BY <2>0, <2>2, <1>2 DEF Braced, DigitsIn
    <3>2. At(From) = data[x + 3]
      BY <3>1, <1>2 DEF At
    <3> QED
      BY <3>1, <3>2, <1>1
  <2> QED
    BY <2>1, <2>2 DEF Ref
<1>5. WellFormed(data) => Converted'
  <2> SUFFICES ASSUME WellFormed(data) PROVE Converted'
    OBVIOUS
  <2>1. Converted
    BY DEF LoopInv
  <2>2. /\ substituted' = Cut(substituted \o <<data[x + 1]>>) /\ x' = x + 1
        /\ UNCHANGED <<data, match, index, done>>
    BY <1>2 DEF NoReference, Put
  <2> QED
    BY <1>2, <2>1, <2>2, <1>4, OnePlaceMore
<1>6. UNCHANGED <<data, match, index, done>> /\ x' \in Int
  BY <1>2 DEF NoReference
<1> QED
  BY <1>1, <1>3, <1>5, <1>6 DEF LoopInv

\* A reference, with or without braces.
LEMMA Referred ==
  ASSUME LoopInv, WellFormed(data), AtDollar, IsDigit(At(From))
  PROVE  \E j \in x + 2 .. Len(data) : FoundTo(j)
<1>1. Converted
  BY DEF LoopInv
<1> QED
  BY <1>1, AtDollarIs, BareFound, BracedFound

\* A brace that is not closed: no well formed template leads here.
LEMMA UnclosedKeeps ==
  ASSUME LoopInv, Unclosed
  PROVE  LoopInv'
<1>1. AtDollar /\ IsDigit(At(From)) /\ brace = 1 /\ At(To) # Close /\ ~done
  BY DEF Unclosed, AtDollar, More
<1>2. ~WellFormed(data)
  BY <1>1, Referred DEF FoundTo
<1>3. /\ Run \in 0 .. Len(data) /\ TakesDigits(Run) /\ From + Run <= Len(data)
      /\ From \in Nat /\ data \in Seq(Nat) /\ Len(data) \in Nat /\ index \in Seq(Nat)
  <2>1. From \in Nat /\ data \in Seq(Nat) /\ Len(data) \in Nat
    BY <1>1, AtDollarIs, Arguments
  <2> QED
    BY <2>1, <1>1, RunTaken DEF LoopInv
<1>4. Digits \in Seq(Nat) /\ Len(Digits) < IndexSize /\ Len(Digits) \in Nat
  <2>1. SubSeq(data, From + 1, From + Run) \in Seq(Nat)
        /\ Len(SubSeq(data, From + 1, From + Run)) = Run
    BY <1>3
  <2>2. Digits \in Seq(Nat) /\ Len(Digits) = Len(index) + Run
    BY <2>1, <1>3 DEF Digits
  <2> QED
    BY <2>2, <1>3 DEF TakesDigits
<1>5. x' \in Int /\ x' <= Len(data) + 1
  BY <1>3, <1>4 DEF Unclosed, To
<1>6. PICK c \in Outside : Put(<<IF x' > 0 THEN At(x' - 1) ELSE c>>)
  BY DEF Unclosed
<1>7. substituted' \in Seq(Nat) /\ Len(substituted') <= Cap
  <2>1. x' > 0 => At(x' - 1) \in Nat
    BY <1>3, <1>5 DEF At
  <2>2. c \in Nat
    BY SubstitutionAssumption
  <2>3. <<IF x' > 0 THEN At(x' - 1) ELSE c>> \in Seq(Nat)
    BY <2>1, <2>2
  <2> QED
    BY <2>3, <1>6, PutType
<1>8. UNCHANGED <<data, match, done>> /\ index' = Digits
  BY DEF Unclosed
<1> QED
  BY <1>1, <1>2, <1>4, <1>5, <1>7, <1>8 DEF LoopInv

\* A reference is replaced by what its group has matched.
LEMMA ReferenceKeeps ==
  ASSUME LoopInv, Reference
  PROVE  LoopInv'
<1>1. AtDollar /\ IsDigit(At(From)) /\ ~done
  BY DEF Reference, AtDollar, More
<1>2. /\ x \in 0 .. Len(data) - 1 /\ data \in Seq(Nat) /\ Len(data) \in Nat
      /\ match \in Seq(Seq(Nat)) /\ brace \in {0, 1}
      /\ Run \in 0 .. Len(data) /\ From \in Nat
  <2>1. x \in 0 .. Len(data) - 1 /\ brace \in {0, 1} /\ From \in Nat
    BY <1>1, AtDollarIs, Arguments
  <2> QED
    BY <2>1, <1>1, Arguments, RunTaken
<1>3. \A n : Group(match, n) \in Seq(Nat)
  <2>1. \A e \in DOMAIN match : match[e] \in Seq(Nat)
    BY <1>2
  <2> QED
    BY <2>1 DEF Group
<1>4. substituted' \in Seq(Nat) /\ Len(substituted') <= Cap
  BY <1>3, PutType DEF Reference
<1>5. UNCHANGED <<data, match, done>> /\ index' = << >> /\ x' = To + brace /\ x' \in Int
  BY <1>2 DEF Reference, To
<1>6. WellFormed(data) => Converted'
  <2> SUFFICES ASSUME WellFormed(data) PROVE Converted'
    OBVIOUS
  <2>1. Converted
    BY DEF LoopInv
  <2>2. PICK j \in x + 2 .. Len(data) : FoundTo(j)
    BY <1>1, Referred
  <2> DEFINE s == Group(match, atoi(RefDigits(data, x + 1, j)))
  <2>3. /\ Ref(data, x + 1, j) /\ x' = j
        /\ substituted' = Cut(substituted \o s)
    BY <2>2, <1>5 DEF FoundTo, Reference, Put
  <2>4. j \in x + 1 .. Len(data) /\ x + 1 \in 0 .. Len(data) /\ j \in 0 .. Len(data)
    BY <1>2
  <2>5. /\ Piece(data, match, x + 1) = s
        /\ \A i \in x + 2 .. j : data[i] # Dollar /\ Piece(data, match, i) = << >>
    BY <1>2, <2>3, <2>4, PlaceOfReference
  <2>6. UpTo(data, match, j) = UpTo(data, match, x + 1)
    <3>1. \A i \in (x + 1) + 1 .. j : Piece(data, match, i) = << >>
      <4>1. (x + 1) + 1 = x + 2
        BY <1>2
      <4> QED
        BY <4>1, <2>5
    <3> QED
      BY <3>1, <2>4, <1>2, UpToSame
  <2>7. substituted' = Cut(UpTo(data, match, j))
    <3>1. s \in Seq(Nat) /\ substituted = Cut(UpTo(data, match, x))
      BY <1>3, <2>1 DEF Converted
    <3>2. /\ UpTo(data, match, x) \in Seq(Nat)
          /\ UpTo(data, match, x + 1) = UpTo(data, match, x) \o s
      BY <1>2, <2>5, UpToMore
    <3> HIDE DEF s
    <3>3. Cut(Cut(UpTo(data, match, x)) \o s) = Cut(UpTo(data, match, x) \o s)
      BY <3>1, <3>2, CutTwice
    <3> QED
      BY <3>1, <3>2, <3>3, <2>3, <2>6
  <2>8. \A h \in 1 .. j : \A e \in h .. Len(data) : Ref(data, h, e) => e <= j
    <3> SUFFICES ASSUME NEW h \in 1 .. j, NEW e \in h .. Len(data), Ref(data, h, e)
                 PROVE  e <= j
      OBVIOUS
    <3>1. CASE h \in 1 .. x
      <4>1. e <= x
        BY <3>1, <2>1 DEF Converted
      <4> QED
        BY <4>1, <1>2, <2>4
    <3>2. CASE h = x + 1
      <4>1. x + 1 \in 1 .. Len(data) /\ e \in x + 1 .. Len(data) /\ Ref(data, x + 1, e)
        BY <3>2, <2>4, <1>2
      <4>2. e = j
        BY <4>1, <2>3, <2>4, <1>2, RefUnique
      <4> QED
        BY <4>2, <1>2, <2>4
    <3>3. CASE h \in x + 2 .. j
      <4>1. data[h] = Dollar
        BY DEF Ref, Bare, Braced
      <4> QED
        BY <4>1, <3>3, <2>5
    <3> QED
      BY <3>1, <3>2, <3>3, <1>2
  <2> QED
    BY <2>3, <2>4, <2>7, <2>8, <1>5 DEF Converted
<1> QED
  BY <1>1, <1>4, <1>5, <1>6, SubstitutionAssumption DEF LoopInv

\* The loop ends at the end of the template or of the buffer.
LEMMA EndKeeps ==
  ASSUME LoopInv, End
  PROVE  LoopInv'
<1>1. Len(substituted) >= Cap \/ x \notin 0 .. Len(data) - 1
  BY SubstitutionAssumption DEF End, More, LoopInv
<1>2. WellFormed(data) => Converted'
  BY DEF LoopInv, Converted, End
<1> QED
  BY <1>1, <1>2 DEF LoopInv, End

\* What is known of the loop at every step: as long as the template is well
\* formed the result is what its places so far stand for.
THEOREM ConvertedSoFar == LoopSpec => []LoopInv
<1>1. LoopInv /\ UNCHANGED loopVars => LoopInv'
  BY DEF LoopInv, Converted, loopVars
<1>2. LoopInv /\ [LoopNext]_loopVars => LoopInv'
  BY <1>1, OrdinaryKeeps, NoReferenceKeeps, UnclosedKeeps, ReferenceKeeps, EndKeeps
  DEF LoopNext
<1> QED
  BY <1>2, LoopInvInit, PTL DEF LoopSpec

\* At the end that is the whole template, or the buffer is full.
LEMMA ConvertedIsRight == LoopInv => ResultRight
<1> SUFFICES ASSUME LoopInv PROVE ResultRight
  OBVIOUS
<1>1. data \in Seq(Nat) /\ match \in Seq(Seq(Nat)) /\ Len(data) \in Nat
  BY Arguments
<1>2. LoopTypeOK
  BY DEF LoopTypeOK, LoopInv, Converted
<1>3. done /\ WellFormed(data) => substituted = Cut(Expanded(data, match))
  <2> SUFFICES ASSUME done, WellFormed(data)
               PROVE  substituted = Cut(Expanded(data, match))
    OBVIOUS
  <2>1. /\ x \in 0 .. Len(data) /\ substituted = Cut(UpTo(data, match, x))
        /\ Len(substituted) >= Cap \/ x \notin 0 .. Len(data) - 1
    BY DEF LoopInv, Converted
  <2>2. Expanded(data, match) = UpTo(data, match, Len(data))
    BY DEF Expanded, UpTo
  <2>3. CASE x \notin 0 .. Len(data) - 1
    <3>1. x = Len(data)
      BY <2>1, <2>3, <1>1
    <3> QED
      BY <3>1, <2>1, <2>2
  <2>4. CASE Len(substituted) >= Cap
    BY <2>1, <2>2, <2>4, <1>1, CutStays
  <2> QED
    BY <2>1, <2>3, <2>4
<1> QED
  BY <1>2, <1>3 DEF ResultRight

\* Of every template whose braces are closed after digits, and whose references
\* have room in index, whatever was matched: the number that is dialled has each
\* reference replaced by what its group has matched and nothing else changed, up
\* to the size of the buffer.
THEOREM SubstitutionRight == LoopSpec => []ResultRight
BY ConvertedSoFar, ConvertedIsRight, PTL
=============================================================================
