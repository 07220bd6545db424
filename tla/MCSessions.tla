----------------------------- MODULE MCSessions -----------------------------
(***************************************************************************)
(* Calls on small instances: their sessions, the dialplan that leads to    *)
(* them, and the substitution in the data of its rules.  A behaviour       *)
(* belongs to one of these three parts (part), and what belongs to the     *)
(* others stays as it is.                                                  *)
(***************************************************************************)
EXTENDS Sessions, Dialplan, Substitution, TLC

CONSTANT
  MaxTemplate  \* bound: characters in the data of a rule

VARIABLE part

\* Calls, sessions and the UAs of users are interchangeable.
MCSymmetry ==
  Permutations(Calls) \cup Permutations(Sids) \cup Permutations(Uas \ Gateways)

\* Rules like those of the sample configuration, and some that can do nothing.
\* n2 has n1 in it, so that the expression n1, which is not anchored, takes both.
Base == [field |-> "dst-number", shape |-> "plain", text |-> "n1",
         match |-> {"n1", "n2"}, groups |-> 0, app |-> "bridge",
         data |-> <<"user", "u1">>]
MCParts == {"", "$1", "user", "gateway", "u1", "n1", "n2", "pstn", "fxsuser"}
MCNumbers == {"n1", "n2"}
MCUsers == {"u1", "n1"}
MCGatewayNames == {"pstn", "fxsuser"}
MCLikeUser == {"fxsuser"}
MCRules ==
  {Base,
   [Base EXCEPT !.shape = "slashes", !.text = "/n1/", !.match = {"n1"},
                !.groups = 1, !.data = <<"user", "$1">>],
   [Base EXCEPT !.shape = "ast", !.text = "_X", !.groups = 1,
                !.data = <<"gateway", "pstn", "$1">>],
   [Base EXCEPT !.text = "(x)", !.groups = 10,
                !.data = <<"gateway", "pstn", "$1">>],
   [Base EXCEPT !.text = "n2", !.match = {"n2"},
                !.data = <<"gateway", "fxsuser", "$1">>],
   [Base EXCEPT !.shape = "unended", !.text = "/n2", !.data = << >>],
   [Base EXCEPT !.text = "n2", !.match = {"n2"}, !.data = << >>],
   [Base EXCEPT !.text = "()", !.data = <<"$1">>],
   [Base EXCEPT !.text = "n2", !.match = {"n2"}, !.app = "other"],
   [Base EXCEPT !.field = "src-number"]}

\* Every template over $, {, }, a digit and a letter, ${111${1, whose unclosed
\* references lead the position back out of it, and a reference longer than index.
MCTemplates ==
  UNION {[1 .. n -> {36, 123, 125, 49, 97}] : n \in 0 .. MaxTemplate}
    \cup {<<36, 123, 49, 49, 49, 36, 123, 49>>, <<36>> \o [i \in 1 .. 10 |-> 49]}
MCMatches == {<< <<53, 54>>, [i \in 1 .. 10 |-> 47 + i]>>}

\* A part that a behaviour does not belong to has one state.
MCInit ==
  /\ part \in {"session", "dialplan", "data"}
  /\ Init
  /\ PlanInit /\ (part # "dialplan" => rules = << >> /\ number = "n1")
  /\ LoopInit /\ (part # "data" => data = << >>)

MCNext ==
  \/ part = "session" /\ Next /\ UNCHANGED <<part, planVars, loopVars>>
  \/ part = "dialplan" /\ PlanNext /\ UNCHANGED <<part, vars, loopVars>>
  \/ part = "data" /\ LoopNext /\ UNCHANGED <<part, vars, planVars>>

MCSpec == MCInit /\ [][MCNext]_<<part, vars, planVars, loopVars>>
=============================================================================
