---------------------------- MODULE MCLifecycle ----------------------------
(***************************************************************************)
(* The service, and the configuration it is started with, on small         *)
(* instances.  A behaviour belongs to one of four parts (part), and what   *)
(* belongs to the others stays as it is: the service, the loading of a     *)
(* configuration, the declarations of its DTD, and its texts.              *)
(***************************************************************************)
EXTENDS Lifecycle, Config

CONSTANTS
  g1, g2, g3,
  Parts,      \* the parts to explore
  MaxText,    \* bound: characters of a text
  MaxDecl     \* bound: declarations of a DTD

VARIABLES
  part,
  text, mode, written, units,
  ent, pe, attr, standalone, err, reading, hung, count, asked

textVars == <<text, mode, written, units>>
dtdVars == <<ent, pe, attr, standalone, err, reading, hung, count, asked>>

\* Two of the gateways have the same user id.
MCIdOf == [g \in Gateways |-> IF g = g2 THEN g1 ELSE g]

\* The characters at both ends of each range of UTF-8 and UTF-16.
Points ==
  {1, 65, 127, 128, 1024, 2047, 2048, 4095, 4096, 55295, 57344, 65535, 65536,
   65537, 66559, 66560, 131071, 131072, 1048575, 1048576, 1114111}
T == INSTANCE XmlText WITH file <- written

x == [char |-> "x"]
e(n) == [ent |-> n]
gives(a, v) == [name |-> a, cdata |-> TRUE, value |-> v]
X == INSTANCE XmlDtd WITH
       Entities <- {"p", "q", "r"}, Tags <- {"tag1", "tag2"}, Attrs <- {"id", "ref"},
       Values <- {<<x>>, <<e("p")>>, <<x, e("q")>>, <<e("r")>>, <<[par |-> "p"]>>,
                  <<[par |-> "q"]>>},
       Lists <- {<<gives("id", <<e("p")>>)>>, <<gives("id", Nil), gives("ref", <<x>>)>>,
                 <<[name |-> "ref", cdata |-> FALSE, value |-> Nil], gives("ref", <<x>>)>>}

param(n, v) == [name |-> n, val |-> v]
rule(n, f, d) == [name |-> n, field |-> f, app |-> "bridge", data |-> d]
MCParams ==
  {param("username", "true"), param("username", ""), param("domain", "true"),
   param("password", "true"), param("regint", Nil)}
MCRules ==
  {rule("in", "dst-number", "true"), rule("out", "dst-number", Nil),
   rule(Nil, "dst-number", "true"), rule("out", "", "true")}

MCInit ==
  /\ part \in Parts
  /\ Init
  /\ T!Init /\ (part # "text" => text = << >> /\ mode = "&")
  /\ X!Init /\ (part # "dtd" => standalone)
  /\ ConfigInit

MCNext ==
  \/ part = "service" /\ Next /\ UNCHANGED <<part, textVars, dtdVars, configVars>>
  \/ part = "text" /\ T!Next /\ UNCHANGED <<part, vars, dtdVars, configVars>>
  \/ part = "dtd" /\ X!Next /\ UNCHANGED <<part, vars, textVars, configVars>>
  \/ part = "config" /\ ConfigNext /\ UNCHANGED <<part, vars, textVars, dtdVars>>

\* The fairness of FairSpec: what is to happen at last is asked of the service only.
MCSpec ==
  /\ MCInit /\ [][MCNext]_<<part, vars, textVars, dtdVars, configVars>>
  /\ WF_vars(crash = "no" /\ MainStep) /\ WF_vars(crash = "no" /\ ThreadStep)

-----------------------------------------------------------------------------
\* Characters come out of writing and reading, in text and in attributes, and
\* out of UTF-16, as they were.
TextKept == part = "text" => T!TypeOK /\ T!ReadAsWritten /\ T!SameInUtf8

\* No entity leads back to itself, none is refused for it that does not, and of
\* the attributes of a tag the defaults in its first list are found.
Declared ==
  part = "dtd" => X!TypeOK /\ X!NoCircle /\ X!CircleIsFound /\ X!FirstListFound
=============================================================================
