------------------------------ MODULE MCDaemon ------------------------------
(***************************************************************************)
(* The process and the file it reads when it starts, on small instances.   *)
(* A behaviour belongs to one of three parts (part), and what belongs to   *)
(* the others stays as it is: the processes of empbxd, the parser of the   *)
(* configuration file, and the tag functions used in any order.            *)
(***************************************************************************)
EXTENDS Daemon, XmlTree, TLC

CONSTANTS
  Parts,      \* the parts to explore
  MaxDoc,     \* bound: tokens of a document
  MaxTags,    \* bound: tags where the tag functions are used in any order
  MaxTagOff   \* bound: their offsets

VARIABLES part, rootName, txt, cur, pi, err, done, doc

parserVars == <<rootName, txt, cur, pi, err, done, doc>>

\* Process ids are interchangeable, and so are tags, which are the same values.
MCSymmetry == Permutations(Pids)
MCHosts == Tags \cup {Root}

\* The parser needs no care.
P == INSTANCE XmlParser WITH
       Careful <- FALSE, Text <- "text", Cdata <- "cdata", MaxAside <- 1

MCInit == part \in Parts /\ Init /\ P!ParserInit

\* Tags put into one another, cut, put back and freed.
MCTreeNext ==
  /\ TreeNext
  /\ Cardinality({t \in Tags : name'[t] # Nil}) <= MaxTags
  /\ \A t \in Tags : off'[t] <= MaxTagOff

MCNext ==
  \/ part = "process" /\ Next /\ UNCHANGED <<part, treeVars, parserVars>>
  \/ part = "parser" /\ P!ParserNext /\ UNCHANGED <<part, vars>>
  \/ part = "tags" /\ MCTreeNext /\ UNCHANGED <<part, vars, parserVars>>

MCSpec == MCInit /\ [][MCNext]_<<part, vars, treeVars, parserVars>>

-----------------------------------------------------------------------------
\* The parser reports an error for the documents that are not well formed and no
\* others, and nothing of what it read is lost, moved or doubled.
ParsedAsWritten ==
  part = "parser" => P!ParserTypeOK /\ P!ErrorIffMalformed /\ P!WrittenAsRead

\* What a command prints of a running server is true: a start is refused only
\* while one runs, and a stop finds nobody only when none does.
MessagesAreTrue == part = "process" => AlreadyRunningIsTrue /\ NotRunningIsTrue
=============================================================================
