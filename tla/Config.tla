-------------------------------- MODULE Config --------------------------------
(***************************************************************************)
(* The configuration of the program (empbx-config.c): empbx_load_config     *)
(* goes through the sections of the file in an order of its own, one entry  *)
(* after another, and fills the maps of users and gateways, the list of     *)
(* dialplan rules, the settings of the program and, as a text, those of the *)
(* SIP stack.  An action is the reading of one entry.  Of the file the model*)
(* has the entries of the first section of each kind (ezxml_child finds no  *)
(* other), as they come: "file" keeps them, to compare with.                *)
(*                                                                         *)
(* Memory may run out: where the code looks, the load fails, and the        *)
(* program ends (main).  The result of str_dup is not looked at: a value is *)
(* lost then and the load goes on.                                          *)
(***************************************************************************)
EXTENDS Naturals, FiniteSets, SequencesExt

CONSTANTS
    UserIds, GatewayNames, Vals,
    Empty,          \* the value ""
    Params,         \* parameters of gateways: [name, val]
    Rules,          \* dialplan rules: [name, field, app, data]
    Settings,       \* settings in the section of the SIP service
    HasX,           \* those with "x_" in their name
    MaxEntries,     \* bound of the model: entries of a file
    MaxParams,      \* bound of the model: parameters of the gateways of a file
    MaxLost,        \* bound of the model: values lost for want of memory
    Nil             \* NULL: the attribute is not there

VARIABLES
    section,        \* being read; "loaded" and "failed" after the load
    users_map, gateways_map, dialplan_rules,
    instance_id, sip_server_ident, sip_debug, bsip_config,
    gateway,        \* the gateway being read: [name, params], or Nil
    known,          \* the values of its four known parameters
    tmp_mbuf,       \* the buffer that gateways and settings share
    forgotten, file

globals == <<users_map, gateways_map, dialplan_rules, instance_id, sip_server_ident,
             sip_debug, bsip_config>>
buffers == <<gateway, known, tmp_mbuf>>
configVars == <<section, globals, buffers, forgotten, file>>

OrNil == Vals \cup {Nil}
zstr(v) == v \in {Nil, Empty}
Known == {"username", "password", "domain", "transport"}
Nothing == [k \in Known |-> Nil]

\* The settings and options that pass through the buffer.
OptNames == {p.name : p \in Params} \cup Settings
                \cup {"user", "host", "transport", "auth_user", "auth_pass"}
Option == [name : OptNames, val : Vals \cup {Empty}]

\* A rule with the data that was copied for it.
Holding(r, data) == [r EXCEPT !.data = data]

\* What is configured, and what the file has.
UserConf == [sip_password : OrNil]
GatewayConf == [user_id : OrNil, realm : OrNil, config : Seq(Option)]
RuleConf == {Holding(r, v) : r \in Rules, v \in OrNil}
GatewayEntry == [name : GatewayNames \cup {Nil}, params : Seq(Params)]
FileEntry ==
    [in : {"core-settings"}, entry : OrNil]
    \cup [in : {"users"}, entry : [id : UserIds \cup {Nil}, password : OrNil]]
    \cup [in : {"gateways"}, entry : GatewayEntry]
    \cup [in : {"dialplan"}, entry : Rules]
    \cup [in : {"settings"}, entry : [name : Settings, val : OrNil]]

ASSUME ConfigAssumption ==
    /\ MaxEntries \in Nat /\ MaxParams \in Nat /\ MaxLost \in Nat
    /\ \A p \in Params : p = [name |-> p.name, val |-> p.val] /\ p.val \in OrNil
    /\ \A r \in Rules :
          /\ r = [name |-> r.name, field |-> r.field, app |-> r.app, data |-> r.data]
          /\ r.data \in OrNil
    /\ Nil \notin Vals \cup UserIds \cup GatewayNames \cup UserConf \cup GatewayConf
                    \cup GatewayEntry \cup Seq(Option)
    /\ "0000" \notin {Nil, Empty}

\* empbx_init
ConfigInit ==
    /\ section = "core-settings"
    /\ users_map = [u \in UserIds |-> Nil]
    /\ gateways_map = [g \in GatewayNames |-> Nil]
    /\ dialplan_rules = <<>>
    /\ instance_id = Nil /\ sip_server_ident = Nil /\ sip_debug = FALSE /\ bsip_config = Nil
    /\ gateway = Nil /\ known = Nothing /\ tmp_mbuf = <<>>
    /\ forgotten = 0 /\ file = <<>>

Entry(s, e) ==
    /\ section = s /\ gateway = Nil /\ Len(file) < MaxEntries
    /\ file' = Append(file, [in |-> s, entry |-> e])

\* str_dup of v into a field: v, or nothing.
Copied(v, w) ==
    \/ w = v /\ forgotten' = forgotten
    \/ v # Nil /\ forgotten < MaxLost /\ w = Nil /\ forgotten' = forgotten + 1

Goto(s) == section' = s /\ UNCHANGED <<globals, gateway, known, forgotten, file>>

MemFail ==
    /\ section \notin {"core-settings", "loaded", "failed"}
    /\ section' = "failed"
    /\ UNCHANGED <<globals, buffers, forgotten, file>>

-----------------------------------------------------------------------------
\* Faulty variant: a later instance-id takes the place of the first.
InstanceIdLast(v) ==
    /\ Entry("core-settings", v)
    /\ \E w \in OrNil : Copied(v, w) /\ instance_id' = (IF w = Nil THEN instance_id ELSE w)
    /\ UNCHANGED <<section, users_map, gateways_map, dialplan_rules, sip_server_ident,
                   sip_debug, bsip_config, buffers>>

\* The first instance-id that is not empty is kept.
InstanceId(v) ==
    /\ Entry("core-settings", v)
    /\ IF zstr(instance_id)
       THEN \E w \in OrNil :
               Copied(v, w) /\ instance_id' = (IF w = Nil THEN instance_id ELSE w)
       ELSE UNCHANGED <<instance_id, forgotten>>
    /\ UNCHANGED <<section, users_map, gateways_map, dialplan_rules, sip_server_ident,
                   sip_debug, bsip_config, buffers>>

CoreEnd ==
    /\ section = "core-settings" /\ section' = "users"
    /\ instance_id' = IF zstr(instance_id) THEN "0000" ELSE instance_id
    /\ UNCHANGED <<users_map, gateways_map, dialplan_rules, sip_server_ident, sip_debug,
                   bsip_config, buffers, forgotten, file>>

\* Faulty variant: a user that is there already keeps its entry.
UserOnce(id, password) ==
    /\ Entry("users", [id |-> id, password |-> password])
    /\ IF id = Nil \/ users_map[id] # Nil THEN UNCHANGED <<users_map, forgotten>>
       ELSE \E w \in OrNil :
               /\ Copied(password, w)
               /\ users_map' = [users_map EXCEPT ![id] = [sip_password |-> w]]
    /\ UNCHANGED <<section, gateways_map, dialplan_rules, instance_id, sip_server_ident,
                   sip_debug, bsip_config, buffers>>

\* A user; one without an id is passed over, and one with the id of another takes
\* its place.
User(id, password) ==
    /\ Entry("users", [id |-> id, password |-> password])
    /\ IF id = Nil THEN UNCHANGED <<users_map, forgotten>>
       ELSE \E w \in OrNil :
               /\ Copied(password, w)
               /\ users_map' = [users_map EXCEPT ![id] = [sip_password |-> w]]
    /\ UNCHANGED <<section, gateways_map, dialplan_rules, instance_id, sip_server_ident,
                   sip_debug, bsip_config, buffers>>

UsersEnd == section = "users" /\ Goto("gateways") /\ UNCHANGED tmp_mbuf

-----------------------------------------------------------------------------
\* Faulty variant: the buffer still holds what the gateway before left in it.
GatewayOpenDirty(name) ==
    /\ section = "gateways" /\ gateway = Nil /\ Len(file) < MaxEntries
    /\ gateway' = [name |-> name, params |-> <<>>]
    /\ known' = Nothing
    /\ UNCHANGED <<section, globals, tmp_mbuf, forgotten, file>>

\* A gateway begins: the buffer is emptied.
GatewayOpen(name) ==
    /\ section = "gateways" /\ gateway = Nil /\ Len(file) < MaxEntries
    /\ gateway' = [name |-> name, params |-> <<>>]
    /\ known' = Nothing
    /\ tmp_mbuf' = <<>>
    /\ UNCHANGED <<section, globals, forgotten, file>>

\* A parameter.  Of a known one the first value counts, the others are options
\* and go into the buffer.
ParamCount == FoldSeq(LAMBDA e, n : n + (IF e.in = "gateways" THEN Len(e.entry.params) ELSE 0),
                      IF gateway = Nil THEN 0 ELSE Len(gateway.params), file)

GatewayParam(n, v) ==
    /\ section = "gateways" /\ gateway # Nil /\ ParamCount < MaxParams
    /\ gateway' = [gateway EXCEPT !.params = Append(@, [name |-> n, val |-> v])]
    /\ IF n \in Known
       THEN /\ IF known[n] = Nil
               THEN \E w \in OrNil : Copied(v, w) /\ known' = [known EXCEPT ![n] = w]
               ELSE UNCHANGED <<known, forgotten>>
            /\ UNCHANGED tmp_mbuf
       ELSE /\ tmp_mbuf' = Append(tmp_mbuf, [name |-> n, val |-> IF v = Nil THEN Empty ELSE v])
            /\ UNCHANGED <<known, forgotten>>
    /\ UNCHANGED <<section, globals, file>>

piece(n, v) == IF zstr(v) THEN <<>> ELSE <<[name |-> n, val |-> v]>>

\* The account for the SIP stack: the address with its transport, then the name
\* and the password to log in with.
account(k) ==
    piece("user", k["username"]) \o piece("host", k["domain"]) \o piece("transport", k["transport"])
    \o piece("auth_user", k["username"]) \o piece("auth_pass", k["password"])

\* The gateway is complete: the account is put into the buffer behind the options
\* and taken out in front of them.
GatewayClose ==
    LET sas_ofs == Len(tmp_mbuf)
        buf == tmp_mbuf \o account(known)
        config == SubSeq(buf, sas_ofs + 1, Len(buf)) \o SubSeq(buf, 1, sas_ofs)
        complete == ~zstr(gateway.name) /\ ~zstr(known["username"]) /\ ~zstr(known["domain"])
    IN  /\ section = "gateways" /\ gateway # Nil
        /\ file' = Append(file, [in |-> "gateways", entry |-> gateway])
        /\ gateway' = Nil
        /\ IF complete
           THEN /\ tmp_mbuf' = buf
                /\ gateways_map' = [gateways_map EXCEPT ![gateway.name] =
                      [user_id |-> known["username"], realm |-> known["domain"], config |-> config]]
           ELSE UNCHANGED <<tmp_mbuf, gateways_map>>
        /\ UNCHANGED <<section, users_map, dialplan_rules, instance_id, sip_server_ident,
                       sip_debug, bsip_config, known, forgotten>>

GatewaysEnd ==
    section = "gateways" /\ gateway = Nil /\ Goto("dialplan") /\ UNCHANGED tmp_mbuf

-----------------------------------------------------------------------------
\* Faulty variant: the rules are put in front of the ones before.
RuleFirst(r) ==
    /\ Entry("dialplan", r)
    /\ dialplan_rules' = IF zstr(r.name) \/ zstr(r.field) \/ zstr(r.app) THEN dialplan_rules
                         ELSE <<r>> \o dialplan_rules
    /\ UNCHANGED <<section, users_map, gateways_map, instance_id, sip_server_ident, sip_debug,
                   bsip_config, buffers, forgotten>>

\* A rule, at the end of the list; one without a name, a field or an application
\* is passed over.
Rule(r) ==
    /\ Entry("dialplan", r)
    /\ IF zstr(r.name) \/ zstr(r.field) \/ zstr(r.app) THEN UNCHANGED <<dialplan_rules, forgotten>>
       ELSE \E w \in OrNil :
               /\ Copied(r.data, w)
               /\ dialplan_rules' = Append(dialplan_rules, Holding(r, w))
    /\ UNCHANGED <<section, users_map, gateways_map, instance_id, sip_server_ident, sip_debug,
                   bsip_config, buffers>>

\* Faulty variant: the buffer is not emptied before the settings.
DialplanEndDirty == section = "dialplan" /\ Goto("settings") /\ UNCHANGED tmp_mbuf

DialplanEnd == section = "dialplan" /\ Goto("settings") /\ tmp_mbuf' = <<>>

\* A setting of the program: the name of the server, of which the first counts,
\* and the trace of messages.  Any other with "x_" in its name is dropped.
OwnSetting(n, v) ==
    /\ n \in HasX
    /\ Entry("settings", [name |-> n, val |-> v])
    /\ IF n = "x_server_ident" /\ zstr(sip_server_ident)
       THEN \E w \in OrNil :
               Copied(v, w) /\ sip_server_ident' = (IF w = Nil THEN sip_server_ident ELSE w)
       ELSE UNCHANGED <<sip_server_ident, forgotten>>
    /\ sip_debug' = IF n = "x_sip_debug" THEN v = "true" ELSE sip_debug
    /\ UNCHANGED <<section, users_map, gateways_map, dialplan_rules, instance_id, bsip_config,
                   buffers>>

StackSetting(n, v) ==
    /\ n \notin HasX
    /\ Entry("settings", [name |-> n, val |-> v])
    /\ tmp_mbuf' = Append(tmp_mbuf, [name |-> n, val |-> IF v = Nil THEN Empty ELSE v])
    /\ UNCHANGED <<section, globals, gateway, known, forgotten>>

SettingsEnd ==
    /\ section = "settings" /\ section' = "loaded"
    /\ bsip_config' = IF tmp_mbuf = <<>> THEN Nil ELSE tmp_mbuf
    /\ UNCHANGED <<users_map, gateways_map, dialplan_rules, instance_id, sip_server_ident,
                   sip_debug, buffers, forgotten, file>>

ConfigNext ==
    \/ \E v \in OrNil :
        \/ InstanceId(v)
        \/ \E id \in UserIds \cup {Nil} : User(id, v)
        \/ \E n \in Settings : OwnSetting(n, v) \/ StackSetting(n, v)
    \/ \E g \in GatewayNames \cup {Nil} : GatewayOpen(g)
    \/ \E p \in Params : GatewayParam(p.name, p.val)
    \/ \E r \in Rules : Rule(r)
    \/ CoreEnd \/ UsersEnd \/ GatewayClose \/ GatewaysEnd \/ DialplanEnd \/ SettingsEnd
    \/ MemFail

ConfigSpec == ConfigInit /\ [][ConfigNext]_configVars

-----------------------------------------------------------------------------
\* empbx_config_user_lookup, empbx_config_gateway_lookup
user_lookup(id) == IF zstr(id) THEN Nil ELSE users_map[id]
gateway_lookup(name) == IF zstr(name) THEN Nil ELSE gateways_map[name]

ConfigTypeOK ==
    /\ section \in {"core-settings", "users", "gateways", "dialplan", "settings", "loaded", "failed"}
    /\ users_map \in [UserIds -> {Nil} \cup UserConf]
    /\ gateways_map \in [GatewayNames -> {Nil} \cup GatewayConf]
    /\ dialplan_rules \in Seq(RuleConf)
    /\ gateway \in GatewayEntry \cup {Nil}
    /\ gateway # Nil => section \in {"gateways", "failed"}
    /\ known \in [Known -> OrNil] /\ tmp_mbuf \in Seq(Option)
    /\ instance_id \in OrNil \cup {"0000"} /\ sip_server_ident \in OrNil
    /\ bsip_config \in {Nil} \cup Seq(Option)
    /\ sip_debug \in BOOLEAN /\ forgotten \in 0 .. MaxLost
    /\ file \in Seq(FileEntry) /\ Len(file) <= MaxEntries
    /\ section \notin {"core-settings", "failed"} => ~zstr(instance_id)

Loaded == section = "loaded"

\* Of the entries at these places of the file, i is the last.
LastOf(i, places) == i \in places /\ \A j \in places : j <= i

\* The sequence has the values of f, one for each place, in the order of the places.
Listed(seq, f) ==
    /\ Len(seq) = Cardinality(DOMAIN f)
    /\ \A i \in DOMAIN f : seq[Cardinality({j \in DOMAIN f : j <= i})] = f[i]

\* What is configured is what the file says of it last: a user is known with the
\* password of its last entry, or without one when memory ran out, and never with
\* another's; one that no entry names is not known.
UserEntries(u) == {i \in DOMAIN file : file[i].in = "users" /\ file[i].entry.id = u}
KnownAs(user, e, lost) ==
    /\ user # Nil
    /\ user.sip_password \in {e.password} \cup (IF lost > 0 THEN {Nil} ELSE {})
UsersAsWritten ==
    Loaded => \A u \in UserIds :
        /\ UserEntries(u) = {} \/ u = Empty => user_lookup(u) = Nil
        /\ \A i \in UserEntries(u) :
              LastOf(i, UserEntries(u)) /\ u # Empty
                  => KnownAs(user_lookup(u), file[i].entry, forgotten)

\* The value a gateway's own list of parameters gives for a name: the first.
Given(params, n) ==
    LET places == {i \in DOMAIN params : params[i].name = n /\ params[i].val # Nil}
    IN  IF places = {} THEN Nil ELSE params[Min(places)].val
Usable(g) == ~zstr(g.name) /\ ~zstr(Given(g.params, "username")) /\ ~zstr(Given(g.params, "domain"))
OrEmpty(p) == [name |-> p.name, val |-> IF p.val = Nil THEN Empty ELSE p.val]
OptionsOf(params) ==
    [i \in {j \in DOMAIN params : params[j].name \notin Known} |-> OrEmpty(params[i])]

\* A gateway is configured as its last usable entry says, its account in front
\* and then its own options in their order: nothing of another gateway, of a
\* gateway that was passed over, or of what else went through the buffer.
GatewayEntries(g) ==
    {i \in DOMAIN file : file[i].in = "gateways" /\ file[i].entry.name = g /\ Usable(file[i].entry)}
ConfiguredAs(gw, e) ==
    LET k == [n \in Known |-> Given(e.params, n)]
        options == SubSeq(gw.config, Len(account(k)) + 1, Len(gw.config))
    IN  /\ gw # Nil /\ gw.user_id = k["username"] /\ gw.realm = k["domain"]
        /\ gw.config = account(k) \o options
        /\ Listed(options, OptionsOf(e.params))
GatewaysAsWritten ==
    Loaded /\ forgotten = 0 => \A g \in GatewayNames :
        /\ GatewayEntries(g) = {} \/ g = Empty => gateway_lookup(g) = Nil
        /\ \A i \in GatewayEntries(g) :
              LastOf(i, GatewayEntries(g)) /\ g # Empty
                  => ConfiguredAs(gateway_lookup(g), file[i].entry)

\* The rules are tried in the order of the file.
RuleEntries ==
    {i \in DOMAIN file : /\ file[i].in = "dialplan" /\ ~zstr(file[i].entry.name)
                         /\ ~zstr(file[i].entry.field) /\ ~zstr(file[i].entry.app)}
RulesInOrder ==
    Loaded /\ forgotten = 0 => Listed(dialplan_rules, [i \in RuleEntries |-> file[i].entry])

\* The instance has the first name that the file gives it, also if others follow
\* that are empty or not.
NameEntries == {i \in DOMAIN file : file[i].in = "core-settings" /\ ~zstr(file[i].entry)}
FirstNameKept ==
    Loaded /\ forgotten = 0 =>
        instance_id = IF NameEntries = {} THEN "0000" ELSE file[Min(NameEntries)].entry

\* The SIP stack is given the settings of the file, all of them and nothing else
\* but those with "x_" in their name: those of the program, and call_max_calls.
StackSettings ==
    [i \in {j \in DOMAIN file : file[j].in = "settings" /\ file[j].entry.name \notin HasX}
        |-> OrEmpty(file[i].entry)]
SettingsReachStack ==
    Loaded => IF DOMAIN StackSettings = {} THEN bsip_config = Nil
              ELSE bsip_config # Nil /\ Listed(bsip_config, StackSettings)

\* What is configured is what the file says, and nothing else: its users,
\* gateways, rules, names and settings.
ConfigAsWritten ==
    /\ ConfigTypeOK
    /\ UsersAsWritten /\ GatewaysAsWritten /\ RulesInOrder
    /\ FirstNameKept /\ SettingsReachStack
===============================================================================
