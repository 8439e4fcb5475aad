------------------------------ MODULE YamlConfig ------------------------------
(***************************************************************************)
(* src/src/yaml_config.c: the configuration file is read line by line into *)
(* five arrays of items.  What a line means depends on what was read       *)
(* before: the section, the list or mapping that is open (context), and    *)
(* the item, segment and route that were begun last.  At the end of the    *)
(* file fields that were left out are filled in (yaml_normalize) and the   *)
(* whole is validated.                                                     *)
(*                                                                         *)
(* A line is a record: its indentation, whether it begins with a dash, its *)
(* key and value, and the blocks it may stand under in a file that follows *)
(* the documented layout.  The parser does not look at the last; it is     *)
(* what `meant` is made of, the configuration that the indentation says.   *)
(***************************************************************************)
EXTENDS Integers, Sequences, FiniteSets

CONSTANTS
  Vocabularies, \* kinds of files: a file of a kind is made of the lines of its set
  Limit,        \* EN_MAX_*: what each array holds
  NoKey,        \* the key of a line without a colon
  Empty,        \* the empty text
  Bad,          \* a text with characters that valid_config_token refuses
  Long,         \* a text that does not fit a field
  Unparsed,     \* a text that is not a number
  Unknown       \* the meaning of a file that does not follow the layout

Sections == {"nodes", "tunnels", "paths", "intents", "vpp_edges"}

ListsOf ==
  [nodes     |-> {"endpoints", "capabilities"},
   tunnels   |-> {},
   paths     |-> {"waypoints", "segments", "routes"},
   intents   |-> {"candidates", "comparison_order", "forbidden_waypoints",
                  "required_waypoints", "required_capabilities"},
   vpp_edges |-> {"allowed_vlans"}]

Arrays == Sections \cup UNION {ListsOf[s] : s \in Sections}

ASSUME YamlAssumption ==
  /\ Limit \in [Arrays -> Nat \ {0}]
  /\ \A k \in DOMAIN Vocabularies : \A l \in Vocabularies[k] :
       /\ {"indent", "item", "key", "value", "under"} \subseteq DOMAIN l
       /\ l.indent \in Nat /\ l.item \in BOOLEAN

Known ==
  [nodes     |-> {"id", "role", "administrative_state"},
   tunnels   |-> {"id", "type", "local_node", "remote_node", "local_endpoint",
                  "remote_endpoint", "local_id", "remote_id", "psk", "auth_method",
                  "local_cert", "remote_cacerts", "local_traffic_selector",
                  "remote_traffic_selector", "protocol", "gre_interface",
                  "gre_outer_local_endpoint", "gre_outer_remote_endpoint",
                  "gre_local_address", "gre_remote_address", "gre_instance", "gre_mtu",
                  "vpp_local_sa_id", "vpp_remote_sa_id", "vpp_local_spi",
                  "vpp_remote_spi", "vpp_crypto_algorithm", "vpp_crypto_key",
                  "vpp_integrity_algorithm", "vpp_integrity_key"},
   paths     |-> {"id", "source", "destination", "route_destination_prefix",
                  "route_next_hop", "egress_tunnel_id", "priority"},
   segments  |-> {"id", "from_node", "to_node", "tunnel_id"},
   routes    |-> {"id", "node_id", "destination_prefix", "next_hop",
                  "interface_name", "table_id", "metric"},
   intents   |-> {"id", "block_non_ipsec", "deny_unmatched_vlan", "source",
                  "destination", "vlan_id"},
   path_selection |-> {"mode", "path_id"},
   constraints    |-> {"max_rtt_ms", "max_packet_loss_percent", "failure_threshold",
                       "recovery_threshold", "hold_down_ms", "hysteresis_percent"},
   transition     |-> {"strategy", "max_pause_ms", "drain_timeout_ms", "timeout_ms",
                       "retry_count", "retry_backoff_ms"},
   fallback       |-> {"enabled", "fallback_path_id"},
   vpp_edges |-> {"node_id", "port_id", "host_interface", "vpp_interface",
                  "namespace_interface", "namespace_address", "vpp_address",
                  "vpp_socket", "next_hop"}]

\* The name of a key in a mapping, where another mapping has the key as well.
FieldOf(mapping, key) ==
  CASE mapping = "tunnels" /\ key = "tunnel_id" -> "id"
    [] mapping = "paths" /\ key = "path_id" -> "id"
    [] mapping = "paths" /\ key = "next_hop" -> "route_next_hop"
    [] mapping = "nodes" /\ key = "node_id" -> "id"
    [] mapping = "vpp_edges" /\ key = "id" -> "node_id"
    [] mapping = "fallback" /\ key = "path_id" -> "fallback_path_id"
    [] OTHER -> key

\* What an item has before its first field: what is not zero or empty.
Defaults ==
  [nodes     |-> [administrative_state |-> "enabled"],
   tunnels   |-> [protocol |-> "ipsec", type |-> "ipsec", auth_method |-> "psk",
                  gre_instance |-> -1, vpp_local_sa_id |-> -1, vpp_remote_sa_id |-> -1,
                  vpp_local_spi |-> -1, vpp_remote_spi |-> -1],
   paths     |-> [administrative_state |-> "enabled"],
   segments  |-> << >>,
   routes    |-> [table_id |-> -1, metric |-> -1],
   intents   |-> [strategy |-> "immediate", max_pause_ms |-> 50,
                  drain_timeout_ms |-> 40, timeout_ms |-> 5000, enabled |-> "true"],
   vpp_edges |-> << >>]

NewItem(section) ==
  [fields |-> Defaults[section], lists |-> [name \in ListsOf[section] |-> <<>>]]
NewElement(name) == [fields |-> Defaults[name]]

Text(item, field) == IF field \in DOMAIN item.fields THEN item.fields[field] ELSE Empty
Set(item, field, value) ==
  [item EXCEPT !.fields = [f \in DOMAIN @ \cup {field} |-> IF f = field THEN value ELSE @[f]]]

\* atoi takes what is not a number for 0; parse_integer does not.
Converted(field, value) ==
  IF /\ value = Unparsed
     /\ field \in {"gre_instance", "gre_mtu", "vpp_local_sa_id", "vpp_remote_sa_id",
                   "vpp_local_spi", "vpp_remote_spi"}
  THEN 0 ELSE value

\* A key that the mapping does not have is passed over.
WithField(item, mapping, key, value) ==
  LET field == FieldOf(mapping, key)
  IN IF field \in Known[mapping] THEN Set(item, field, Converted(field, value)) ELSE item

Flags == {"true", "yes", "1", "false", "no", "0"}

\* The fields whose values are looked at when they are read.
Allowed ==
  [administrative_state |-> {"enabled", "disabled"},
   block_non_ipsec |-> Flags, deny_unmatched_vlan |-> Flags, enabled |-> Flags,
   mode |-> {"explicit", "priority", "evaluated"},
   strategy |-> {"immediate", "graceful", "flow-preserve"}]
Refused(mapping, key, value) ==
  LET field == FieldOf(mapping, key)
  IN /\ field \in Known[mapping] \cap DOMAIN Allowed
     /\ value \notin Allowed[field]

VARIABLES
  kind,          \* of the file that is read
  status,        \* "reading", "loaded" or "refused"
  config,        \* en_yaml_config_t
  top, context, list_parent, list_indent,   \* yaml_parse_state_t
  current,       \* the item a field of each section goes to, 0 for NULL
  segment, route,     \* <<path, position>>, or <<0, 0>> for NULL
  open,          \* the blocks the last line stands in, by indentation
  meant          \* the configuration as the indentation says
parser == <<top, context, list_parent, list_indent, current, segment, route>>
vars == <<kind, status, config, parser, open, meant>>

Nowhere == <<0, 0>>
NoItems == [s \in Sections |-> <<>>]
IntentMappings == {"traffic", "path_selection", "constraints", "transition", "fallback"}
ConstraintLists == {"forbidden_waypoints", "required_waypoints", "required_capabilities"}

YamlInit ==
  /\ kind \in DOMAIN Vocabularies
  /\ status = "reading" /\ config = NoItems
  /\ top = "none" /\ context = "none" /\ list_parent = "none" /\ list_indent = 0
  /\ current = [s \in Sections |-> 0] /\ segment = Nowhere /\ route = Nowhere
  /\ open = <<>> /\ meant = NoItems

-----------------------------------------------------------------------------
(* What the indentation says. *)

\* The fields of an intent that stand in no mapping, and the lists a mapping has.
IntentFields == {"id", "block_non_ipsec", "deny_unmatched_vlan"}
ListsIn(mapping) ==
  CASE mapping = "path_selection" -> {"candidates", "comparison_order"}
    [] mapping = "constraints" -> ConstraintLists
    [] OTHER -> {}
IsFieldOf(mapping, l) ==
  IF mapping = "traffic" THEN l.key \in Known["intents"] \ IntentFields
  ELSE FieldOf(mapping, l.key) \in Known[mapping]

\* The layout of docs/yaml-routes.md and samples/: the line l under blocks of these names.
SectionLine(l, names) ==
  names = <<>> /\ l.indent = 0 /\ ~l.item /\ l.key \in Sections /\ l.value = Empty
\* An intent does not begin with a list or mapping.
FirstLine(l, names) ==
  /\ l.item /\ l.indent = 2
  /\ \/ \E s \in Sections \ {"intents"} : names = <<s>>
     \/ names = <<"intents">> /\ l.key \notin ListsOf["intents"] \cup IntentMappings
\* The lines of an item are less deep than those of its segments and routes.
ItemLine(l, names) ==
  /\ ~l.item
  /\ \/ \E s \in Sections \ {"intents"} : names = <<s, "-">> /\ (s = "paths" => l.indent < 6)
     \/ /\ names = <<"intents", "-">>
        /\ l.key \in IntentFields \/ (l.key \in IntentMappings /\ l.value = Empty)
ElementLine(l, names) ==
  ~l.item /\ l.indent >= 6 /\ \E list \in {"segments", "routes"} : names = <<"paths", "-", list, "-">>
MappingLine(l, mapping, names) ==
  /\ ~l.item
  /\ \/ names = <<"intents", "-", mapping>>
     \/ mapping = "constraints" /\ names = <<"intents", "-", "path_selection", mapping>>
  /\ \/ IsFieldOf(mapping, l)
     \/ l.key \in ListsIn(mapping) /\ l.value = Empty
     \/ mapping = "path_selection" /\ l.key = "constraints" /\ l.value = Empty
ListLine(l, names) ==
  /\ l.item
  /\ \/ \E s \in Sections \ {"intents"} : \E list \in ListsOf[s] :
          names = <<s, "-", list>> /\ (list \in {"segments", "routes"} \/ l.key = NoKey)
     \/ /\ l.key = NoKey
        /\ \E mapping \in IntentMappings : \E list \in ListsIn(mapping) :
             \/ names = <<"intents", "-", mapping, list>>
             \/ /\ mapping = "constraints"
                /\ names = <<"intents", "-", "path_selection", mapping, list>>

ASSUME LayoutAssumption ==
  \A k \in DOMAIN Vocabularies : \A l \in Vocabularies[k] : \A names \in l.under :
    \/ SectionLine(l, names) \/ FirstLine(l, names) \/ ItemLine(l, names)
    \/ ElementLine(l, names) \/ ListLine(l, names)
    \/ \E mapping \in IntentMappings : MappingLine(l, mapping, names)

\* A line closes the blocks that are as deep; a dash may stand as deep as the key of its list.
Closes(l, b) == b.indent > l.indent \/ (b.indent = l.indent /\ (l.item => b.name = "-"))
Enclosing(l) == [i \in {n \in DOMAIN open : \A j \in 1..n : ~Closes(l, open[j])} |-> open[i]]
Names(blocks) == [i \in DOMAIN blocks |-> blocks[i].name]
Opened(l) ==
  (IF l.item THEN <<[indent |-> l.indent, name |-> "-"]>> ELSE <<>>)
  \o IF l.key = NoKey \/ l.value # Empty THEN <<>>
     ELSE <<[indent |-> l.indent + (IF l.item THEN 2 ELSE 0), name |-> l.key]>>

\* parse_line does not come back from the constraints to the selection.
Lost(l, blocks) ==
  /\ Names(blocks) = <<"intents", "-", "path_selection">>
  /\ l.key \in Known["path_selection"]
  /\ \E i \in DOMAIN open : open[i].name = "constraints"

LastSet(items, mapping, l) ==
  [items EXCEPT ![Len(items)] = WithField(@, mapping, l.key, l.value)]

\* The list or mapping that a line is part of.
Owner(names) == names[IF names[Len(names)] = "-" THEN Len(names) - 1 ELSE Len(names)]

\* A field of the newest item; a field of traffic is one of the intent.
FieldMeaning(items, owner, l) ==
  IF owner = "traffic" THEN LastSet(items, "intents", l)
  ELSE IF owner \in DOMAIN Known /\ l.key \notin Arrays \cup IntentMappings
  THEN LastSet(items, owner, l) ELSE items
ElementMeaning(list, owner, l) ==
  IF owner \notin {"segments", "routes"} THEN Append(list, l.value)
  ELSE IF l.item THEN Append(list, WithField(NewElement(owner), owner, l.key, l.value))
  ELSE LastSet(list, owner, l)

Meaning(m, l, names) ==
  LET section == names[1]
      owner   == Owner(names)
  IN IF names = <<>> THEN m
     ELSE IF Len(names) = 1
     THEN [m EXCEPT ![section] =
             Append(@, WithField(NewItem(section), section, l.key, l.value))]
     ELSE IF owner \notin ListsOf[section]
     THEN [m EXCEPT ![section] = FieldMeaning(@, owner, l)]
     ELSE [m EXCEPT ![section][Len(m[section])].lists[owner] = ElementMeaning(@, owner, l)]

understand(l) ==
  LET blocks == Enclosing(l)
  IN IF meant = Unknown \/ Names(blocks) \notin l.under \/ Lost(l, blocks)
     THEN meant' = Unknown /\ open' = <<>>
     ELSE meant' = Meaning(meant, l, Names(blocks)) /\ open' = blocks \o Opened(l)

-----------------------------------------------------------------------------
(* parse_line *)

IsSection(l) ==
  l.indent = 0 /\ ~l.item /\ l.key \in Sections /\ l.value = Empty

\* The load ends with an error, and what was read is not used.
Refuse == status' = "refused" /\ UNCHANGED <<config, parser>>

\* Mutant: the list that is open stays open when a section begins.
section_line_in_list(l) ==
  /\ IsSection(l)
  /\ top' = l.key /\ context' = IF l.key = top THEN context ELSE "none"
  /\ current' = [current EXCEPT ![l.key] = 0]
  /\ UNCHANGED <<status, config, list_parent, list_indent, segment, route>>
section_line(l) ==
  /\ IsSection(l)
  /\ top' = l.key /\ context' = "none"
  /\ current' = [current EXCEPT ![l.key] = 0]
  /\ UNCHANGED <<status, config, list_parent, list_indent, segment, route>>

outside_section(l) == top = "none" /\ ~IsSection(l) /\ Refuse

\* A value as long as a field, or a line that is neither an item nor a field.
malformed_line(l) ==
  /\ top # "none" /\ ~IsSection(l)
  /\ l.value = Long \/ (~l.item /\ l.key = NoKey)
  /\ Refuse

InSection(l) ==
  top # "none" /\ ~IsSection(l) /\ l.value # Long /\ (l.item \/ l.key # NoKey)

\* The key of a list opens it, in the sections whose parse_*_kv looks for lists.
ContextAfter(key, otherwise) ==
  IF top \in {"nodes", "paths", "vpp_edges"} /\ key \in ListsOf[top] THEN key ELSE otherwise

begin_item(l) ==
  /\ InSection(l) /\ l.item /\ l.indent = 2
  /\ IF Len(config[top]) >= Limit[top] \/ Refused(top, l.key, l.value) THEN Refuse
     ELSE /\ config' = [config EXCEPT ![top] =
                          Append(@, WithField(NewItem(top), top, l.key, l.value))]
          /\ current' = [current EXCEPT ![top] = Len(config[top]) + 1]
          /\ context' = ContextAfter(l.key, "none")
          /\ UNCHANGED <<status, top, list_parent, list_indent, segment, route>>

\* The text of an item of a plain list; it is cut at a colon.
ItemText(l) == IF l.key = NoKey THEN l.value ELSE l.key
VlanRefused(l, vlans) ==
  \/ ItemText(l) = Unparsed
  \/ ItemText(l) \notin 1..4094
  \/ \E i \in DOMAIN vlans : vlans[i] = ItemText(l)
ItemRefused(l, list) ==
  \/ Len(list) >= Limit[context]
  \/ /\ context = "comparison_order"
     /\ ItemText(l) \notin {"packet_loss", "latency", "hop_count", "priority", "path_id"}
  \/ context = "allowed_vlans" /\ VlanRefused(l, list)

list_item(l) ==
  /\ InSection(l) /\ l.item /\ l.indent # 2
  /\ IF context \notin ListsOf[top] THEN Refuse
     ELSE LET i    == current[top]
              list == config[top][i].lists[context]
              Add(e) == config' = [config EXCEPT ![top][i].lists[context] = Append(@, e)]
          IN IF ItemRefused(l, list) THEN Refuse
             ELSE /\ IF context \in {"segments", "routes"}
                     THEN Add(WithField(NewElement(context), context, l.key, l.value))
                     ELSE Add(ItemText(l))
                  /\ segment' = IF context = "segments" THEN <<i, Len(list) + 1>> ELSE segment
                  /\ route' = IF context = "routes" THEN <<i, Len(list) + 1>> ELSE route
                  /\ UNCHANGED <<status, top, context, list_parent, list_indent, current>>

\* A field of the newest item.
StoreField(mapping, l) ==
  IF current[top] = 0 \/ Refused(mapping, l.key, l.value) THEN Refuse
  ELSE /\ config' = [config EXCEPT ![top][current[top]] =
                       WithField(@, mapping, l.key, l.value)]
       /\ context' = ContextAfter(l.key, context)
       /\ UNCHANGED <<status, top, list_parent, list_indent, current, segment, route>>

field_line(l) ==
  /\ InSection(l) /\ ~l.item /\ top \in {"nodes", "tunnels", "vpp_edges"}
  /\ StoreField(top, l)

\* The segment or route that was begun last takes the deeper lines of its list.
StoreInElement(name, element, l) ==
  /\ config' = [config EXCEPT !.paths[element[1]].lists[name][element[2]] =
                  WithField(@, name, l.key, l.value)]
  /\ UNCHANGED <<status, parser>>
\* Mutant: a deeper line goes to the segment that was begun last, whatever list is open.
path_line_to_segment(l) ==
  /\ InSection(l) /\ ~l.item /\ top = "paths"
  /\ IF segment # Nowhere /\ l.indent >= 6
     THEN StoreInElement("segments", segment, l)
     ELSE IF context = "routes" /\ route # Nowhere /\ l.indent >= 6
     THEN StoreInElement("routes", route, l)
     ELSE StoreField("paths", l)
path_line(l) ==
  /\ InSection(l) /\ ~l.item /\ top = "paths"
  /\ IF context = "segments" /\ segment # Nowhere /\ l.indent >= 6
     THEN StoreInElement("segments", segment, l)
     ELSE IF context = "routes" /\ route # Nowhere /\ l.indent >= 6
     THEN StoreInElement("routes", route, l)
     ELSE StoreField("paths", l)

\* Mutant: a list of an intent does not end with a line as deep as its key.
DeeperContext(l) ==
  IF context \in ListsOf["intents"] /\ l.indent < list_indent THEN list_parent ELSE context
\* A list of an intent ends with a line that is not deeper than its key.
IntentContext(l) ==
  IF context \in ListsOf["intents"] /\ l.indent <= list_indent THEN list_parent ELSE context
OpenList(l, parent) ==
  /\ context' = l.key /\ list_parent' = parent /\ list_indent' = l.indent
  /\ UNCHANGED <<status, config, top, current, segment, route>>
OpenMapping(l) ==
  /\ context' = l.key
  /\ UNCHANGED <<status, config, top, list_parent, list_indent, current, segment, route>>
StoreInIntent(mapping, l) ==
  IF Refused(mapping, l.key, l.value) THEN Refuse
  ELSE /\ config' = [config EXCEPT !.intents[current["intents"]] =
                       WithField(@, mapping, l.key, l.value)]
       /\ context' = IntentContext(l)
       /\ UNCHANGED <<status, top, list_parent, list_indent, current, segment, route>>
intent_line(l) ==
  /\ InSection(l) /\ ~l.item /\ top = "intents"
  /\ IF current["intents"] = 0 THEN Refuse
     ELSE IF l.key \in {"id", "block_non_ipsec", "deny_unmatched_vlan"}
     THEN StoreInIntent("intents", l)
     ELSE IF l.key \in IntentMappings THEN OpenMapping(l)
     ELSE IF l.key \in {"candidates", "comparison_order"} THEN OpenList(l, "path_selection")
     ELSE IF IntentContext(l) = "constraints" /\ l.key \in ConstraintLists
     THEN OpenList(l, "constraints")
     ELSE StoreInIntent(IF IntentContext(l) \in IntentMappings \ {"traffic"}
                        THEN IntentContext(l) ELSE "intents", l)

-----------------------------------------------------------------------------
(* yaml_normalize *)

At(items, field, id) == {i \in DOMAIN items : Text(items[i], field) = id}
\* yaml_find_tunnel: the first of that id; a text of it, if there is one.
TunnelText(c, id, field) ==
  LET found == At(c.tunnels, "id", id)
  IN IF found = {} THEN Empty
     ELSE Text(c.tunnels[CHOOSE i \in found : \A j \in found : i <= j], field)

\* What a field is filled in with if it is empty.
Filled(item, field, value) ==
  IF Text(item, field) = Empty /\ value # Empty THEN Set(item, field, value) ELSE item
FirstText(items, field) == IF items = <<>> THEN Empty ELSE Text(items[1], field)

DefaultRoute(p) ==
  [fields |-> [id |-> "default", node_id |-> Text(p, "source"),
               destination_prefix |-> Text(p, "route_destination_prefix"),
               next_hop |-> Text(p, "route_next_hop"), table_id |-> -1, metric |-> -1]]
\* Mutant: no route is made of the defaults.
WithoutDefaultRoute(p) == p
WithDefaultRoute(p) ==
  IF p.lists.routes = <<>> /\ Text(p, "route_destination_prefix") # Empty
  THEN [p EXCEPT !.lists.routes = <<DefaultRoute(p)>>] ELSE p

NormalizedPath(c, p) ==
  LET p1 == Filled(p, "egress_tunnel_id", FirstText(p.lists.segments, "tunnel_id"))
      Tunnel(field) == TunnelText(c, Text(p1, "egress_tunnel_id"), field)
      p2 == Filled(p1, "route_destination_prefix", Tunnel("remote_traffic_selector"))
      p3 == WithDefaultRoute(Filled(p2, "route_next_hop", Tunnel("remote_endpoint")))
  IN Filled(Filled(p3, "route_destination_prefix",
                   FirstText(p3.lists.routes, "destination_prefix")),
            "route_next_hop", FirstText(p3.lists.routes, "next_hop"))

\* Interface and next hop of an edge are made of other texts of it: the name VPP gives to
\* a host interface, and the address without the length of its prefix.
HostInterface(name) == IF name = Empty THEN Empty ELSE <<"host-", name>>
copy_address_without_cidr(address) ==
  IF address = Empty THEN Empty ELSE <<"address", address>>
NormalizedEdge(e) ==
  Filled(Filled(e, "vpp_interface", HostInterface(Text(e, "host_interface"))),
         "next_hop", copy_address_without_cidr(Text(e, "namespace_address")))

yaml_normalize(c) ==
  [c EXCEPT !.paths = [i \in DOMAIN @ |-> NormalizedPath(c, @[i])],
            !.vpp_edges = [i \in DOMAIN @ |-> NormalizedEdge(@[i])]]

-----------------------------------------------------------------------------
(* en_yaml_config_validate *)

Token(text) == text \notin {Empty, Bad}
Token0(text) == text # Bad
Tokens(item, fields) == \A f \in fields : Token(Text(item, f))
Tokens0(item, fields) == \A f \in fields : Token0(Text(item, f))
AllTokens(list) == \A i \in DOMAIN list : Token(list[i])
Unique(list) == \A i, j \in DOMAIN list : list[i] = list[j] => i = j
UniqueIn(items, field) ==
  \A i, j \in DOMAIN items :
    Text(items[i], field) = Text(items[j], field) /\ Token(Text(items[i], field)) => i = j

Number(item, field, low, high) ==
  field \in DOMAIN item.fields =>
    item.fields[field] # Unparsed /\ item.fields[field] \in low..high
\* What stands for no upper bound, larger than any number of the lines.
Unbounded == 1048575

Has(items, field, id) == id # Empty /\ At(items, field, id) # {}
\* Without nodes no reference to one is looked up.
KnownNode(c, id) == c.nodes # <<>> => Has(c.nodes, "id", id)
KnownNode0(c, id) == id = Empty \/ KnownNode(c, id)

ValidNode(n) ==
  /\ Tokens(n, {"id"}) /\ Tokens0(n, {"role"})
  /\ AllTokens(n.lists.endpoints) /\ AllTokens(n.lists.capabilities)
  /\ Unique(n.lists.capabilities)

GreComplete(t) ==
  /\ Tokens(t, {"gre_interface", "gre_local_address", "gre_remote_address"})
  /\ Tokens0(t, {"gre_outer_local_endpoint", "gre_outer_remote_endpoint"})
  /\ Number(t, "gre_instance", -1, 1048575) /\ Number(t, "gre_mtu", 0, 65535)
ValidTunnel(c, t) ==
  /\ Tokens(t, {"id", "local_node", "remote_node"})
  /\ Text(t, "type") \in {Empty, "ipsec", "gre_over_ipsec"}
  /\ Text(t, "type") = "gre_over_ipsec" => GreComplete(t)
  /\ KnownNode(c, Text(t, "local_node")) /\ KnownNode(c, Text(t, "remote_node"))
  /\ Text(t, "auth_method") \in {Empty, "psk", "pubkey"}
  /\ Text(t, "auth_method") = "pubkey" => Text(t, "local_cert") # Empty
  /\ Tokens0(t, {"local_cert", "remote_cacerts", "psk"})

ValidSegment(c, s) ==
  /\ Tokens0(s, {"id", "from_node", "to_node"}) /\ Tokens(s, {"tunnel_id"})
  /\ Has(c.tunnels, "id", Text(s, "tunnel_id"))
  /\ KnownNode0(c, Text(s, "from_node")) /\ KnownNode0(c, Text(s, "to_node"))

\* With edges, a route starts at one and leaves by one of its interfaces.
EdgesOf(c, r) == At(c.vpp_edges, "node_id", Text(r, "node_id"))
AtEdge(c, r) ==
  c.vpp_edges # <<>> =>
    /\ EdgesOf(c, r) # {}
    /\ Text(r, "interface_name") # Empty =>
         \E i \in EdgesOf(c, r) : Text(r, "interface_name") \in
           {Text(c.vpp_edges[i], "vpp_interface"), Text(c.vpp_edges[i], "host_interface")}
ValidRoute(c, r) ==
  /\ Tokens(r, {"node_id", "destination_prefix", "next_hop"})
  /\ Tokens0(r, {"id", "interface_name"})
  /\ KnownNode(c, Text(r, "node_id"))
  /\ Number(r, "table_id", -1, Unbounded) /\ Number(r, "metric", -1, Unbounded)
  /\ AtEdge(c, r)

ValidPath(c, p) ==
  /\ Tokens(p, {"id", "source", "destination"})
  /\ Text(p, "priority") # Unparsed
  /\ KnownNode(c, Text(p, "source")) /\ KnownNode(c, Text(p, "destination"))
  /\ p.lists.segments = <<>> =>
       p.lists.routes # <<>> /\ Text(p, "route_next_hop") # Empty
  /\ \A i \in DOMAIN p.lists.segments : ValidSegment(c, p.lists.segments[i])
  /\ \A i \in DOMAIN p.lists.routes : ValidRoute(c, p.lists.routes[i])
  /\ UniqueIn(p.lists.routes, "id")
  /\ Unique(p.lists.waypoints)
  /\ \A i \in DOMAIN p.lists.waypoints : KnownNode(c, p.lists.waypoints[i])
  /\ Text(p, "egress_tunnel_id") # Empty =>
       Has(c.tunnels, "id", Text(p, "egress_tunnel_id"))

ValidLimits(i) ==
  /\ Number(i, "max_rtt_ms", 0, Unbounded)
  /\ Number(i, "max_packet_loss_percent", 0, 100)
  /\ Number(i, "hysteresis_percent", 0, 100)
  /\ \A f \in {"failure_threshold", "recovery_threshold", "hold_down_ms", "max_pause_ms",
               "drain_timeout_ms", "timeout_ms", "retry_count", "retry_backoff_ms"} :
       Number(i, f, 0, Unbounded)
ValidIntent(c, i) ==
  /\ Tokens(i, {"id"})
  /\ Number(i, "vlan_id", 1, 4094)
  /\ Text(i, "deny_unmatched_vlan") \in {"true", "yes", "1"} => "vlan_id" \in DOMAIN i.fields
  /\ KnownNode(c, Text(i, "source")) /\ KnownNode(c, Text(i, "destination"))
  /\ ValidLimits(i)
  /\ Text(i, "mode") \in {Empty, "explicit"} => Has(c.paths, "id", Text(i, "path_id"))
  /\ \A j \in DOMAIN i.lists.candidates : Has(c.paths, "id", i.lists.candidates[j])
  /\ Unique(i.lists.candidates)
  /\ \A list \in {"required_waypoints", "forbidden_waypoints"} :
       \A j \in DOMAIN i.lists[list] : KnownNode(c, i.lists[list][j])
  /\ \A j \in DOMAIN i.lists.required_waypoints :
       \A k \in DOMAIN i.lists.forbidden_waypoints :
         i.lists.required_waypoints[j] # i.lists.forbidden_waypoints[k]
  /\ AllTokens(i.lists.required_capabilities) /\ Unique(i.lists.required_capabilities)

ValidEdge(e) ==
  /\ Tokens(e, {"node_id"}) /\ Text(e, "vpp_interface") # Empty /\ Text(e, "next_hop") # Empty
  /\ Tokens0(e, {"port_id", "vpp_socket"})
\* An edge without a port is taken for any port of its node.
SameEdge(e, f) ==
  /\ Text(e, "node_id") = Text(f, "node_id")
  /\ \/ Text(e, "port_id") \in {Empty, Text(f, "port_id")} \/ Text(f, "port_id") = Empty
     \/ Text(e, "vpp_interface") = Text(f, "vpp_interface")
     \/ Text(e, "host_interface") \notin {Empty} /\ Text(e, "host_interface") = Text(f, "host_interface")

en_yaml_config_validate(c) ==
  /\ c.paths # <<>>
  /\ \A i \in DOMAIN c.nodes : ValidNode(c.nodes[i])
  /\ \A i \in DOMAIN c.tunnels : ValidTunnel(c, c.tunnels[i])
  /\ \A i \in DOMAIN c.paths : ValidPath(c, c.paths[i])
  /\ \A i \in DOMAIN c.intents : ValidIntent(c, c.intents[i])
  /\ \A i \in DOMAIN c.vpp_edges : ValidEdge(c.vpp_edges[i])
  /\ \A s \in {"nodes", "tunnels", "paths", "intents"} : UniqueIn(c[s], "id")
  /\ \A i, j \in DOMAIN c.vpp_edges : SameEdge(c.vpp_edges[i], c.vpp_edges[j]) => i = j

-----------------------------------------------------------------------------

parse_line(l) ==
  \/ section_line(l) \/ outside_section(l) \/ malformed_line(l)
  \/ begin_item(l) \/ list_item(l)
  \/ field_line(l) \/ path_line(l) \/ intent_line(l)

\* fgets returns a line of the file.
read_line ==
  /\ status = "reading"
  /\ \E l \in Vocabularies[kind] : parse_line(l) /\ understand(l)
  /\ UNCHANGED kind

end_of_file ==
  /\ status = "reading"
  /\ config' = yaml_normalize(config)
  /\ status' = IF en_yaml_config_validate(config') THEN "loaded" ELSE "refused"
  /\ UNCHANGED <<kind, parser, open, meant>>

YamlNext == read_line \/ end_of_file
YamlSpec == YamlInit /\ [][YamlNext]_vars

-----------------------------------------------------------------------------

\* A list or mapping that is open belongs to an item that has been begun: an item of a
\* list of an intent is stored without looking whether there is an intent
\* (src/src/yaml_config.c:778), and the last segment and route are elements of their arrays.
ItemExists ==
  /\ context # "none" => top \in Sections /\ current[top] # 0
  /\ \A s \in Sections : current[s] \in {0, Len(config[s])}
  /\ segment # Nowhere =>
       segment[2] \in DOMAIN config.paths[segment[1]].lists.segments
  /\ route # Nowhere => route[2] \in DOMAIN config.paths[route[1]].lists.routes

\* No array holds more than it has room for, the context is one of the section, and what
\* the next line would be stored in exists.
YamlTypeOK ==
  /\ status \in {"reading", "loaded", "refused"}
  /\ \A s \in Sections :
       /\ Len(config[s]) <= Limit[s]
       /\ \A i \in DOMAIN config[s] : \A list \in ListsOf[s] :
            Len(config[s][i].lists[list]) <= Limit[list]
  /\ top \in Sections \cup {"none"}
  /\ context \in {"none"} \cup (IF top = "none" THEN {} ELSE ListsOf[top])
                 \cup (IF top = "intents" THEN IntentMappings ELSE {})
  /\ ItemExists

\* A file that follows the layout of docs/yaml-routes.md is read as its indentation says,
\* whatever the order of its lines: no field goes to another item, list or mapping, and
\* none is lost, but for a field of path_selection that follows the constraints (Lost).
ParsedAsMeant == status = "reading" /\ meant # Unknown => config = meant

\* Whatever the file looks like, a line changes the newest item of its section only; but a
\* field in a list of segments or routes that has no element yet goes to an element of the
\* item before (src/src/yaml_config.c:871).
NoElementYet ==
  /\ context \in {"segments", "routes"}
  /\ config.paths[current["paths"]].lists[context] = <<>>
OnlyNewestChanges ==
  [][ status' = "reading" /\ ~NoElementYet =>
        \A s \in Sections : \A i \in 1..Len(config[s]) - 1 : config'[s][i] = config[s][i]
    ]_vars

\* What the planner, the controller and the adapters take for granted of a loaded file:
\* an id names one item; a candidate is a path; a path is carried by tunnels of the file or
\* by a route; and every route, the one made of the defaults included, has a node, which is
\* at an edge if there are any, a prefix and a next hop.
LoadedIsUsable ==
  status = "loaded" =>
    /\ \A s \in {"nodes", "tunnels", "paths", "intents"} :
         \A i, j \in DOMAIN config[s] : Text(config[s][i], "id") = Text(config[s][j], "id") => i = j
    /\ \A i \in DOMAIN config.intents : \A j \in DOMAIN config.intents[i].lists.candidates :
         Cardinality(At(config.paths, "id", config.intents[i].lists.candidates[j])) = 1
    /\ \A i \in DOMAIN config.paths :
         LET p == config.paths[i]
         IN /\ p.lists.segments # <<>> \/ p.lists.routes # <<>>
            /\ Text(p, "route_destination_prefix") # Empty => p.lists.routes # <<>>
            /\ \A j \in DOMAIN p.lists.segments :
                 Cardinality(At(config.tunnels, "id", Text(p.lists.segments[j], "tunnel_id"))) = 1
            /\ \A j \in DOMAIN p.lists.routes :
                 LET r == p.lists.routes[j]
                 IN /\ Empty \notin {Text(r, "node_id"), Text(r, "destination_prefix"), Text(r, "next_hop")}
                    /\ config.vpp_edges # <<>> =>
                         \E k \in DOMAIN config.vpp_edges :
                           Text(config.vpp_edges[k], "node_id") = Text(r, "node_id")
===============================================================================
