---------------------------- MODULE MCYamlConfig ----------------------------
(* Files about paths, about tunnels and what refers to them, about intents,  *)
(* and about nodes and edges.  Lists are indented as in samples/, and one     *)
(* step less, as YAML allows.                                                *)
EXTENDS YamlConfig

CONSTANTS a, b, north, south, t1, t2, i1, net, port

MCLimit == [x \in Arrays |-> IF x \in {"paths", "intents"} THEN 2 ELSE 1]

\* A field, an item and an item that begins with a field, with the blocks they stand in.
Field(indent, key, value, under) ==
  [indent |-> indent, item |-> FALSE, key |-> key, value |-> value, under |-> under]
Item(indent, value, under) ==
  [indent |-> indent, item |-> TRUE, key |-> NoKey, value |-> value, under |-> under]
Begin(indent, key, value, under) ==
  [indent |-> indent, item |-> TRUE, key |-> key, value |-> value, under |-> under]
Section(s) == Field(0, s, Empty, {<<>>})
InItem(s) == {<<s, "-">>}
InList(s, list) == {<<s, "-", list>>}
InElement(list) == {<<"paths", "-", list, "-">>}
InMapping(mapping) == {<<"intents", "-", mapping>>}

PathLines ==
  {Section("paths"),
   Begin(2, "id", north, {<<"paths">>}), Begin(2, "id", south, {<<"paths">>}),
   Field(4, "source", a, InItem("paths")),
   Field(4, "segments", Empty, InItem("paths")),
   Begin(6, "id", a, InList("paths", "segments") \cup InList("paths", "routes")),
   Begin(4, "tunnel_id", t1, InList("paths", "segments")),
   Field(8, "tunnel_id", t2, InElement("segments")),
   Field(4, "routes", Empty, InItem("paths")),
   Field(6, "next_hop", net, InElement("routes"))}

Common ==
  {Section("paths"),
   Field(4, "source", a, InItem("paths")), Field(4, "destination", a, InItem("paths"))}
ReferenceLines ==
  Common \cup
  {Section("tunnels"), Begin(2, "id", t1, {<<"tunnels">>, <<"paths">>}),
   Field(4, "local_node", a, InItem("tunnels")), Field(4, "remote_node", a, InItem("tunnels")),
   Field(4, "remote_traffic_selector", net, InItem("tunnels")),
   Field(4, "remote_endpoint", b, InItem("tunnels")),
   Field(4, "segments", Empty, InItem("paths")),
   Begin(6, "tunnel_id", t1, InList("paths", "segments"))}

Routed ==
  Common \cup
  {Field(4, "route_destination_prefix", net, InItem("paths")),
   Field(4, "next_hop", b, InItem("paths"))}
SelectionLines ==
  Routed \cup
  {Section("intents"), Begin(2, "id", north, {<<"paths">>, <<"intents">>}),
   Field(4, "path_selection", Empty, InItem("intents")),
   Field(6, "mode", "evaluated", InMapping("path_selection")),
   Field(6, "candidates", Empty, InMapping("path_selection")),
   Item(8, north, {<<"intents", "-", "path_selection", "candidates">>})}

IntentLines ==
  {Section("intents"),
   Begin(2, "id", i1, {<<"intents">>}),
   Field(4, "path_selection", Empty, InItem("intents")),
   Field(6, "mode", "priority", InMapping("path_selection")),
   Field(6, "candidates", Empty, InMapping("path_selection")),
   Item(6, north, {<<"intents", "-", "path_selection", "candidates">>}),
   Field(6, "constraints", Empty, InMapping("path_selection")),
   Field(8, "forbidden_waypoints", Empty, {<<"intents", "-", "path_selection", "constraints">>}),
   Item(10, b, {<<"intents", "-", "path_selection", "constraints", "forbidden_waypoints">>}),
   Field(4, "fallback", Empty, InItem("intents")),
   Field(6, "path_id", south, InMapping("path_selection") \cup InMapping("fallback"))}

EdgeLines ==
  Routed \cup
  {Begin(2, "id", a, {<<"paths">>}),
   Section("vpp_edges"), Begin(2, "node_id", a, {<<"vpp_edges">>}),
   Field(4, "host_interface", port, InItem("vpp_edges")),
   Field(4, "namespace_address", net, InItem("vpp_edges"))}

NodeLines ==
  Common \cup
  {Section("nodes"), Begin(2, "id", a, {<<"nodes">>, <<"paths">>}),
   Field(4, "capabilities", Empty, InItem("nodes")), Item(6, net, InList("nodes", "capabilities")),
   Field(4, "administrative_state", "down", InItem("nodes")),
   Field(4, "priority", Unparsed, InItem("paths"))}

PortLines ==
  {Section("paths"), Begin(2, "id", a, {<<"paths">>}),
   Section("vpp_edges"), Begin(2, "port_id", port, {<<"vpp_edges">>}),
   Field(4, "psk", Long, InItem("tunnels")),
   Field(4, "allowed_vlans", Empty, InItem("vpp_edges")),
   Item(6, 100, InList("vpp_edges", "allowed_vlans")),
   Item(6, 4095, InList("vpp_edges", "allowed_vlans"))}

\* Two paths or two intents, not both: a file with two of each is left after the line that
\* makes it one.
MCBound == Len(config.paths) + Len(config.intents) <= 3

MCVocabularies ==
  [paths |-> PathLines, references |-> ReferenceLines, selection |-> SelectionLines,
   intents |-> IntentLines, edges |-> EdgeLines, nodes |-> NodeLines,
   ports |-> PortLines]
=============================================================================
