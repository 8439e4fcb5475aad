----------------------------- MODULE VppProofs -----------------------------
(***************************************************************************)
(* Proofs about the command adapter of VPP, for any keys, paths, routes    *)
(* and GRE tunnels, any number of retries and of commands that fail.       *)
(***************************************************************************)
EXTENDS VppCommand, ListProofs

-----------------------------------------------------------------------------
(* The order of an installation: what a command needs is made before it.    *)

\* The commands whose effect a command relies on.
Needs(c, p) ==
  CASE c.op \in {"gre_address", "gre_up"} -> {Cmd("gre_create", c.on)}
    [] c.op = "sub_up" -> {Cmd("sub_create", c.on)}
    [] c.op = "if_table" ->
         {Cmd("vlan_known", p), Cmd("table_add", c.on[2])}
         \cup (IF HasVlan THEN {Cmd("sub_create", c.on[1])} ELSE {})
    [] c.op = "route_add" ->
         (IF TableOf[p] > 0 THEN {Cmd("table_add", TableOf[p])} ELSE {})
         \cup (IF Via[c.on] # NoGre THEN {Cmd("gre_create", Via[c.on])} ELSE {})
    [] c.op = "verify_route" ->
         {Cmd("route_add", c.on)}
         \cup (IF Via[c.on] # NoGre THEN {Cmd("gre_up", Via[c.on])} ELSE {})
    [] c.op = "verify_gre" -> {Cmd("gre_up", c.on)}
    [] c.op = "verify_sub" -> {Cmd("sub_up", c.on)}
    [] OTHER -> {}

\* Every command of s finds what it needs among `given` or before it.
Supplied(s, given, p) ==
  \A i \in DOMAIN s : \A d \in Needs(s[i], p) :
    d \in given \/ \E j \in 1 .. i - 1 : s[j] = d

LEMMA SuppliedGiven ==
  ASSUME NEW s, NEW given, NEW p, \A c \in Elements(s) : Needs(c, p) \subseteq given
  PROVE  Supplied(s, given, p)
BY DEF Supplied, Elements

LEMMA SuppliedThree ==
  ASSUME NEW S, NEW s \in Seq(S), NEW a, NEW b, NEW c, NEW given, NEW p,
         \A x \in Elements(s) :
           /\ Needs(Cmd(a, x), p) \subseteq given
           /\ Needs(Cmd(b, x), p) \subseteq given \cup {Cmd(a, x)}
           /\ Needs(Cmd(c, x), p) \subseteq given \cup {Cmd(a, x), Cmd(b, x)}
  PROVE  Supplied(Each(<<a, b, c>>, s), given, p)
<1> DEFINE e == Each(<<a, b, c>>, s)
<1>0. Len(s) \in Nat /\ DOMAIN s = 1 .. Len(s)
  OBVIOUS
<1> SUFFICES ASSUME NEW i \in DOMAIN e, NEW d \in Needs(e[i], p)
             PROVE  d \in given \/ \E j \in 1 .. i - 1 : e[j] = d
  BY DEF Supplied
<1>1. i \in 1 .. 3 * Len(s)
  BY EachThree
<1>2. PICK m \in 1 .. Len(s) : i \in {3 * m - 2, 3 * m - 1, 3 * m}
  BY <1>0, <1>1, ThreePlaces
<1>3. /\ e[3 * m - 2] = Cmd(a, s[m]) /\ e[3 * m - 1] = Cmd(b, s[m])
      /\ e[3 * m] = Cmd(c, s[m])
  BY EachThree
<1>4. s[m] \in Elements(s)
  BY <1>0 DEF Elements
<1> HIDE DEF e
<1>5. CASE i = 3 * m - 2
  BY <1>3, <1>4, <1>5
<1>6. CASE i = 3 * m - 1
  <2>1. d \in given \/ d = e[3 * m - 2]
    BY <1>3, <1>4, <1>6
  <2>2. 3 * m - 2 \in 1 .. i - 1
    BY <1>0, <1>6
  <2> QED BY <2>1, <2>2
<1>7. CASE i = 3 * m
  <2>1. d \in given \/ d = e[3 * m - 2] \/ d = e[3 * m - 1]
    BY <1>3, <1>4, <1>7
  <2>2. {3 * m - 2, 3 * m - 1} \subseteq 1 .. i - 1
    BY <1>0, <1>7
  <2> QED BY <2>1, <2>2
<1> QED BY <1>2, <1>5, <1>6, <1>7

LEMMA SuppliedConcat ==
  ASSUME NEW S, NEW s \in Seq(S), NEW u \in Seq(S), NEW given, NEW p,
         Supplied(s, given, p), Supplied(u, given \cup Elements(s), p)
  PROVE  Supplied(s \o u, given, p)
<1>1. /\ DOMAIN (s \o u) = 1 .. Len(s) + Len(u)
      /\ DOMAIN s = 1 .. Len(s) /\ DOMAIN u = 1 .. Len(u) /\ Len(s) \in Nat /\ Len(u) \in Nat
      /\ \A i \in 1 .. Len(s) : (s \o u)[i] = s[i]
      /\ \A i \in 1 .. Len(u) : (s \o u)[i + Len(s)] = u[i]
      /\ \A i \in 1 .. Len(s) + Len(u) : i > Len(s) => (s \o u)[i] = u[i - Len(s)]
  BY ConcatProperties
<1> DEFINE e == s \o u
<1> HIDE DEF e
<1> SUFFICES ASSUME NEW i \in 1 .. Len(s) + Len(u), NEW d \in Needs(e[i], p), d \notin given
             PROVE  \E j \in 1 .. i - 1 : e[j] = d
  BY <1>1 DEF Supplied, e
<1>2. CASE i <= Len(s)
  <2>1. PICK j \in 1 .. i - 1 : s[j] = d
    BY <1>1, <1>2 DEF Supplied, e
  <2> QED BY <1>1, <1>2, <2>1 DEF e
<1>3. CASE i > Len(s)
  <2>1. i - Len(s) \in DOMAIN u /\ d \in Needs(u[i - Len(s)], p)
    BY <1>1, <1>3 DEF e
  <2>2. CASE d \in Elements(s)
    <3>1. PICK j \in 1 .. Len(s) : s[j] = d
      BY <1>1, <2>2 DEF Elements
    <3> QED BY <1>1, <1>3, <3>1 DEF e
  <2>3. CASE d \notin Elements(s)
    <3>1. PICK j \in 1 .. (i - Len(s)) - 1 : u[j] = d
      BY <2>1, <2>3 DEF Supplied
    <3>2. j + Len(s) \in 1 .. i - 1 /\ j \in 1 .. Len(u)
      BY <1>1, <1>3
    <3> QED BY <1>1, <3>1, <3>2 DEF e
  <2> QED BY <2>2, <2>3
<1> QED BY <1>1, <1>2, <1>3

\* Behind a command whose effect holds, the rest is supplied as well.
LEMMA SuppliedTail ==
  ASSUME NEW S, NEW s \in Seq(S), s # <<>>, NEW given, NEW more, NEW p,
         Supplied(s, given, p), given \subseteq more, Head(s) \in more
  PROVE  Supplied(Tail(s), more, p)
<1>1. /\ Len(s) \in Nat /\ Len(s) > 0
      /\ \A i \in 1 .. Len(s) - 1 : Tail(s)[i] = s[i + 1]
      /\ Head(s) = s[1] /\ DOMAIN s = 1 .. Len(s)
      /\ DOMAIN Tail(s) = 1 .. Len(s) - 1
  BY HeadTailProperties, LenProperties, EmptySeq
<1> DEFINE e == Tail(s)
<1> HIDE DEF e
<1> SUFFICES ASSUME NEW i \in 1 .. Len(s) - 1, NEW d \in Needs(e[i], p), d \notin more
             PROVE  \E j \in 1 .. i - 1 : e[j] = d
  BY <1>1 DEF Supplied, e
<1>2. i + 1 \in DOMAIN s /\ d \in Needs(s[i + 1], p) /\ d \notin given
  BY <1>1 DEF e
<1>3. PICK j \in 1 .. (i + 1) - 1 : s[j] = d
  BY <1>2 DEF Supplied
<1>4. j # 1
  BY <1>1, <1>3
<1>5. j - 1 \in 1 .. i - 1 /\ e[j - 1] = s[j - 1 + 1] /\ j - 1 + 1 = j
  BY <1>1, <1>4 DEF e
<1> QED BY <1>3, <1>5

-----------------------------------------------------------------------------
(* What an installation and a removal consist of.                          *)

GreSet(p) ==
  LET gres == Elements(GresOf[p])
  IN On("gre_create", gres) \cup On("gre_address", gres) \cup On("gre_up", gres)
VlanSet(p) ==
  LET edges == Elements(EdgesOf[p])
  IN IF HasVlan
     THEN On("vlan_allowed", edges) \cup On("sub_create", edges) \cup On("sub_up", edges)
     ELSE {}
AclSet(p) == IF Deny THEN On("acl_set", Elements(EdgesOf[p])) ELSE {}
TableSet(p) ==
  {Cmd("vlan_known", p)}
  \cup (IF TableOf[p] > 0
        THEN {Cmd("table_add", TableOf[p])}
             \cup {Cmd("if_table", <<e, TableOf[p]>>) : e \in Elements(EdgesOf[p])}
        ELSE {})
RouteSet(p) == On("route_add", Elements(RoutesOf[p]))
VerifySet(p) ==
  IF Verify
  THEN On("verify_route", Elements(RoutesOf[p]))
       \cup (IF GresOf[p] # <<>> THEN {Cmd("verify_gre", GresOf[p][1])} ELSE {})
       \cup (IF HasVlan THEN On("verify_sub", Elements(EdgesOf[p])) ELSE {})
  ELSE {}
InstallSet(p) ==
  GreSet(p) \cup VlanSet(p) \cup AclSet(p) \cup TableSet(p) \cup RouteSet(p) \cup VerifySet(p)
RemoveSet(p) ==
  On("route_del", Elements(RoutesOf[p])) \cup On("gre_delete", Elements(GresOf[p]))

\* The routes of a path leave through its own tunnels.
Own(p) == \A r \in Elements(RoutesOf[p]) : Via[r] \in Elements(GresOf[p]) \cup {NoGre}

LEMMA Constants ==
  ASSUME NEW p \in Paths
  PROVE  /\ RoutesOf[p] \in Seq(Routes) /\ GresOf[p] \in Seq(Gres) /\ EdgesOf[p] \in Seq(Edges)
         /\ TableOf[p] \in Nat
         /\ Elements(RoutesOf[p]) \subseteq Routes /\ Elements(GresOf[p]) \subseteq Gres
         /\ Elements(EdgesOf[p]) \subseteq Edges
         /\ HasVlan \in BOOLEAN /\ Deny \in BOOLEAN /\ Verify \in BOOLEAN
         /\ p # NoPath
<1>1. /\ RoutesOf[p] \in Seq(Routes) /\ GresOf[p] \in Seq(Gres) /\ EdgesOf[p] \in Seq(Edges)
      /\ TableOf[p] \in Nat
      /\ HasVlan \in BOOLEAN /\ Deny \in BOOLEAN /\ Verify \in BOOLEAN
      /\ p # NoPath
  BY VppAssumption
<1>2. ASSUME NEW S, NEW s \in Seq(S) PROVE Elements(s) \subseteq S
  BY <1>2 DEF Elements
<1> QED BY <1>1, <1>2

\* The parts of an installation: a list of commands of `set`, which has all of them,
\* supplied if `given` has taken effect and the routes are the path's own.
Part(s, set, given, p) ==
  s \in Seq(set) /\ Elements(s) = set /\ (Own(p) => Supplied(s, given, p))

LEMMA PartOne ==
  ASSUME NEW S, NEW s \in Seq(S), NEW a, NEW given, NEW p,
         Own(p) => \A x \in Elements(s) : Needs(Cmd(a, x), p) \subseteq given
  PROVE  Part(Each(<<a>>, s), On(a, Elements(s)), given, p)
<1> DEFINE e == Each(<<a>>, s)
<1>1. Elements(e) = On(a, Elements(s))
  BY EachElementsOne
<1>2. e \in Seq(On(a, Elements(s)))
  BY <1>1, EachSeq
<1>3. Own(p) => Supplied(e, given, p)
  BY <1>1, SuppliedGiven DEF On
<1> QED BY <1>1, <1>2, <1>3 DEF Part

LEMMA PartThree ==
  ASSUME NEW S, NEW s \in Seq(S), NEW a, NEW b, NEW c, NEW given, NEW p,
         \A x \in Elements(s) :
           /\ Needs(Cmd(a, x), p) \subseteq given
           /\ Needs(Cmd(b, x), p) \subseteq given \cup {Cmd(a, x)}
           /\ Needs(Cmd(c, x), p) \subseteq given \cup {Cmd(a, x), Cmd(b, x)}
  PROVE  LET set == On(a, Elements(s)) \cup On(b, Elements(s)) \cup On(c, Elements(s))
         IN Part(Each(<<a, b, c>>, s), set, given, p)
<1> DEFINE e == Each(<<a, b, c>>, s)
           set == On(a, Elements(s)) \cup On(b, Elements(s)) \cup On(c, Elements(s))
<1>1. Elements(Each(<<a, b, c>>, s)) =
        On(a, Elements(s)) \cup On(b, Elements(s)) \cup On(c, Elements(s))
  BY EachElements
<1>2. e \in Seq(set)
  BY <1>1, EachSeq
<1>3. Supplied(e, given, p)
  BY SuppliedThree
<1> QED BY <1>1, <1>2, <1>3 DEF Part, set

LEMMA PartNone ==
  ASSUME NEW given, NEW p
  PROVE  Part(<<>>, {}, given, p)
BY DEF Part, Elements, Supplied

LEMMA PartWhen ==
  ASSUME NEW condition \in BOOLEAN, NEW s, NEW set, NEW given, NEW p,
         condition => Part(s, set, given, p)
  PROVE  Part(When(condition, s), IF condition THEN set ELSE {}, given, p)
BY PartNone DEF When

LEMMA PartsConcat ==
  ASSUME NEW s, NEW u, NEW set, NEW more, NEW given, NEW known, NEW p,
         Part(s, set, given, p), Part(u, more, known, p), known \subseteq given \cup set
  PROVE  Part(s \o u, set \cup more, given, p)
<1> DEFINE S == set \cup more
<1>1. s \in Seq(S) /\ u \in Seq(S)
  BY DEF Part
<1>2. Elements(s \o u) = S /\ s \o u \in Seq(S)
  BY <1>1, ConcatElements DEF Part
<1>3. Own(p) => Supplied(u, given \cup Elements(s), p)
  BY DEF Part, Supplied
<1>4. Own(p) => Supplied(s \o u, given, p)
  BY <1>1, <1>3, SuppliedConcat DEF Part
<1> QED BY <1>2, <1>4 DEF Part

LEMMA GreList ==
  ASSUME NEW p \in Paths
  PROVE  Part(GreCommands(p), GreSet(p), {}, p)
<1>1. GresOf[p] \in Seq(Gres)
  BY Constants
<1>2. ASSUME NEW g \in Elements(GresOf[p])
      PROVE  /\ Needs(Cmd("gre_create", g), p) \subseteq {}
             /\ Needs(Cmd("gre_address", g), p) \subseteq {} \cup {Cmd("gre_create", g)}
             /\ Needs(Cmd("gre_up", g), p)
                  \subseteq {} \cup {Cmd("gre_create", g), Cmd("gre_address", g)}
  BY DEF Needs, Cmd
<1> QED BY <1>1, <1>2, PartThree DEF GreCommands, GreSet

LEMMA VlanList ==
  ASSUME NEW p \in Paths
  PROVE  Part(VlanCommands(p), VlanSet(p), {}, p)
<1>1. EdgesOf[p] \in Seq(Edges) /\ HasVlan \in BOOLEAN
  BY Constants
<1>2. ASSUME NEW x \in Elements(EdgesOf[p])
      PROVE  /\ Needs(Cmd("vlan_allowed", x), p) \subseteq {}
             /\ Needs(Cmd("sub_create", x), p) \subseteq {} \cup {Cmd("vlan_allowed", x)}
             /\ Needs(Cmd("sub_up", x), p)
                  \subseteq {} \cup {Cmd("vlan_allowed", x), Cmd("sub_create", x)}
  BY DEF Needs, Cmd
<1> DEFINE set == On("vlan_allowed", Elements(EdgesOf[p]))
                  \cup On("sub_create", Elements(EdgesOf[p]))
                  \cup On("sub_up", Elements(EdgesOf[p]))
           s == Each(<<"vlan_allowed", "sub_create", "sub_up">>, EdgesOf[p])
<1>3. Part(s, set, {}, p)
  BY <1>1, <1>2, PartThree
<1> HIDE DEF set, s
<1>4. Part(When(HasVlan, s), IF HasVlan THEN set ELSE {}, {}, p)
  BY <1>1, <1>3, PartWhen
<1> QED BY <1>4 DEF VlanCommands, VlanSet, set, s

LEMMA AclList ==
  ASSUME NEW p \in Paths
  PROVE  Part(AclCommands(p), AclSet(p), {}, p)
<1>1. EdgesOf[p] \in Seq(Edges) /\ Deny \in BOOLEAN
  BY Constants
<1>2. \A x \in Elements(EdgesOf[p]) : Needs(Cmd("acl_set", x), p) \subseteq {}
  BY DEF Needs, Cmd
<1>3. Part(Each(<<"acl_set">>, EdgesOf[p]), On("acl_set", Elements(EdgesOf[p])), {}, p)
  BY <1>1, <1>2, PartOne
<1>4. Part(When(Deny, Each(<<"acl_set">>, EdgesOf[p])),
           IF Deny THEN On("acl_set", Elements(EdgesOf[p])) ELSE {}, {}, p)
  BY <1>1, <1>3, PartWhen
<1> QED BY <1>4 DEF AclCommands, AclSet

LEMMA PartSingle ==
  ASSUME NEW c, NEW given, NEW p, Needs(c, p) \subseteq given
  PROVE  Part(<<c>>, {c}, given, p)
<1>1. <<c>> \in Seq({c}) /\ Elements(<<c>>) = {c}
  BY DEF Elements
<1>2. Supplied(<<c>>, given, p)
  BY <1>1, SuppliedGiven
<1> QED BY <1>1, <1>2 DEF Part

\* The edges of a path with its table.
Tabled(p) == [i \in DOMAIN EdgesOf[p] |-> <<EdgesOf[p][i], TableOf[p]>>]

LEMMA TabledElements ==
  ASSUME NEW p \in Paths
  PROVE  /\ Tabled(p) \in Seq(Edges \X Nat)
         /\ Elements(Tabled(p)) = {<<e, TableOf[p]>> : e \in Elements(EdgesOf[p])}
<1>1. EdgesOf[p] \in Seq(Edges) /\ TableOf[p] \in Nat
  BY Constants
<1>2. Len(EdgesOf[p]) \in Nat /\ DOMAIN EdgesOf[p] = 1 .. Len(EdgesOf[p])
      /\ \A i \in DOMAIN EdgesOf[p] : EdgesOf[p][i] \in Edges
  BY <1>1
<1>3. Tabled(p) \in [1 .. Len(EdgesOf[p]) -> Edges \X Nat]
  BY <1>1, <1>2 DEF Tabled
<1>4. Tabled(p) \in Seq(Edges \X Nat)
  BY <1>2, <1>3, SeqDef
<1> QED BY <1>4 DEF Tabled, Elements

LEMMA TableList ==
  ASSUME NEW p \in Paths
  PROVE  Part(TableCommands(p), TableSet(p), VlanSet(p), p)
<1>1. EdgesOf[p] \in Seq(Edges) /\ TableOf[p] \in Nat /\ HasVlan \in BOOLEAN
      /\ (TableOf[p] > 0) \in BOOLEAN
  BY Constants
<1> DEFINE set == {Cmd("table_add", TableOf[p])}
           known == {Cmd("vlan_known", p)}
           more == On("if_table", Elements(Tabled(p)))
           u == When(TableOf[p] > 0, <<Cmd("table_add", TableOf[p])>>)
           v == <<Cmd("vlan_known", p)>>
           w == When(TableOf[p] > 0, Each(<<"if_table">>, Tabled(p)))
           first == IF TableOf[p] > 0 THEN set ELSE {}
           last == IF TableOf[p] > 0 THEN more ELSE {}
           given == VlanSet(p) \cup (first \cup known)
<1>2. Part(u, first, VlanSet(p), p)
  <2>1. Needs(Cmd("table_add", TableOf[p]), p) \subseteq VlanSet(p)
    BY DEF Needs, Cmd
  <2> HIDE DEF set
  <2>2. Part(<<Cmd("table_add", TableOf[p])>>, set, VlanSet(p), p)
    BY <2>1, PartSingle DEF set
  <2> QED BY <1>1, <2>2, PartWhen
<1>3. Part(v, known, VlanSet(p), p)
  <2>1. Needs(Cmd("vlan_known", p), p) \subseteq VlanSet(p)
    BY DEF Needs, Cmd
  <2> QED BY <2>1, PartSingle
<1>4. TableOf[p] > 0 => Part(Each(<<"if_table">>, Tabled(p)), more, given, p)
  <2> SUFFICES ASSUME TableOf[p] > 0 PROVE Part(Each(<<"if_table">>, Tabled(p)), more, given, p)
    OBVIOUS
  <2>1. ASSUME NEW e \in Elements(EdgesOf[p])
        PROVE  Needs(Cmd("if_table", <<e, TableOf[p]>>), p) \subseteq given
    <3>1. Needs(Cmd("if_table", <<e, TableOf[p]>>), p) =
            {Cmd("vlan_known", p), Cmd("table_add", TableOf[p])}
            \cup (IF HasVlan THEN {Cmd("sub_create", e)} ELSE {})
      BY DEF Needs, Cmd
    <3>2. HasVlan => Cmd("sub_create", e) \in VlanSet(p)
      BY DEF VlanSet, On
    <3> QED BY <1>1, <3>1, <3>2
  <2>2. \A x \in Elements(Tabled(p)) : Needs(Cmd("if_table", x), p) \subseteq given
    BY <2>1, TabledElements
  <2> HIDE DEF given
  <2> QED BY <2>2, TabledElements, PartOne
<1> HIDE DEF set, known, more
<1>5. Part(w, last, given, p)
  BY <1>1, <1>4, PartWhen
<1> HIDE DEF u, v, w, first, last
<1>6. Part(u \o v, first \cup known, VlanSet(p), p)
  BY <1>2, <1>3, PartsConcat
<1>7. Part((u \o v) \o w, (first \cup known) \cup last, VlanSet(p), p)
  BY <1>5, <1>6, PartsConcat
<1>8. (u \o v) \o w = TableCommands(p)
  BY DEF TableCommands, Tabled, u, v, w, Cmd
<1>9. more = {Cmd("if_table", <<e, TableOf[p]>>) : e \in Elements(EdgesOf[p])}
  BY TabledElements DEF more, On
<1>10. (first \cup known) \cup last = TableSet(p)
  BY <1>1, <1>9 DEF TableSet, first, last, set, known
<1> QED BY <1>7, <1>8, <1>10

LEMMA RouteList ==
  ASSUME NEW p \in Paths
  PROVE  Part(Each(<<"route_add">>, RoutesOf[p]), RouteSet(p), GreSet(p) \cup TableSet(p), p)
<1>1. RoutesOf[p] \in Seq(Routes)
  BY Constants
<1>2. ASSUME Own(p), NEW r \in Elements(RoutesOf[p])
      PROVE  Needs(Cmd("route_add", r), p) \subseteq GreSet(p) \cup TableSet(p)
  <2>1. Needs(Cmd("route_add", r), p) =
          (IF TableOf[p] > 0 THEN {Cmd("table_add", TableOf[p])} ELSE {})
          \cup (IF Via[r] # NoGre THEN {Cmd("gre_create", Via[r])} ELSE {})
    BY DEF Needs, Cmd
  <2>2. TableOf[p] > 0 => Cmd("table_add", TableOf[p]) \in TableSet(p)
    BY DEF TableSet
  <2>3. Via[r] # NoGre => Cmd("gre_create", Via[r]) \in GreSet(p)
    BY <1>2 DEF Own, GreSet, On
  <2> QED BY <2>1, <2>2, <2>3
<1> QED BY <1>1, <1>2, PartOne DEF RouteSet

LEMMA VerifyList ==
  ASSUME NEW p \in Paths
  PROVE  Part(VerifyCommands(p), VerifySet(p), GreSet(p) \cup VlanSet(p) \cup RouteSet(p), p)
<1> DEFINE given == GreSet(p) \cup VlanSet(p) \cup RouteSet(p)
           routes == On("verify_route", Elements(RoutesOf[p]))
           first == IF GresOf[p] # <<>> THEN {Cmd("verify_gre", GresOf[p][1])} ELSE {}
           subs == IF HasVlan THEN On("verify_sub", Elements(EdgesOf[p])) ELSE {}
           s == Each(<<"verify_route">>, RoutesOf[p])
           g == When(GresOf[p] # <<>>, <<GresOf[p][1]>>)
           t == Each(<<"verify_gre">>, g)
           u == When(HasVlan, Each(<<"verify_sub">>, EdgesOf[p]))
<1>1. /\ RoutesOf[p] \in Seq(Routes) /\ GresOf[p] \in Seq(Gres) /\ EdgesOf[p] \in Seq(Edges)
      /\ HasVlan \in BOOLEAN /\ Verify \in BOOLEAN /\ (GresOf[p] # <<>>) \in BOOLEAN
  BY Constants
<1>2. Part(s, routes, given, p)
  <2>1. ASSUME Own(p), NEW r \in Elements(RoutesOf[p])
        PROVE  Needs(Cmd("verify_route", r), p) \subseteq given
    <3>1. Needs(Cmd("verify_route", r), p) =
            {Cmd("route_add", r)} \cup (IF Via[r] # NoGre THEN {Cmd("gre_up", Via[r])} ELSE {})
      BY DEF Needs, Cmd
    <3>2. Cmd("route_add", r) \in RouteSet(p)
      BY DEF RouteSet, On
    <3>3. Via[r] # NoGre => Cmd("gre_up", Via[r]) \in GreSet(p)
      BY <2>1 DEF Own, GreSet, On
    <3> QED BY <3>1, <3>2, <3>3
  <2> HIDE DEF given
  <2> QED BY <1>1, <2>1, PartOne
<1>3. Part(t, first, given, p)
  <2>1. CASE GresOf[p] = <<>>
    <3>1. g = <<>> /\ g \in Seq(Gres) /\ Elements(g) = {}
      BY <2>1 DEF When, Elements
    <3> HIDE DEF g, given
    <3>2. Part(t, On("verify_gre", Elements(g)), given, p)
      BY <3>1, PartOne
    <3> QED BY <2>1, <3>1, <3>2 DEF On
  <2>2. CASE GresOf[p] # <<>>
    <3>1. GresOf[p][1] \in Gres /\ GresOf[p][1] \in Elements(GresOf[p])
      BY <1>1, <2>2 DEF Elements
    <3>2. g = <<GresOf[p][1]>> /\ g \in Seq(Gres)
      BY <2>2, <3>1 DEF When
    <3>3. Elements(g) = {GresOf[p][1]}
      BY <3>2 DEF Elements
    <3>4. Needs(Cmd("verify_gre", GresOf[p][1]), p) \subseteq given
      <4>1. Needs(Cmd("verify_gre", GresOf[p][1]), p) = {Cmd("gre_up", GresOf[p][1])}
        BY DEF Needs, Cmd
      <4> QED BY <3>1, <4>1 DEF GreSet, On
    <3> HIDE DEF g, given
    <3>5. Part(t, On("verify_gre", Elements(g)), given, p)
      BY <3>2, <3>3, <3>4, PartOne
    <3> QED BY <2>2, <3>3, <3>5 DEF On
  <2> QED BY <2>1, <2>2
<1>4. Part(u, subs, given, p)
  <2>1. HasVlan => Part(Each(<<"verify_sub">>, EdgesOf[p]),
                        On("verify_sub", Elements(EdgesOf[p])), given, p)
    <3> SUFFICES ASSUME HasVlan
                 PROVE  Part(Each(<<"verify_sub">>, EdgesOf[p]),
                             On("verify_sub", Elements(EdgesOf[p])), given, p)
      OBVIOUS
    <3>1. ASSUME NEW e \in Elements(EdgesOf[p])
          PROVE  Needs(Cmd("verify_sub", e), p) \subseteq given
      <4>1. Needs(Cmd("verify_sub", e), p) = {Cmd("sub_up", e)}
        BY DEF Needs, Cmd
      <4> QED BY <4>1 DEF VlanSet, On
    <3> HIDE DEF given
    <3> QED BY <1>1, <3>1, PartOne
  <2> HIDE DEF given
  <2> QED BY <1>1, <2>1, PartWhen
<1> HIDE DEF given, routes, first, subs, s, t, u
<1>5. Part(s \o t, routes \cup first, given, p)
  BY <1>2, <1>3, PartsConcat
<1>6. Part((s \o t) \o u, (routes \cup first) \cup subs, given, p)
  BY <1>4, <1>5, PartsConcat
<1>7. Part(When(Verify, (s \o t) \o u), IF Verify THEN (routes \cup first) \cup subs ELSE {}, given, p)
  BY <1>1, <1>6, PartWhen
<1> QED BY <1>7 DEF VerifyCommands, VerifySet, given, routes, first, subs, s, t, u

\* An installation: all its commands, each behind those it needs.
LEMMA InstallList ==
  ASSUME NEW p \in Paths
  PROVE  /\ InstallCommands(p) \in Seq(InstallSet(p))
         /\ Elements(InstallCommands(p)) = InstallSet(p)
         /\ Own(p) => Supplied(InstallCommands(p), {}, p)
<1> DEFINE a == GreCommands(p)
           b == VlanCommands(p)
           c == AclCommands(p)
           d == TableCommands(p)
           e == Each(<<"route_add">>, RoutesOf[p])
           f == VerifyCommands(p)
           s1 == GreSet(p) \cup VlanSet(p)
           s2 == s1 \cup AclSet(p)
           s3 == s2 \cup TableSet(p)
           s4 == s3 \cup RouteSet(p)
<1>0. /\ Part(a, GreSet(p), {}, p) /\ Part(b, VlanSet(p), {}, p) /\ Part(c, AclSet(p), {}, p)
      /\ Part(d, TableSet(p), VlanSet(p), p)
      /\ Part(e, RouteSet(p), GreSet(p) \cup TableSet(p), p)
      /\ Part(f, VerifySet(p), GreSet(p) \cup VlanSet(p) \cup RouteSet(p), p)
  BY GreList, VlanList, AclList, TableList, RouteList, VerifyList
<1> HIDE DEF a, b, c, d, e, f
<1>1. Part(a \o b, s1, {}, p)
  BY <1>0, PartsConcat
<1>2. Part((a \o b) \o c, s2, {}, p)
  BY <1>0, <1>1, PartsConcat
<1>3. Part(((a \o b) \o c) \o d, s3, {}, p)
  <2>1. VlanSet(p) \subseteq {} \cup s2
    OBVIOUS
  <2> HIDE DEF s2
  <2> QED BY <1>0, <1>2, <2>1, PartsConcat
<1>4. Part((((a \o b) \o c) \o d) \o e, s4, {}, p)
  <2>1. GreSet(p) \cup TableSet(p) \subseteq {} \cup s3
    OBVIOUS
  <2> HIDE DEF s3
  <2> QED BY <1>0, <1>3, <2>1, PartsConcat
<1>5. Part(((((a \o b) \o c) \o d) \o e) \o f, s4 \cup VerifySet(p), {}, p)
  <2>1. GreSet(p) \cup VlanSet(p) \cup RouteSet(p) \subseteq {} \cup s4
    OBVIOUS
  <2> HIDE DEF s4
  <2> QED BY <1>0, <1>4, <2>1, PartsConcat
<1> QED BY <1>5 DEF InstallCommands, InstallSet, Part, a, b, c, d, e, f

LEMMA RemoveList ==
  ASSUME NEW p \in Paths
  PROVE  /\ RemoveCommands(p) \in Seq(RemoveSet(p))
         /\ Elements(RemoveCommands(p)) = RemoveSet(p)
<1> DEFINE s == Each(<<"route_del">>, RoutesOf[p])
           t == Reversed(GresOf[p])
           u == Each(<<"gre_delete">>, t)
<1>1. /\ RoutesOf[p] \in Seq(Routes) /\ t \in Seq(Gres)
      /\ Elements(t) = Elements(GresOf[p])
  BY Constants, ReversedElements
<1> HIDE DEF t
<1>2. /\ Elements(s) = On("route_del", Elements(RoutesOf[p]))
      /\ Elements(u) = On("gre_delete", Elements(GresOf[p]))
  BY <1>1, EachElementsOne
<1>3. s \in Seq(RemoveSet(p)) /\ u \in Seq(RemoveSet(p))
  BY <1>1, <1>2, EachSeq DEF RemoveSet
<1>4. s \o u \in Seq(RemoveSet(p)) /\ Elements(s \o u) = Elements(s) \cup Elements(u)
  BY <1>3, ConcatElements
<1> QED BY <1>2, <1>4 DEF RemoveCommands, RemoveSet, t

\* The commands of a path, operation by operation.
LEMMA InstallShape ==
  ASSUME NEW p \in Paths, NEW c \in InstallSet(p)
  PROVE  /\ c = Cmd(c.op, c.on)
         /\ c.op \in {"gre_create", "gre_address", "gre_up", "vlan_allowed", "sub_create",
                      "sub_up", "acl_set", "table_add", "vlan_known", "if_table", "route_add",
                      "verify_route", "verify_gre", "verify_sub"}
         /\ c.op \in {"gre_create", "gre_address", "gre_up", "verify_gre"} =>
              c.on \in Elements(GresOf[p]) /\ c.on \in Gres
         /\ c.op \in {"vlan_allowed", "sub_create", "sub_up", "acl_set", "verify_sub"} =>
              c.on \in Elements(EdgesOf[p]) /\ c.on \in Edges
         /\ c.op \in {"sub_create", "sub_up"} => HasVlan
         /\ c.op = "acl_set" => Deny
         /\ c.op = "table_add" => c.on = TableOf[p] /\ TableOf[p] > 0
         /\ c.op = "if_table" =>
              /\ \E e \in Elements(EdgesOf[p]) : c.on = <<e, TableOf[p]>>
              /\ c.on[1] \in Elements(EdgesOf[p]) /\ c.on[1] \in Edges
              /\ c.on[2] = TableOf[p] /\ TableOf[p] > 0
         /\ c.op \in {"route_add", "verify_route"} =>
              c.on \in Elements(RoutesOf[p]) /\ c.on \in Routes
<1>1. Elements(GresOf[p]) \subseteq Gres /\ Elements(EdgesOf[p]) \subseteq Edges
      /\ Elements(RoutesOf[p]) \subseteq Routes
  BY Constants
<1>2. GresOf[p] # <<>> => GresOf[p][1] \in Elements(GresOf[p])
  <2>1. GresOf[p] \in Seq(Gres)
    BY Constants
  <2> QED BY <2>1 DEF Elements
<1>3. CASE c \in GreSet(p)
  BY <1>1, <1>3 DEF GreSet, On, Cmd
<1>4. CASE c \in VlanSet(p)
  BY <1>1, <1>4 DEF VlanSet, On, Cmd
<1>5. CASE c \in AclSet(p)
  BY <1>1, <1>5 DEF AclSet, On, Cmd
<1>6. CASE c \in TableSet(p)
  <2>1. CASE c = Cmd("vlan_known", p)
    BY <2>1 DEF Cmd
  <2>2. CASE c = Cmd("table_add", TableOf[p]) /\ TableOf[p] > 0
    BY <2>2 DEF Cmd
  <2>3. ASSUME NEW e \in Elements(EdgesOf[p]), c = Cmd("if_table", <<e, TableOf[p]>>),
               TableOf[p] > 0
        PROVE  /\ c.op = "if_table" /\ c.on = <<e, TableOf[p]>> /\ c.on[1] = e
               /\ c.on[2] = TableOf[p] /\ c = Cmd(c.op, c.on)
    BY <2>3 DEF Cmd
  <2> QED BY <1>1, <1>6, <2>1, <2>2, <2>3 DEF TableSet
<1>7. CASE c \in RouteSet(p)
  BY <1>1, <1>7 DEF RouteSet, On, Cmd
<1>8. CASE c \in VerifySet(p)
  BY <1>1, <1>2, <1>8 DEF VerifySet, On, Cmd
<1> QED BY <1>3, <1>4, <1>5, <1>6, <1>7, <1>8 DEF InstallSet

LEMMA RemoveShape ==
  ASSUME NEW p \in Paths, NEW c \in RemoveSet(p)
  PROVE  /\ c = Cmd(c.op, c.on) /\ c.op \in {"route_del", "gre_delete"}
         /\ c.op = "route_del" => c.on \in Elements(RoutesOf[p]) /\ c.on \in Routes
         /\ c.op = "gre_delete" => c.on \in Elements(GresOf[p]) /\ c.on \in Gres
BY Constants DEF RemoveSet, On, Cmd

-----------------------------------------------------------------------------
(* The invariant.                                                          *)

Commands == UNION {InstallSet(p) \cup RemoveSet(p) : p \in Paths}

\* Types, and what VPP keeps of a tunnel or a subinterface: nothing, or at least that
\* it exists; its tables are those of the paths.
VppType ==
  /\ vpp \in [gre : [Gres -> SUBSET Works], sub : [Edges -> SUBSET {"exists", "up"}],
              tables : SUBSET Nat, if_table : [Edges -> Nat], fib : SUBSET Routes]
  /\ \A g \in Gres : vpp.gre[g] # {} => "exists" \in vpp.gre[g]
  /\ \A e \in Edges : vpp.sub[e] # {} => "exists" \in vpp.sub[e]
  /\ 0 \in vpp.tables
  /\ \A n \in vpp.tables : n = 0 \/ \E p \in Paths : n = TableOf[p]
  /\ \A r \in vpp.fib : \E p \in Paths : r \in Elements(RoutesOf[p])
CallType ==
  call \in [phase : {"idle", "commit", "confirm", "cleanup", "withdraw", "restore"},
            key : Keys \cup {Idle.key}, target : PathOrNone, previous : PathOrNone,
            attempt : Nat, todo : Seq(Commands), created : Seq(Gres),
            undoing : BOOLEAN, failed : BOOLEAN]

TypeInv ==
  /\ VppType /\ CallType
  /\ reports_refusals \in BOOLEAN
  /\ active \in [Keys -> PathOrNone] /\ applied \in [Keys -> PathOrNone]
  /\ \A key \in Keys : applied[key] \in Candidates[key] \cup {NoPath}
  /\ faults \in Nat /\ torn \subseteq Keys /\ littered \in BOOLEAN

\* The path the commands of the call are about.
Subject == IF call.phase \in {"cleanup", "restore"} THEN call.previous ELSE call.target

Installing == call.phase \in {"commit", "restore"}
Dismantling == call.phase \in {"withdraw", "cleanup"}

\* What a transition under way is about, and what the controller records meanwhile.
CallInv ==
  call.phase # "idle" =>
    /\ call.key \in Keys /\ call.target \in Candidates[call.key]
    /\ call.previous \in Candidates[call.key] \cup {NoPath}
    /\ call.target # call.previous
    /\ call.phase \in {"cleanup", "restore"} => call.previous # NoPath
    /\ call.phase = "commit" => applied[call.key] = call.previous
    /\ call.phase \in {"confirm", "cleanup"} => applied[call.key] = call.target
    /\ call.phase = "confirm" =>
         active[call.key] = call.target /\ call.todo = <<>> /\ ~ call.failed
    /\ call.phase = "withdraw" /\ call.previous = NoPath => applied[call.key] = NoPath
    /\ call.phase \in {"withdraw", "restore"} => call.key \in torn

\* The commands that are left: of the installation, of its undoing, or of the removal.
TodoInv ==
  /\ Installing =>
       /\ Elements(call.created) \subseteq Elements(GresOf[Subject])
       /\ ~ call.failed => Elements(call.todo) \subseteq InstallSet(Subject) /\ ~ call.undoing
       /\ call.failed => Elements(call.todo) \subseteq On("gre_delete", Elements(call.created))
       /\ call.failed /\ call.todo # <<>> => call.undoing
  /\ Dismantling =>
       /\ Elements(call.todo) \subseteq RemoveSet(Subject)
       /\ ~ call.undoing
       /\ call.failed => call.todo = <<>>

\* What a command of an installation is for.
Made(c) ==
  CASE c.op = "gre_create"  -> "exists" \in vpp.gre[c.on]
    [] c.op = "gre_address" -> "address" \in vpp.gre[c.on]
    [] c.op = "gre_up"      -> "up" \in vpp.gre[c.on]
    [] c.op = "sub_create"  -> "exists" \in vpp.sub[c.on]
    [] c.op = "sub_up"      -> "up" \in vpp.sub[c.on]
    [] c.op = "table_add"   -> c.on \in vpp.tables
    [] c.op = "if_table"    -> vpp.if_table[c.on[1]] = c.on[2]
    [] c.op = "route_add"   -> c.on \in vpp.fib
    [] c.op = "vlan_known"  -> HasVlan
    [] OTHER -> TRUE

MadeOf(p) == {c \in InstallSet(p) : Made(c)}
Installed(p) == InstallSet(p) \subseteq MadeOf(p)

\* An installation finds what it needs if the routes of the path are its own and no
\* other table is taken for its table.
Provided(p) == Own(p) /\ TableKnown(p)

\* Behind the commands that are left, everything of the path is made, and each of them
\* finds what it needs.
Progress(s, p) ==
  InstallSet(p) \subseteq MadeOf(p) \cup Elements(s) /\ Supplied(s, MadeOf(p), p)

InstallInv == Installing /\ ~ call.failed /\ Provided(Subject) => Progress(call.todo, Subject)

\* Behind the commands that are left, nothing of the path is there.
RemoveInv ==
  Dismantling /\ ~ call.failed =>
    /\ \A r \in Elements(RoutesOf[Subject]) :
         r \in vpp.fib => Cmd("route_del", r) \in Elements(call.todo)
    /\ \A g \in Elements(GresOf[Subject]) :
         vpp.gre[g] # {} => Cmd("gre_delete", g) \in Elements(call.todo)

\* No transition is changing the forwarding of the key.
Settled(key) == key # call.key \/ call.phase \in {"idle", "confirm", "cleanup"}

AppliedInv ==
  \A key \in Keys \ torn :
    applied[key] # NoPath /\ Apart(key) /\ TablesKnown(key) /\ Settled(key) =>
      Installed(applied[key])

\* The paths that may have something in VPP.
Involved ==
  ({applied[key] : key \in {key \in Keys : key # call.key \/ call.phase = "idle"}}
   \cup (IF call.phase \in {"commit", "confirm", "cleanup", "withdraw"} THEN {call.target} ELSE {})
   \cup (IF call.phase = "idle" THEN {} ELSE {call.previous})) \cap Paths

\* Every route and tunnel in VPP belongs to one of some paths.
LeftOf(paths) ==
  /\ \A r \in vpp.fib : \E p \in paths : r \in Elements(RoutesOf[p])
  /\ \A g \in Gres : vpp.gre[g] # {} => \E p \in paths : g \in Elements(GresOf[p])

LeftInv ==
  ~ littered =>
    /\ torn \subseteq (IF call.phase = "idle" THEN {} ELSE {call.key})
    /\ LeftOf(Involved)

Standing(p) ==
  /\ Elements(RoutesOf[p]) \subseteq vpp.fib
  /\ \A g \in Elements(GresOf[p]) : vpp.gre[g] # {}
Gone(p) ==
  /\ Elements(RoutesOf[p]) \cap vpp.fib = {}
  /\ \A g \in Elements(GresOf[p]) : vpp.gre[g] = {}

\* A command is listed once.
Once(o, s) == \A i, j \in DOMAIN s : s[i].op = o /\ s[i] = s[j] => i = j
-----------------------------------------------------------------------------
(* The steps.                                                              *)

\* A command that is run, rather than a condition or a verification.
Acting(c) == c.op \notin Checks \cup Verifications /\ ~ Superfluous(c)
Passes(c) ==
  \/ c.op = "vlan_allowed" /\ c.on \notin VlanRefused
  \/ c.op = "vlan_known" /\ HasVlan

\* A command after which the adapter goes on, and one after which it does not.
Done(c) ==
  /\ call' = Succeeded(c) /\ faults' = faults
  /\ \/ Acting(c) /\ Accepts(c) /\ vpp' = Effect(c)
     \/ Acting(c) /\ ~ Accepts(c) /\ ~ reports_refusals /\ vpp' = vpp
     \/ Superfluous(c) /\ vpp' = vpp
     \/ Passes(c) /\ vpp' = vpp
     \/ c.op \in Verifications /\ Verified(c) /\ vpp' = vpp
Broken(c) ==
  /\ call' = Failed(c)
  /\ vpp' = vpp \/ (Acting(c) /\ Accepts(c) /\ vpp' = Effect(c))
  /\ \/ faults' = faults + 1
     \/ /\ faults' = faults /\ vpp' = vpp
        /\ \/ Acting(c) /\ ~ Accepts(c) /\ reports_refusals
           \/ c.op \in Checks /\ ~ Passes(c)
           \/ c.op \in Verifications /\ (~ Verified(c) \/ Ambiguous(c))

CommandStep == Running /\ UNCHANGED Rest /\ (Done(Command) \/ Broken(Command))

LEMMA CommandSteps ==
  ASSUME \/ run_vpp_command \/ run_vpp_command_fails \/ skip_command \/ check
         \/ verify \/ verify_fails
  PROVE  CommandStep
<1> USE DEF CommandStep
<1>1. CASE run_vpp_command
  <2>1. Acting(Command)
    BY <1>1 DEF run_vpp_command, Acting
  <2> QED BY <1>1, <2>1 DEF run_vpp_command, Done, Broken
<1>2. CASE run_vpp_command_fails
  <2>1. Acting(Command)
    BY <1>2 DEF run_vpp_command_fails, Acting
  <2> QED BY <1>2, <2>1 DEF run_vpp_command_fails, Broken
<1>3. CASE skip_command
  BY <1>3 DEF skip_command, Done
<1>4. CASE check
  <2>1. CASE Passes(Command)
    BY <1>4, <2>1 DEF check, Done, Passes
  <2>2. CASE ~ Passes(Command)
    BY <1>4, <2>2 DEF check, Broken, Passes
  <2> QED BY <2>1, <2>2
<1>5. CASE verify
  BY <1>5 DEF verify, Done, Broken
<1>6. CASE verify_fails
  BY <1>6 DEF verify_fails, Broken
<1> QED BY <1>1, <1>2, <1>3, <1>4, <1>5, <1>6

\* What a command changes in VPP.
LEMMA EffectFields ==
  ASSUME TypeInv, NEW c, vpp' = Effect(c),
         c.op \in {"gre_create", "gre_address", "gre_up", "gre_delete", "sub_create", "sub_up",
                   "table_add", "if_table", "route_add", "route_del"}
  PROVE  /\ DOMAIN vpp' = {"gre", "sub", "tables", "if_table", "fib"}
         /\ c.op = "gre_create" => vpp'.gre = [vpp.gre EXCEPT ![c.on] = Exists]
         /\ c.op = "gre_address" => vpp'.gre = [vpp.gre EXCEPT ![c.on] = @ \cup {"address"}]
         /\ c.op = "gre_up" => vpp'.gre = [vpp.gre EXCEPT ![c.on] = @ \cup {"up"}]
         /\ c.op = "gre_delete" => vpp'.gre = [vpp.gre EXCEPT ![c.on] = {}]
         /\ c.op \notin {"gre_create", "gre_address", "gre_up", "gre_delete"} => vpp'.gre = vpp.gre
         /\ c.op = "sub_create" => vpp'.sub = [vpp.sub EXCEPT ![c.on] = Exists]
         /\ c.op = "sub_up" => vpp'.sub = [vpp.sub EXCEPT ![c.on] = @ \cup {"up"}]
         /\ c.op \notin {"sub_create", "sub_up"} => vpp'.sub = vpp.sub
         /\ c.op = "table_add" => vpp'.tables = vpp.tables \cup {c.on}
         /\ c.op # "table_add" => vpp'.tables = vpp.tables
         /\ c.op = "if_table" => vpp'.if_table = [vpp.if_table EXCEPT ![c.on[1]] = c.on[2]]
         /\ c.op # "if_table" => vpp'.if_table = vpp.if_table
         /\ c.op = "route_add" => vpp'.fib = vpp.fib \cup {c.on}
         /\ c.op = "route_del" => vpp'.fib = vpp.fib \ {c.on}
         /\ c.op \notin {"route_add", "route_del"} => vpp'.fib = vpp.fib
<1> DEFINE VPPs == [gre : [Gres -> SUBSET Works], sub : [Edges -> SUBSET {"exists", "up"}],
                    tables : SUBSET Nat, if_table : [Edges -> Nat], fib : SUBSET Routes]
<1>1. vpp \in VPPs
  BY DEF TypeInv, VppType, CallType
<1>2. DOMAIN vpp = {"gre", "sub", "tables", "if_table", "fib"}
  BY <1>1
<1>3. CASE c.op = "gre_create"
  BY <1>2, <1>3 DEF Effect
<1>4. CASE c.op = "gre_address"
  BY <1>2, <1>4 DEF Effect
<1>5. CASE c.op = "gre_up"
  BY <1>2, <1>5 DEF Effect
<1>6. CASE c.op = "gre_delete"
  BY <1>2, <1>6 DEF Effect
<1>7. CASE c.op = "sub_create"
  BY <1>2, <1>7 DEF Effect
<1>8. CASE c.op = "sub_up"
  BY <1>2, <1>8 DEF Effect
<1>9. CASE c.op = "table_add"
  BY <1>2, <1>9 DEF Effect
<1>10. CASE c.op = "if_table"
  BY <1>2, <1>10 DEF Effect
<1>11. CASE c.op = "route_add"
  BY <1>2, <1>11 DEF Effect
<1>12. CASE c.op = "route_del"
  BY <1>2, <1>12 DEF Effect
<1> QED
  BY <1>3, <1>4, <1>5, <1>6, <1>7, <1>8, <1>9, <1>10, <1>11, <1>12

\* The call as a command leaves it.
LEMMA CommandCalls ==
  ASSUME TypeInv, NEW c
  PROVE  /\ call' = Succeeded(c) =>
              /\ call'.phase = call.phase /\ call'.key = call.key /\ call'.target = call.target
              /\ call'.previous = call.previous /\ call'.attempt = call.attempt
              /\ call'.todo = Tail(call.todo)
              /\ call'.created = IF c.op = "gre_create" THEN Append(call.created, c.on)
                                 ELSE call.created
              /\ call'.undoing = call.undoing /\ call'.failed = call.failed
              /\ call' = [call EXCEPT !.todo = call'.todo, !.created = call'.created]
         /\ call' = Failed(c) =>
              /\ call'.phase = call.phase /\ call'.key = call.key /\ call'.target = call.target
              /\ call'.previous = call.previous /\ call'.attempt = call.attempt
              /\ call'.created = call.created
              /\ call.undoing =>
                   /\ call'.todo = Tail(call.todo) /\ call'.failed = call.failed
                   /\ call'.undoing = TRUE
              /\ ~ call.undoing /\ c.op \in {"gre_create", "gre_address", "gre_up"} =>
                   /\ call'.todo = Each(<<"gre_delete">>, Reversed(call.created))
                   /\ call'.failed = TRUE /\ call'.undoing = TRUE
              /\ ~ call.undoing /\ c.op \notin {"gre_create", "gre_address", "gre_up"} =>
                   call'.todo = <<>> /\ call'.failed = TRUE /\ call'.undoing = FALSE
              /\ call' = [call EXCEPT !.todo = call'.todo, !.undoing = call'.undoing,
                                      !.failed = call'.failed]
<1>1. call \in [phase : {"idle", "commit", "confirm", "cleanup", "withdraw", "restore"},
                key : Keys \cup {Idle.key}, target : PathOrNone, previous : PathOrNone,
                attempt : Nat, todo : Seq(Commands), created : Seq(Gres),
                undoing : BOOLEAN, failed : BOOLEAN]
  BY DEF TypeInv, VppType, CallType
<1>2. ASSUME call' = Succeeded(c)
      PROVE  /\ call'.phase = call.phase /\ call'.key = call.key /\ call'.target = call.target
             /\ call'.previous = call.previous /\ call'.attempt = call.attempt
             /\ call'.todo = Tail(call.todo)
             /\ call'.created = IF c.op = "gre_create" THEN Append(call.created, c.on)
                                ELSE call.created
             /\ call'.undoing = call.undoing /\ call'.failed = call.failed
             /\ call' = [call EXCEPT !.todo = call'.todo, !.created = call'.created]
  BY <1>1, <1>2 DEF Succeeded
<1>3. ASSUME call' = Failed(c)
      PROVE  /\ call'.phase = call.phase /\ call'.key = call.key /\ call'.target = call.target
             /\ call'.previous = call.previous /\ call'.attempt = call.attempt
             /\ call'.created = call.created
             /\ call.undoing =>
                  /\ call'.todo = Tail(call.todo) /\ call'.failed = call.failed
                  /\ call'.undoing = TRUE
             /\ ~ call.undoing /\ c.op \in {"gre_create", "gre_address", "gre_up"} =>
                  /\ call'.todo = Each(<<"gre_delete">>, Reversed(call.created))
                  /\ call'.failed = TRUE /\ call'.undoing = TRUE
             /\ ~ call.undoing /\ c.op \notin {"gre_create", "gre_address", "gre_up"} =>
                  call'.todo = <<>> /\ call'.failed = TRUE /\ call'.undoing = FALSE
             /\ call' = [call EXCEPT !.todo = call'.todo, !.undoing = call'.undoing,
                                     !.failed = call'.failed]
  <2>1. CASE call.undoing
    <3>1. call' = [call EXCEPT !.todo = Tail(@)]
      BY <1>3, <2>1 DEF Failed
    <3>2. call.undoing = TRUE
      BY <1>1, <2>1
    <3> QED BY <1>1, <3>1, <3>2
  <2>2. CASE ~ call.undoing /\ c.op \in {"gre_create", "gre_address", "gre_up"}
    <3>1. call' = [call EXCEPT !.todo = Each(<<"gre_delete">>, Reversed(call.created)),
                               !.undoing = TRUE, !.failed = TRUE]
      BY <1>3, <2>2 DEF Failed, Undo
    <3> QED BY <1>1, <2>2, <3>1
  <2>3. CASE ~ call.undoing /\ c.op \notin {"gre_create", "gre_address", "gre_up"}
    <3>1. call' = [call EXCEPT !.todo = <<>>, !.failed = TRUE] /\ call.undoing = FALSE
      BY <1>1, <1>3, <2>3 DEF Failed
    <3> QED BY <1>1, <2>3, <3>1
  <2> QED BY <2>1, <2>2, <2>3
<1> QED BY <1>2, <1>3

\* The call of a list of commands.
Begins(phase, s) ==
  /\ call'.phase = phase /\ call'.todo = s /\ call'.undoing = FALSE /\ call'.failed = FALSE
  /\ call' \in [phase : {phase}, key : {call'.key}, target : {call'.target},
                previous : {call'.previous}, attempt : Nat, todo : {s},
                created : {call'.created}, undoing : {FALSE}, failed : {FALSE}]
Same ==
  call'.key = call.key /\ call'.target = call.target /\ call'.previous = call.previous

LEMMA CallBegins ==
  ASSUME TypeInv, NEW phase, NEW p
  PROVE  /\ \A n \in Nat : call' = [Install(phase, p) EXCEPT !.attempt = n] =>
              Same /\ Begins(phase, InstallCommands(p)) /\ call'.created = <<>>
         /\ call' = Install(phase, p) =>
              Same /\ Begins(phase, InstallCommands(p)) /\ call'.created = <<>>
         /\ call' = Remove(phase, p) =>
              Same /\ Begins(phase, RemoveCommands(p)) /\ call'.created = call.created
         /\ call' = [call EXCEPT !.phase = phase] =>
              /\ Same /\ call'.phase = phase /\ call'.todo = call.todo
              /\ call'.created = call.created /\ call'.attempt = call.attempt
              /\ call'.undoing = call.undoing /\ call'.failed = call.failed
<1>1. call \in [phase : {"idle", "commit", "confirm", "cleanup", "withdraw", "restore"},
                key : Keys \cup {Idle.key}, target : PathOrNone, previous : PathOrNone,
                attempt : Nat, todo : Seq(Commands), created : Seq(Gres),
                undoing : BOOLEAN, failed : BOOLEAN]
  BY DEF TypeInv, VppType, CallType
<1> DEFINE s == InstallCommands(p)
           t == RemoveCommands(p)
<1> HIDE DEF s, t
<1>2. ASSUME NEW n \in Nat, call' = [Install(phase, p) EXCEPT !.attempt = n]
      PROVE  Same /\ Begins(phase, s) /\ call'.created = <<>>
  <2>1. call' = [call EXCEPT !.phase = phase, !.todo = s, !.created = <<>>,
                             !.undoing = FALSE, !.failed = FALSE, !.attempt = n]
    BY <1>1, <1>2 DEF Install, s
  <2> QED BY <1>1, <2>1 DEF Same, Begins
<1>3. ASSUME call' = Install(phase, p)
      PROVE  Same /\ Begins(phase, s) /\ call'.created = <<>>
  <2>1. call' = [call EXCEPT !.phase = phase, !.todo = s, !.created = <<>>,
                             !.undoing = FALSE, !.failed = FALSE]
    BY <1>3 DEF Install, s
  <2> QED BY <1>1, <2>1 DEF Same, Begins
<1>4. ASSUME call' = Remove(phase, p)
      PROVE  Same /\ Begins(phase, t) /\ call'.created = call.created
  <2>1. call' = [call EXCEPT !.phase = phase, !.todo = t, !.undoing = FALSE, !.failed = FALSE]
    BY <1>4 DEF Remove, t
  <2> QED BY <1>1, <2>1 DEF Same, Begins
<1>5. ASSUME call' = [call EXCEPT !.phase = phase]
      PROVE  /\ Same /\ call'.phase = phase /\ call'.todo = call.todo
             /\ call'.created = call.created /\ call'.attempt = call.attempt
             /\ call'.undoing = call.undoing /\ call'.failed = call.failed
  BY <1>1, <1>5 DEF Same
<1> QED BY <1>2, <1>3, <1>4, <1>5 DEF s, t

\* The calls of a transition, field by field.
SwitchTo(key, p) ==
  /\ call.phase = "idle" /\ key \in Keys /\ p \in Candidates[key] \ {applied[key]}
  /\ call'.key = key /\ call'.target = p /\ call'.previous = applied[key]
  /\ call'.created = <<>>
  /\ \/ Begins("commit", InstallCommands(p)) /\ faults' = faults /\ torn' = torn
     \/ Begins("withdraw", RemoveCommands(p)) /\ faults' = faults + 1 /\ torn' = torn \cup {key}
  /\ UNCHANGED <<vpp, reports_refusals, active, applied, littered>>

ToWithdraw ==
  /\ Same /\ Begins("withdraw", RemoveCommands(call.target)) /\ call'.created = call.created
  /\ torn' = torn \cup {call.key} /\ littered' = littered

LEMMA SwitchFacts ==
  ASSUME TypeInv, switch
  PROVE  \E key \in Keys : \E p \in Candidates[key] : SwitchTo(key, p)
<1> DEFINE Begun(key, p) ==
             LET begun == [Idle EXCEPT !.key = key, !.target = p, !.previous = applied[key]]
             IN \/ /\ call' = [begun EXCEPT !.phase = "commit", !.todo = InstallCommands(p)]
                   /\ UNCHANGED <<faults, torn>>
                \/ /\ OtherCallFails
                   /\ call' = [begun EXCEPT !.phase = "withdraw", !.todo = RemoveCommands(p)]
                   /\ torn' = torn \cup {key}
<1>0. PICK key \in Keys : \E p \in Candidates[key] \ {applied[key]} : Begun(key, p)
  BY DEF switch
<1>1. PICK p \in Candidates[key] \ {applied[key]} : Begun(key, p)
  BY <1>0
<1> DEFINE before == applied[key]
           s == InstallCommands(p)
           t == RemoveCommands(p)
<1> HIDE DEF before, s, t
<1>2. \/ /\ call' = [phase |-> "commit", key |-> key, target |-> p, previous |-> before,
                     attempt |-> 0, todo |-> s, created |-> <<>>, undoing |-> FALSE,
                     failed |-> FALSE]
         /\ UNCHANGED <<faults, torn>>
      \/ /\ OtherCallFails
         /\ call' = [phase |-> "withdraw", key |-> key, target |-> p, previous |-> before,
                     attempt |-> 0, todo |-> t, created |-> <<>>, undoing |-> FALSE,
                     failed |-> FALSE]
         /\ torn' = torn \cup {key}
  BY <1>1 DEF Idle, before, s, t
<1>3. SwitchTo(key, p)
  <2>1. CASE /\ call' = [phase |-> "commit", key |-> key, target |-> p, previous |-> before,
                         attempt |-> 0, todo |-> s, created |-> <<>>, undoing |-> FALSE,
                         failed |-> FALSE]
             /\ UNCHANGED <<faults, torn>>
    <3>1. /\ Begins("commit", s) /\ call'.key = key /\ call'.target = p
          /\ call'.previous = before /\ call'.created = <<>>
      BY <2>1 DEF Begins
    <3> QED BY <2>1, <3>1 DEF switch, SwitchTo, before, s
  <2>2. CASE /\ OtherCallFails
             /\ call' = [phase |-> "withdraw", key |-> key, target |-> p, previous |-> before,
                         attempt |-> 0, todo |-> t, created |-> <<>>, undoing |-> FALSE,
                         failed |-> FALSE]
             /\ torn' = torn \cup {key}
    <3>1. /\ Begins("withdraw", t) /\ call'.key = key /\ call'.target = p
          /\ call'.previous = before /\ call'.created = <<>>
      BY <2>2 DEF Begins
    <3> QED BY <2>2, <3>1 DEF switch, SwitchTo, before, t, OtherCallFails
  <2> QED BY <1>2, <2>1, <2>2
<1> QED BY <1>3

LEMMA WithdrawFacts ==
  ASSUME TypeInv, Withdraw, littered' = littered
  PROVE  ToWithdraw
<1>1. call' = Remove("withdraw", call.target) /\ torn' = torn \cup {call.key}
  BY DEF Withdraw, k
<1> QED BY <1>1, CallBegins DEF ToWithdraw

LEMMA CommitFacts ==
  ASSUME TypeInv, commit
  PROVE  /\ call.phase = "commit" /\ call.todo = <<>> /\ ~ call.failed
         /\ Same /\ call'.phase = "confirm" /\ call'.todo = <<>> /\ call'.created = call.created
         /\ call'.attempt = call.attempt /\ ~ call'.failed
         /\ call' = [call EXCEPT !.phase = "confirm"]
         /\ active' = [active EXCEPT ![call.key] = call.target]
         /\ applied' = [applied EXCEPT ![call.key] = call.target]
         /\ torn' = torn \ {call.key}
         /\ UNCHANGED <<vpp, reports_refusals, faults, littered>>
<1>1. call' = [call EXCEPT !.phase = "confirm"]
  BY DEF commit
<1>2. /\ Same /\ call'.phase = "confirm" /\ call'.todo = call.todo /\ call'.created = call.created
      /\ call'.attempt = call.attempt /\ call'.undoing = call.undoing /\ call'.failed = call.failed
  BY <1>1, CallBegins
<1>3. call.phase = "commit" /\ call.todo = <<>> /\ ~ call.failed
  BY DEF commit, Returned
<1> QED BY <1>1, <1>2, <1>3 DEF commit, Remember, k

LEMMA CommitFailsFacts ==
  ASSUME TypeInv, commit_fails
  PROVE  /\ call.phase = "commit" /\ call.todo = <<>> /\ call.failed
         /\ \/ Same /\ Begins("commit", InstallCommands(call.target)) /\ call'.created = <<>>
               /\ torn' = torn
            \/ ToWithdraw
         /\ UNCHANGED <<vpp, reports_refusals, active, applied, faults, littered>>
<1>1. /\ call.phase = "commit" /\ call.todo = <<>> /\ call.failed
      /\ UNCHANGED <<vpp, reports_refusals, active, applied, faults, littered>>
  BY DEF commit_fails, Returned
<1>2. CASE MayRetry
  <2>1. call' = [Install("commit", call.target) EXCEPT !.attempt = @ + 1] /\ torn' = torn
    BY <1>2 DEF commit_fails
  <2>2. call.attempt + 1 \in Nat
    BY DEF TypeInv, VppType, CallType
  <2>3. call' = [Install("commit", call.target) EXCEPT !.attempt = call.attempt + 1]
    <3>1. Install("commit", call.target).attempt = call.attempt
      BY DEF Install, TypeInv, CallType
    <3> QED BY <2>1, <3>1
  <2> DEFINE p == call.target
             n == call.attempt + 1
  <2> HIDE DEF p, n
  <2>4. n \in Nat /\ call' = [Install("commit", p) EXCEPT !.attempt = n]
    BY <2>2, <2>3 DEF p, n
  <2>5. Same /\ Begins("commit", InstallCommands(p)) /\ call'.created = <<>>
    BY <2>4, CallBegins
  <2> QED BY <1>1, <2>1, <2>5 DEF p
<1>3. CASE ~ MayRetry
  <2>1. Withdraw /\ littered' = littered
    BY <1>1, <1>3 DEF commit_fails
  <2>2. ToWithdraw
    BY <2>1, WithdrawFacts
  <2> QED BY <1>1, <2>2
<1> QED BY <1>2, <1>3

\* The end of a transition.
Over == /\ call' = Idle /\ call'.phase = "idle" /\ call'.todo = <<>> /\ call'.failed = FALSE
        /\ littered' = (littered \/ torn' # {})

LEMMA EndsFacts ==
  ASSUME Ends
  PROVE  Over
BY DEF Ends, Over, Idle

LEMMA ConfirmFacts ==
  ASSUME TypeInv, CallInv, confirm
  PROVE  /\ call.phase = "confirm"
         /\ \/ /\ call.previous # NoPath /\ Same
               /\ Begins("cleanup", RemoveCommands(call.previous)) /\ call'.created = call.created
               /\ UNCHANGED <<torn, littered>>
            \/ call.previous = NoPath /\ torn' = torn /\ Over
         /\ UNCHANGED <<vpp, reports_refusals, active, applied, faults>>
<1>1. call.phase = "confirm" /\ active[call.key] = call.target
  BY DEF confirm, CallInv
<1>2. \/ /\ call.previous # NoPath
         /\ call' = Remove("cleanup", call.previous)
         /\ UNCHANGED <<torn, littered>>
      \/ call.previous = NoPath /\ torn' = torn /\ Ends
  BY <1>1 DEF confirm, k
<1> QED BY <1>1, <1>2, EndsFacts, CallBegins DEF confirm

LEMMA CleanupFacts ==
  ASSUME TypeInv, cleanup
  PROVE  /\ call.phase = "cleanup" /\ call.todo = <<>>
         /\ \/ /\ ~ call.failed
               /\ active' = [active EXCEPT ![call.key] = IF @ = call.previous THEN NoPath ELSE @]
               /\ \/ UNCHANGED <<torn, faults>> /\ Over
                  \/ faults' = faults + 1 /\ ToWithdraw
            \/ call.failed /\ ToWithdraw /\ UNCHANGED <<active, faults>>
         /\ UNCHANGED <<vpp, reports_refusals, applied>>
<1>1. call.phase = "cleanup" /\ call.todo = <<>> /\ UNCHANGED <<vpp, reports_refusals, applied>>
  BY DEF cleanup, Returned
<1>2. CASE ~ call.failed /\ Forget(call.previous) /\ UNCHANGED <<torn, faults>> /\ Ends
  BY <1>1, <1>2, EndsFacts DEF Forget, k
<1>3. CASE ~ call.failed /\ Forget(call.previous) /\ OtherCallFails /\ Withdraw /\ littered' = littered
  BY <1>1, <1>3, WithdrawFacts DEF Forget, k, OtherCallFails
<1>4. CASE call.failed /\ Withdraw /\ UNCHANGED <<active, faults, littered>>
  BY <1>1, <1>4, WithdrawFacts
<1> QED BY <1>2, <1>3, <1>4 DEF cleanup

LEMMA RollbackFacts ==
  ASSUME TypeInv, rollback
  PROVE  /\ call.phase = "withdraw" /\ call.todo = <<>> /\ ~ call.failed
         /\ active' = [active EXCEPT ![call.key] = IF @ = call.target THEN NoPath ELSE @]
         /\ \/ call.previous = NoPath /\ Over
            \/ /\ call.previous # NoPath /\ Same
               /\ Begins("restore", InstallCommands(call.previous)) /\ call'.created = <<>>
               /\ littered' = littered
         /\ UNCHANGED <<vpp, reports_refusals, applied, torn, faults>>
<1>1. /\ call.phase = "withdraw" /\ call.todo = <<>> /\ ~ call.failed
      /\ UNCHANGED <<vpp, reports_refusals, applied, torn, faults>>
      /\ active' = [active EXCEPT ![call.key] = IF @ = call.target THEN NoPath ELSE @]
  BY DEF rollback, Returned, Restore, Forget, k
<1>2. CASE call.previous = NoPath
  BY <1>1, <1>2, EndsFacts DEF rollback, Restore
<1>3. CASE call.previous # NoPath
  <2>1. call' = Install("restore", call.previous) /\ littered' = littered
    BY <1>3 DEF rollback, Restore
  <2> QED BY <1>1, <1>3, <2>1, CallBegins
<1> QED BY <1>2, <1>3

LEMMA RollbackFailsFacts ==
  ASSUME TypeInv, rollback_fails
  PROVE  /\ call.phase \in {"withdraw", "restore"}
         /\ \/ call.failed /\ faults' = faults
            \/ faults' = faults + 1
         /\ Over /\ UNCHANGED <<vpp, reports_refusals, active, applied, torn>>
BY EndsFacts DEF rollback_fails, OtherCallFails

LEMMA RollbackCompletesFacts ==
  ASSUME TypeInv, rollback_completes
  PROVE  /\ call.phase = "restore" /\ call.todo = <<>> /\ ~ call.failed
         /\ active' = [active EXCEPT ![call.key] = call.previous]
         /\ applied' = [applied EXCEPT ![call.key] = call.previous]
         /\ torn' = torn \ {call.key}
         /\ Over /\ UNCHANGED <<vpp, reports_refusals, faults>>
BY EndsFacts DEF rollback_completes, Returned, Remember, k

LEMMA CommandShape ==
  ASSUME NEW c \in Commands
  PROVE  /\ c = Cmd(c.op, c.on)
         /\ c.op \in {"gre_create", "gre_address", "gre_up", "vlan_allowed", "sub_create",
                      "sub_up", "acl_set", "table_add", "vlan_known", "if_table", "route_add",
                      "verify_route", "verify_gre", "verify_sub", "route_del", "gre_delete"}
         /\ c.op \in {"gre_create", "gre_address", "gre_up", "verify_gre", "gre_delete"} =>
              c.on \in Gres
         /\ c.op \in {"vlan_allowed", "sub_create", "sub_up", "acl_set", "verify_sub"} =>
              c.on \in Edges
         /\ c.op = "table_add" => c.on \in Nat /\ \E p \in Paths : c.on = TableOf[p]
         /\ c.op = "if_table" => c.on[1] \in Edges /\ c.on[2] \in Nat
         /\ c.op \in {"route_add", "verify_route", "route_del"} =>
              c.on \in Routes /\ \E p \in Paths : c.on \in Elements(RoutesOf[p])
<1>1. PICK p \in Paths : c \in InstallSet(p) \/ c \in RemoveSet(p)
  BY DEF Commands
<1>2. TableOf[p] \in Nat
  BY Constants
<1>3. CASE c \in InstallSet(p)
  BY <1>2, <1>3, InstallShape
<1>4. CASE c \in RemoveSet(p)
  BY <1>4, RemoveShape
<1> QED BY <1>1, <1>3, <1>4

LEMMA CommandLeft ==
  ASSUME TypeInv, Running
  PROVE  /\ call.todo \in Seq(Commands) /\ call.todo # <<>> /\ Command \in Commands
         /\ Command \in Elements(call.todo) /\ Tail(call.todo) \in Seq(Commands)
         /\ Elements(call.todo) = {Command} \cup Elements(Tail(call.todo))
<1>1. call.todo \in Seq(Commands) /\ call.todo # <<>>
  BY DEF TypeInv, CallType, Running
<1>2. Command = Head(call.todo)
  BY DEF Command
<1> QED BY <1>1, <1>2, TailElements

LEMMA ActingOps ==
  ASSUME NEW c \in Commands, Acting(c)
  PROVE  c.op \in {"gre_create", "gre_address", "gre_up", "gre_delete", "sub_create", "sub_up",
                   "table_add", "if_table", "route_add", "route_del"}
BY CommandShape DEF Acting, Checks, Verifications

LEMMA VppTyped ==
  ASSUME TypeInv, NEW c \in Commands, Acting(c), Accepts(c), vpp' = Effect(c)
  PROVE  VppType'
<1>1. c.op \in {"gre_create", "gre_address", "gre_up", "gre_delete", "sub_create", "sub_up",
                "table_add", "if_table", "route_add", "route_del"}
  BY ActingOps
<1>2. VppType
  BY DEF TypeInv
<1>3. /\ vpp.gre \in [Gres -> SUBSET Works] /\ vpp.sub \in [Edges -> SUBSET {"exists", "up"}]
      /\ vpp.tables \in SUBSET Nat /\ vpp.if_table \in [Edges -> Nat]
      /\ vpp.fib \in SUBSET Routes
  BY <1>2 DEF VppType
<1>4. /\ c.op \in {"gre_address", "gre_up"} => "exists" \in vpp.gre[c.on]
      /\ c.op = "sub_up" => "exists" \in vpp.sub[c.on]
  BY DEF Accepts, Present
<1> DEFINE gre == vpp'.gre
           sub == vpp'.sub
           tables == vpp'.tables
           if_table == vpp'.if_table
           fib == vpp'.fib
<1>a. /\ c.op = "gre_create" => gre = [vpp.gre EXCEPT ![c.on] = Exists]
      /\ c.op = "gre_address" => gre = [vpp.gre EXCEPT ![c.on] = @ \cup {"address"}]
      /\ c.op = "gre_up" => gre = [vpp.gre EXCEPT ![c.on] = @ \cup {"up"}]
      /\ c.op = "gre_delete" => gre = [vpp.gre EXCEPT ![c.on] = {}]
      /\ c.op \notin {"gre_create", "gre_address", "gre_up", "gre_delete"} => gre = vpp.gre
      /\ c.op = "sub_create" => sub = [vpp.sub EXCEPT ![c.on] = Exists]
      /\ c.op = "sub_up" => sub = [vpp.sub EXCEPT ![c.on] = @ \cup {"up"}]
      /\ c.op \notin {"sub_create", "sub_up"} => sub = vpp.sub
  BY <1>1, EffectFields
<1>b. /\ c.op = "table_add" => tables = vpp.tables \cup {c.on}
      /\ c.op # "table_add" => tables = vpp.tables
      /\ c.op = "if_table" => if_table = [vpp.if_table EXCEPT ![c.on[1]] = c.on[2]]
      /\ c.op # "if_table" => if_table = vpp.if_table
      /\ c.op = "route_add" => fib = vpp.fib \cup {c.on}
      /\ c.op = "route_del" => fib = vpp.fib \ {c.on}
      /\ c.op \notin {"route_add", "route_del"} => fib = vpp.fib
      /\ DOMAIN vpp' = {"gre", "sub", "tables", "if_table", "fib"}
  BY <1>1, EffectFields
<1>c. /\ c.op \in {"gre_create", "gre_address", "gre_up", "gre_delete"} => c.on \in Gres
      /\ c.op \in {"sub_create", "sub_up"} => c.on \in Edges
      /\ c.op = "table_add" => c.on \in Nat /\ \E p \in Paths : c.on = TableOf[p]
      /\ c.op = "if_table" => c.on[1] \in Edges /\ c.on[2] \in Nat
      /\ c.op \in {"route_add", "route_del"} =>
           c.on \in Routes /\ \E p \in Paths : c.on \in Elements(RoutesOf[p])
  BY CommandShape
<1> HIDE DEF gre, sub, tables, if_table, fib
<1>5. gre \in [Gres -> SUBSET Works] /\ \A g \in Gres : gre[g] # {} => "exists" \in gre[g]
  BY <1>2, <1>3, <1>4, <1>a, <1>c DEF VppType, Exists, Works
<1>6. sub \in [Edges -> SUBSET {"exists", "up"}]
      /\ \A e \in Edges : sub[e] # {} => "exists" \in sub[e]
  BY <1>2, <1>3, <1>4, <1>a, <1>c DEF VppType, Exists
<1>7. /\ tables \in SUBSET Nat /\ 0 \in tables
      /\ \A n \in tables : n = 0 \/ \E p \in Paths : n = TableOf[p]
  BY <1>2, <1>3, <1>b, <1>c DEF VppType
<1>8. if_table \in [Edges -> Nat]
  BY <1>2, <1>3, <1>b, <1>c
<1>9. fib \in SUBSET Routes /\ \A r \in fib : \E p \in Paths : r \in Elements(RoutesOf[p])
  BY <1>2, <1>3, <1>b, <1>c DEF VppType
<1>10. vpp' = [gre |-> gre, sub |-> sub, tables |-> tables, if_table |-> if_table, fib |-> fib]
  <2>1. CASE c.op \in {"gre_create", "gre_address", "gre_up", "gre_delete"}
    BY <1>2, <2>1 DEF VppType, Effect, gre, sub, tables, if_table, fib
  <2>2. CASE c.op \in {"sub_create", "sub_up"}
    BY <1>2, <2>2 DEF VppType, Effect, gre, sub, tables, if_table, fib
  <2>3. CASE c.op = "table_add"
    BY <1>2, <2>3 DEF VppType, Effect, gre, sub, tables, if_table, fib
  <2>4. CASE c.op = "if_table"
    BY <1>2, <2>4 DEF VppType, Effect, gre, sub, tables, if_table, fib
  <2>5. CASE c.op \in {"route_add", "route_del"}
    BY <1>2, <2>5 DEF VppType, Effect, gre, sub, tables, if_table, fib
  <2> QED BY <1>1, <2>1, <2>2, <2>3, <2>4, <2>5
<1>11. vpp' \in [gre : [Gres -> SUBSET Works], sub : [Edges -> SUBSET {"exists", "up"}],
                 tables : SUBSET Nat, if_table : [Edges -> Nat], fib : SUBSET Routes]
  BY <1>5, <1>6, <1>7, <1>8, <1>9, <1>10
<1> QED BY <1>5, <1>6, <1>7, <1>9, <1>11 DEF VppType, gre, sub, tables, if_table, fib

LEMMA AppendElements ==
  ASSUME NEW S, NEW s \in Seq(S), NEW x \in S
  PROVE  Append(s, x) \in Seq(S) /\ Elements(Append(s, x)) = Elements(s) \cup {x}
<1>1. /\ Len(s) \in Nat /\ DOMAIN s = 1 .. Len(s) /\ DOMAIN Append(s, x) = 1 .. Len(s) + 1
      /\ Append(s, x)[Len(s) + 1] = x
      /\ \A i \in 1 .. Len(s) : Append(s, x)[i] = s[i]
      /\ Append(s, x) \in Seq(S)
  BY AppendProperties
<1>2. 1 .. Len(s) + 1 = (1 .. Len(s)) \cup {Len(s) + 1}
  BY <1>1
<1> QED BY <1>1, <1>2 DEF Elements

BaseInv == TypeInv /\ CallInv /\ TodoInv

LEMMA SubjectPath ==
  ASSUME TypeInv, CallInv, call.phase # "idle"
  PROVE  /\ Subject \in Paths /\ call.target \in Paths /\ call.previous \in PathOrNone
         /\ call.key \in Keys /\ Subject \in Candidates[call.key]
         /\ InstallSet(Subject) \cup RemoveSet(Subject) \subseteq Commands
<1>1. call.key \in Keys /\ call.target \in Candidates[call.key]
      /\ call.previous \in Candidates[call.key] \cup {NoPath}
      /\ (call.phase \in {"cleanup", "restore"} => call.previous # NoPath)
  BY DEF CallInv
<1>2. Candidates[call.key] \subseteq Paths
  BY <1>1, VppAssumption
<1>3. Subject \in Paths /\ Subject \in Candidates[call.key]
  BY <1>1, <1>2 DEF Subject
<1> QED BY <1>1, <1>2, <1>3 DEF Commands, PathOrNone

\* What a command does not change of the call.
LEMMA CommandSame ==
  ASSUME TypeInv, CommandStep
  PROVE  /\ Same /\ call'.phase = call.phase /\ call'.attempt = call.attempt
         /\ Subject' = Subject /\ Installing' = Installing /\ Dismantling' = Dismantling
         /\ UNCHANGED <<reports_refusals, active, applied, torn, littered>>
<1>1. /\ Same /\ call'.phase = call.phase /\ call'.attempt = call.attempt
      /\ UNCHANGED <<reports_refusals, active, applied, torn, littered>>
  BY CommandCalls DEF CommandStep, Done, Broken, Same, Rest
<1> QED BY <1>1 DEF Same, Subject, Installing, Dismantling

LEMMA TodoCommand ==
  ASSUME BaseInv, CommandStep
  PROVE  TodoInv' /\ call'.todo \in Seq(Commands) /\ call'.created \in Seq(Gres)
         /\ call'.undoing \in BOOLEAN /\ call'.failed \in BOOLEAN
<1> DEFINE c == Command
           left == Elements(call.todo)
           rest == Elements(Tail(call.todo))
<1>1. TypeInv /\ CallInv /\ TodoInv /\ Running
  BY DEF BaseInv, CommandStep
<1>2. /\ c \in Commands /\ c \in left /\ Tail(call.todo) \in Seq(Commands)
      /\ rest \subseteq left /\ call.todo # <<>>
  BY <1>1, CommandLeft
<1>3. call.phase # "idle" /\ Subject \in Paths
      /\ InstallSet(Subject) \cup RemoveSet(Subject) \subseteq Commands
  BY <1>1, SubjectPath DEF Running
<1>4. Installing \/ Dismantling
  BY <1>1, <1>2 DEF Installing, Dismantling, CallInv, TypeInv, CallType, Running
<1>5. /\ Subject' = Subject /\ Installing' = Installing /\ Dismantling' = Dismantling
  BY <1>1, CommandSame
<1>6. call.created \in Seq(Gres) /\ call.undoing \in BOOLEAN /\ call.failed \in BOOLEAN
  BY <1>1 DEF TypeInv, CallType
<1> HIDE DEF c, left, rest
<1>7. CASE Installing
  <2>1. ~ Dismantling
    BY <1>7 DEF Installing, Dismantling
  <2>2. Elements(call.created) \subseteq Elements(GresOf[Subject])
    BY <1>1, <1>7 DEF TodoInv
  <2>3. CASE call' = Succeeded(c)
    <3>1. /\ call'.todo = Tail(call.todo)
          /\ call'.created = IF c.op = "gre_create" THEN Append(call.created, c.on)
                             ELSE call.created
          /\ call'.undoing = call.undoing /\ call'.failed = call.failed
      BY <1>1, <2>3, CommandCalls
    <3>2. CASE ~ call.failed
      <4>1. left \subseteq InstallSet(Subject) /\ ~ call.undoing
        BY <1>1, <1>7, <3>2 DEF TodoInv, left
      <4>2. c.op = "gre_create" => c.on \in Elements(GresOf[Subject]) /\ c.on \in Gres
        BY <1>2, <1>3, <4>1, InstallShape
      <4>3. /\ call'.created \in Seq(Gres)
            /\ Elements(call'.created) \subseteq Elements(GresOf[Subject])
        BY <1>6, <2>2, <3>1, <4>2, AppendElements
      <4> QED BY <1>2, <1>5, <1>6, <2>1, <3>1, <3>2, <4>1, <4>3 DEF TodoInv, rest
    <3>3. CASE call.failed
      <4>1. left \subseteq On("gre_delete", Elements(call.created)) /\ call.undoing
        BY <1>1, <1>2, <1>7, <3>3 DEF TodoInv, left
      <4>2. call'.created = call.created
        BY <1>2, <3>1, <4>1 DEF On, Cmd
      <4> QED BY <1>2, <1>5, <1>6, <2>1, <2>2, <3>1, <3>3, <4>1, <4>2 DEF TodoInv, rest
    <3> QED BY <3>2, <3>3
  <2>4. CASE call' = Failed(c)
    <3>1. call'.created = call.created
      BY <1>1, <2>4, CommandCalls
    <3>2. CASE call.undoing
      <4>1. /\ call'.todo = Tail(call.todo) /\ call'.failed = call.failed /\ call'.undoing = TRUE
        BY <1>1, <2>4, <3>2, CommandCalls
      <4>2. call.failed /\ left \subseteq On("gre_delete", Elements(call.created))
        BY <1>1, <1>7, <3>2 DEF TodoInv, left
      <4> QED BY <1>2, <1>5, <1>6, <2>1, <2>2, <3>1, <4>1, <4>2 DEF TodoInv, rest
    <3>3. CASE ~ call.undoing /\ c.op \in {"gre_create", "gre_address", "gre_up"}
      <4>1. /\ call'.todo = Each(<<"gre_delete">>, Reversed(call.created))
            /\ call'.failed = TRUE /\ call'.undoing = TRUE
        BY <1>1, <2>4, <3>3, CommandCalls
      <4>2. /\ Reversed(call.created) \in Seq(Gres)
            /\ Elements(Reversed(call.created)) = Elements(call.created)
        BY <1>6, ReversedElements
      <4>3. Elements(call'.todo) = On("gre_delete", Elements(call.created))
        BY <4>1, <4>2, EachElementsOne
      <4>4. Elements(call'.todo) \subseteq Commands
        BY <1>3, <2>2, <4>3 DEF RemoveSet, On
      <4>5. call'.todo \in Seq(Commands)
        BY <4>1, <4>2, <4>4, EachSeq
      <4> QED BY <1>5, <1>6, <2>1, <2>2, <3>1, <4>1, <4>3, <4>5 DEF TodoInv
    <3>4. CASE ~ call.undoing /\ c.op \notin {"gre_create", "gre_address", "gre_up"}
      <4>1. call'.todo = <<>> /\ call'.failed = TRUE /\ call'.undoing = FALSE
        BY <1>1, <2>4, <3>4, CommandCalls
      <4>2. Elements(<<>>) = {} /\ <<>> \in Seq(Commands)
        BY DEF Elements
      <4> QED BY <1>5, <1>6, <2>1, <2>2, <3>1, <4>1, <4>2 DEF TodoInv
    <3> QED BY <3>2, <3>3, <3>4
  <2> QED BY <2>3, <2>4 DEF CommandStep, Done, Broken, c
<1>8. CASE Dismantling
  <2>1. ~ Installing /\ left \subseteq RemoveSet(Subject) /\ ~ call.undoing /\ ~ call.failed
    BY <1>1, <1>2, <1>8 DEF Installing, Dismantling, TodoInv, left
  <2>2. c.op \in {"route_del", "gre_delete"}
    BY <1>2, <1>3, <2>1, RemoveShape
  <2>3. CASE call' = Succeeded(c)
    <3>1. /\ call'.todo = Tail(call.todo) /\ call'.created = call.created
          /\ call'.undoing = call.undoing /\ call'.failed = call.failed
      BY <1>1, <2>2, <2>3, CommandCalls
    <3> QED BY <1>2, <1>5, <1>6, <2>1, <3>1 DEF TodoInv, rest
  <2>4. CASE call' = Failed(c)
    <3>1. /\ call'.todo = <<>> /\ call'.created = call.created
          /\ call'.failed = TRUE /\ call'.undoing = FALSE
      BY <1>1, <2>1, <2>2, <2>4, CommandCalls
    <3>2. Elements(<<>>) = {} /\ <<>> \in Seq(Commands)
      BY DEF Elements
    <3> QED BY <1>5, <1>6, <2>1, <3>1, <3>2 DEF TodoInv
  <2> QED BY <2>3, <2>4 DEF CommandStep, Done, Broken, c
<1> QED BY <1>4, <1>7, <1>8

LEMMA TypeCommand ==
  ASSUME BaseInv, CommandStep
  PROVE  BaseInv'
<1>1. TypeInv /\ CallInv /\ TodoInv /\ Running
  BY DEF BaseInv, CommandStep
<1>2. TodoInv' /\ call'.todo \in Seq(Commands) /\ call'.created \in Seq(Gres)
      /\ call'.undoing \in BOOLEAN /\ call'.failed \in BOOLEAN
  BY TodoCommand
<1>3. /\ Same /\ call'.phase = call.phase /\ call'.attempt = call.attempt
      /\ UNCHANGED <<reports_refusals, active, applied, torn, littered>>
  BY <1>1, CommandSame
<1>4. Command \in Commands
  BY <1>1, CommandLeft
<1>5. VppType'
  <2>1. CASE vpp' = vpp
    BY <1>1, <2>1 DEF TypeInv, VppType
  <2>2. CASE Acting(Command) /\ Accepts(Command) /\ vpp' = Effect(Command)
    BY <1>1, <1>4, <2>2, VppTyped
  <2> QED BY <2>1, <2>2 DEF CommandStep, Done, Broken
<1>6. CallType'
  <2>1. \/ call' = [call EXCEPT !.todo = call'.todo, !.created = call'.created]
        \/ call' = [call EXCEPT !.todo = call'.todo, !.undoing = call'.undoing,
                                !.failed = call'.failed]
    BY <1>1, CommandCalls DEF CommandStep, Done, Broken
  <2>2. CallType
    BY <1>1 DEF TypeInv
  <2> DEFINE todo == call'.todo
             created == call'.created
             undoing == call'.undoing
             failed == call'.failed
  <2>3. \/ call' = [call EXCEPT !.todo = todo, !.created = created]
        \/ call' = [call EXCEPT !.todo = todo, !.undoing = undoing, !.failed = failed]
    BY <2>1
  <2>4. /\ todo \in Seq(Commands) /\ created \in Seq(Gres) /\ undoing \in BOOLEAN
        /\ failed \in BOOLEAN
    BY <1>2
  <2> HIDE DEF todo, created, undoing, failed
  <2> QED BY <2>2, <2>3, <2>4 DEF CallType
<1>7. faults' \in Nat
  BY <1>1 DEF CommandStep, Done, Broken, TypeInv
<1>8. TypeInv'
  BY <1>1, <1>3, <1>5, <1>6, <1>7 DEF TypeInv, PathOrNone
<1>9. CallInv'
  <2>1. call.todo # <<>> /\ call.phase # "idle"
    BY <1>1, CommandLeft DEF Running
  <2> QED BY <1>1, <1>3, <2>1 DEF CallInv, Same
<1> QED BY <1>2, <1>8, <1>9 DEF BaseInv

LEMMA CallTyped ==
  ASSUME TypeInv, NEW phase \in {"commit", "cleanup", "withdraw", "restore"},
         NEW p \in Paths, NEW s, s = InstallCommands(p) \/ s = RemoveCommands(p),
         Begins(phase, s), call'.key \in Keys, call'.target \in Paths,
         call'.previous \in PathOrNone, call'.created \in Seq(Gres)
  PROVE  CallType'
<1>1. s \in Seq(Commands)
  BY InstallList, RemoveList DEF Commands
<1> DEFINE key == call'.key
           target == call'.target
           previous == call'.previous
           created == call'.created
<1>2. call' \in [phase : {phase}, key : {key}, target : {target}, previous : {previous},
                 attempt : Nat, todo : {s}, created : {created}, undoing : {FALSE},
                 failed : {FALSE}]
  BY DEF Begins
<1>3. key \in Keys /\ target \in Paths /\ previous \in PathOrNone /\ created \in Seq(Gres)
  OBVIOUS
<1> HIDE DEF key, target, previous, created
<1>4. call' \in [phase : {"idle", "commit", "confirm", "cleanup", "withdraw", "restore"},
                 key : Keys \cup {Idle.key}, target : PathOrNone, previous : PathOrNone,
                 attempt : Nat, todo : Seq(Commands), created : Seq(Gres),
                 undoing : BOOLEAN, failed : BOOLEAN]
  BY <1>1, <1>2, <1>3 DEF PathOrNone
<1> QED BY <1>4 DEF CallType

LEMMA IdleTyped ==
  ASSUME call' = Idle
  PROVE  CallType' /\ CallInv' /\ TodoInv'
<1> DEFINE key == Idle.key
<1>1. Idle = [phase |-> "idle", key |-> key, target |-> NoPath,
              previous |-> NoPath, attempt |-> 0, todo |-> <<>>, created |-> <<>>,
              undoing |-> FALSE, failed |-> FALSE]
  BY DEF Idle
<1> HIDE DEF key
<1>2. call' \in [phase : {"idle"}, key : {key}, target : PathOrNone, previous : PathOrNone,
                 attempt : Nat, todo : Seq(Commands), created : Seq(Gres),
                 undoing : BOOLEAN, failed : BOOLEAN]
  BY <1>1 DEF PathOrNone
<1>3. CallType'
  BY <1>2 DEF CallType, key
<1>4. call'.phase = "idle"
  BY <1>1
<1> QED BY <1>3, <1>4 DEF CallInv, TodoInv, Installing, Dismantling

\* The lists of commands a call begins with.
LEMMA TodoBegins ==
  ASSUME NEW p \in Paths,
         \/ /\ Begins("commit", InstallCommands(p)) /\ call'.target = p /\ call'.created = <<>>
         \/ /\ Begins("restore", InstallCommands(p)) /\ call'.previous = p /\ call'.created = <<>>
         \/ Begins("withdraw", RemoveCommands(p)) /\ call'.target = p
         \/ Begins("cleanup", RemoveCommands(p)) /\ call'.previous = p
  PROVE  TodoInv'
<1>1. Elements(InstallCommands(p)) = InstallSet(p) /\ Elements(RemoveCommands(p)) = RemoveSet(p)
      /\ Elements(<<>>) = {}
  BY InstallList, RemoveList DEF Elements
<1>2. Subject' = p
  BY DEF Begins, Subject
<1> QED BY <1>1, <1>2 DEF Begins, TodoInv, Installing, Dismantling

LEMMA TypeWithdraw ==
  ASSUME TypeInv, CallInv, ToWithdraw, call.phase # "idle",
         UNCHANGED <<vpp, reports_refusals, applied>>, active' \in [Keys -> PathOrNone],
         faults' \in Nat, call.previous = NoPath => applied[call.key] = NoPath
  PROVE  BaseInv'
<1>1. /\ call.key \in Keys /\ call.target \in Paths /\ call.previous \in PathOrNone
  BY SubjectPath
<1>2. /\ Same /\ Begins("withdraw", RemoveCommands(call.target)) /\ call'.created = call.created
      /\ torn' = torn \cup {call.key} /\ littered' = littered
  BY DEF ToWithdraw
<1>3. call.created \in Seq(Gres)
  BY DEF TypeInv, CallType
<1>4. CallType'
  BY <1>1, <1>2, <1>3, CallTyped DEF Same
<1>5. TodoInv'
  BY <1>1, <1>2, TodoBegins DEF Same
<1>6. TypeInv'
  BY <1>1, <1>2, <1>4 DEF TypeInv, VppType
<1>7. CallInv'
  BY <1>1, <1>2 DEF CallInv, Begins, Same
<1> QED BY <1>5, <1>6, <1>7 DEF BaseInv

LEMMA TypeOver ==
  ASSUME TypeInv, Over, UNCHANGED <<vpp, reports_refusals>>,
         active' \in [Keys -> PathOrNone], applied' \in [Keys -> PathOrNone],
         \A key \in Keys : applied'[key] \in Candidates[key] \cup {NoPath},
         faults' \in Nat, torn' \subseteq Keys
  PROVE  BaseInv'
<1>1. call' = Idle /\ littered' = (littered \/ torn' # {})
  BY DEF Over
<1>2. CallType' /\ CallInv' /\ TodoInv'
  BY <1>1, IdleTyped
<1>3. littered' \in BOOLEAN
  BY <1>1
<1> QED BY <1>2, <1>3 DEF BaseInv, TypeInv, VppType

LEMMA TypeInit ==
  ASSUME VppInit
  PROVE  BaseInv
<1> DEFINE key == Idle.key
<1>1. call = [phase |-> "idle", key |-> key, target |-> NoPath,
              previous |-> NoPath, attempt |-> 0, todo |-> <<>>, created |-> <<>>,
              undoing |-> FALSE, failed |-> FALSE]
  BY DEF VppInit, Idle
<1> HIDE DEF key
<1>2. call \in [phase : {"idle"}, key : {key}, target : PathOrNone, previous : PathOrNone,
                attempt : Nat, todo : Seq(Commands), created : Seq(Gres),
                undoing : BOOLEAN, failed : BOOLEAN]
  BY <1>1 DEF PathOrNone
<1>3. CallType
  BY <1>2 DEF CallType, key
<1>4. CallInv /\ TodoInv
  BY <1>1 DEF CallInv, TodoInv, Installing, Dismantling
<1>5. VppType
  BY DEF VppInit, VppType
<1>6. TypeInv
  BY <1>3, <1>5 DEF VppInit, TypeInv, PathOrNone
<1> QED BY <1>4, <1>6 DEF BaseInv

LEMMA TypeStep ==
  ASSUME BaseInv, [VppNext]_cvars
  PROVE  BaseInv'
<1>0. TypeInv /\ CallInv /\ TodoInv
  BY DEF BaseInv
<1>1. active \in [Keys -> PathOrNone] /\ applied \in [Keys -> PathOrNone]
      /\ (\A key \in Keys : applied[key] \in Candidates[key] \cup {NoPath})
      /\ faults \in Nat /\ torn \subseteq Keys
  BY <1>0 DEF TypeInv
<1>2. ASSUME switch PROVE BaseInv'
  <2>1. PICK key \in Keys : \E p \in Candidates[key] : SwitchTo(key, p)
    BY <1>0, <1>2, SwitchFacts
  <2>2. PICK p \in Candidates[key] : SwitchTo(key, p)
    BY <2>1
  <2>3. p \in Paths /\ applied[key] \in PathOrNone /\ p # applied[key]
    BY <1>1, <2>2, VppAssumption DEF SwitchTo
  <2>4. /\ call'.key = key /\ call'.target = p /\ call'.previous = applied[key]
        /\ call'.created = <<>> /\ <<>> \in Seq(Gres)
        /\ UNCHANGED <<vpp, reports_refusals, active, applied, littered>>
        /\ \/ Begins("commit", InstallCommands(p)) /\ faults' = faults /\ torn' = torn
           \/ Begins("withdraw", RemoveCommands(p)) /\ faults' = faults + 1 /\ torn' = torn \cup {key}
    BY <2>2 DEF SwitchTo
  <2>5. CallType'
    BY <1>0, <2>3, <2>4, CallTyped
  <2>6. TodoInv'
    BY <2>3, <2>4, TodoBegins
  <2>7. TypeInv'
    BY <1>0, <1>1, <2>4, <2>5 DEF TypeInv, VppType
  <2>8. CallInv'
    BY <1>1, <2>3, <2>4 DEF CallInv, Begins
  <2> QED BY <2>6, <2>7, <2>8 DEF BaseInv
<1>3. ASSUME commit PROVE BaseInv'
  <2>1. /\ call.phase = "commit" /\ call.todo = <<>> /\ ~ call.failed
        /\ Same /\ call'.phase = "confirm" /\ call'.todo = <<>> /\ ~ call'.failed
        /\ call' = [call EXCEPT !.phase = "confirm"]
        /\ active' = [active EXCEPT ![call.key] = call.target]
        /\ applied' = [applied EXCEPT ![call.key] = call.target]
        /\ torn' = torn \ {call.key}
        /\ UNCHANGED <<vpp, reports_refusals, faults, littered>>
    BY <1>0, <1>3, CommitFacts
  <2>2. call.key \in Keys /\ call.target \in Paths /\ call.target \in Candidates[call.key]
    BY <1>0, <2>1, SubjectPath DEF CallInv
  <2>3. CallType'
    BY <1>0, <2>1 DEF TypeInv, CallType
  <2>4. TypeInv'
    BY <1>0, <1>1, <2>1, <2>2, <2>3 DEF TypeInv, VppType, PathOrNone
  <2>5. CallInv'
    BY <1>0, <1>1, <2>1, <2>2 DEF CallInv, Same
  <2>6. TodoInv'
    BY <2>1 DEF TodoInv, Installing, Dismantling
  <2> QED BY <2>4, <2>5, <2>6 DEF BaseInv
<1>4. ASSUME commit_fails PROVE BaseInv'
  <2>1. /\ call.phase = "commit"
        /\ \/ Same /\ Begins("commit", InstallCommands(call.target)) /\ call'.created = <<>>
              /\ torn' = torn
           \/ ToWithdraw
        /\ UNCHANGED <<vpp, reports_refusals, active, applied, faults, littered>>
    BY <1>0, <1>4, CommitFailsFacts
  <2>2. /\ call.key \in Keys /\ call.target \in Paths /\ call.previous \in PathOrNone
        /\ applied[call.key] = call.previous /\ <<>> \in Seq(Gres)
    BY <1>0, <2>1, SubjectPath DEF CallInv
  <2>3. CASE Same /\ Begins("commit", InstallCommands(call.target)) /\ call'.created = <<>>
             /\ torn' = torn
    <3>1. CallType'
      BY <1>0, <2>2, <2>3, CallTyped DEF Same
    <3>2. TodoInv'
      BY <2>2, <2>3, TodoBegins DEF Same
    <3>3. TypeInv'
      BY <1>0, <1>1, <2>1, <2>3, <3>1 DEF TypeInv, VppType
    <3>4. CallInv'
      BY <1>0, <2>1, <2>2, <2>3 DEF CallInv, Same, Begins
    <3> QED BY <3>2, <3>3, <3>4 DEF BaseInv
  <2>4. CASE ToWithdraw
    BY <1>0, <1>1, <2>1, <2>2, <2>4, TypeWithdraw
  <2> QED BY <2>1, <2>3, <2>4
<1>5. ASSUME confirm PROVE BaseInv'
  <2>1. /\ call.phase = "confirm"
        /\ \/ /\ call.previous # NoPath /\ Same
              /\ Begins("cleanup", RemoveCommands(call.previous)) /\ call'.created = call.created
              /\ UNCHANGED <<torn, littered>>
           \/ call.previous = NoPath /\ torn' = torn /\ Over
        /\ UNCHANGED <<vpp, reports_refusals, active, applied, faults>>
    BY <1>0, <1>5, ConfirmFacts
  <2>2. /\ call.key \in Keys /\ call.target \in Paths /\ call.previous \in PathOrNone
        /\ call.created \in Seq(Gres)
    BY <1>0, <2>1, SubjectPath DEF TypeInv, CallType
  <2>3. CASE /\ call.previous # NoPath /\ Same
             /\ Begins("cleanup", RemoveCommands(call.previous)) /\ call'.created = call.created
             /\ UNCHANGED <<torn, littered>>
    <3>0. call.previous \in Paths
      BY <2>2, <2>3 DEF PathOrNone
    <3>1. CallType'
      BY <1>0, <2>2, <2>3, <3>0, CallTyped DEF Same
    <3>2. TodoInv'
      BY <2>2, <2>3, <3>0, TodoBegins DEF Same
    <3>3. TypeInv'
      BY <1>0, <1>1, <2>1, <2>3, <3>1 DEF TypeInv, VppType
    <3>4. CallInv'
      BY <1>0, <2>1, <2>2, <2>3 DEF CallInv, Same, Begins
    <3> QED BY <3>2, <3>3, <3>4 DEF BaseInv
  <2>4. CASE torn' = torn /\ Over
    BY <1>0, <1>1, <2>1, <2>4, TypeOver
  <2> QED BY <2>1, <2>3, <2>4
<1>6. ASSUME cleanup PROVE BaseInv'
  <2>1. /\ call.phase = "cleanup"
        /\ \/ UNCHANGED <<torn, faults>> /\ Over
           \/ faults' = faults + 1 /\ ToWithdraw
           \/ UNCHANGED faults /\ ToWithdraw
        /\ \/ active' = [active EXCEPT ![call.key] = IF @ = call.previous THEN NoPath ELSE @]
           \/ active' = active
        /\ UNCHANGED <<vpp, reports_refusals, applied>>
    BY <1>0, <1>6, CleanupFacts
  <2>2. /\ call.key \in Keys /\ call.previous # NoPath
    BY <1>0, <2>1 DEF CallInv
  <2>3. active' \in [Keys -> PathOrNone]
    BY <1>1, <2>1, <2>2 DEF PathOrNone
  <2>4. CASE UNCHANGED <<torn, faults>> /\ Over
    BY <1>0, <1>1, <2>1, <2>3, <2>4, TypeOver
  <2>5. CASE faults' \in {faults, faults + 1} /\ ToWithdraw
    BY <1>0, <1>1, <2>1, <2>2, <2>3, <2>5, TypeWithdraw
  <2> QED BY <2>1, <2>4, <2>5
<1>7. ASSUME rollback PROVE BaseInv'
  <2>1. /\ call.phase = "withdraw"
        /\ active' = [active EXCEPT ![call.key] = IF @ = call.target THEN NoPath ELSE @]
        /\ \/ call.previous = NoPath /\ Over
           \/ /\ call.previous # NoPath /\ Same
              /\ Begins("restore", InstallCommands(call.previous)) /\ call'.created = <<>>
              /\ littered' = littered
        /\ UNCHANGED <<vpp, reports_refusals, applied, torn, faults>>
    BY <1>0, <1>7, RollbackFacts
  <2>2. /\ call.key \in Keys /\ call.target \in Paths /\ call.previous \in PathOrNone
        /\ <<>> \in Seq(Gres)
    BY <1>0, <2>1, SubjectPath
  <2>3. active' \in [Keys -> PathOrNone]
    BY <1>1, <2>1, <2>2 DEF PathOrNone
  <2>4. CASE Over
    BY <1>0, <1>1, <2>1, <2>3, <2>4, TypeOver
  <2>5. CASE /\ call.previous # NoPath /\ Same
             /\ Begins("restore", InstallCommands(call.previous)) /\ call'.created = <<>>
             /\ littered' = littered
    <3>0. call.previous \in Paths
      BY <2>2, <2>5 DEF PathOrNone
    <3>1. CallType'
      BY <1>0, <2>2, <2>5, <3>0, CallTyped DEF Same
    <3>2. TodoInv'
      BY <2>2, <2>5, <3>0, TodoBegins DEF Same
    <3>3. TypeInv'
      BY <1>0, <1>1, <2>1, <2>3, <2>5, <3>1 DEF TypeInv, VppType
    <3>4. CallInv'
      BY <1>0, <2>1, <2>2, <2>5 DEF CallInv, Same, Begins
    <3> QED BY <3>2, <3>3, <3>4 DEF BaseInv
  <2> QED BY <2>1, <2>4, <2>5
<1>8. ASSUME rollback_fails PROVE BaseInv'
  <2>1. /\ faults' \in {faults, faults + 1}
        /\ Over /\ UNCHANGED <<vpp, reports_refusals, active, applied, torn>>
    BY <1>0, <1>8, RollbackFailsFacts
  <2> QED BY <1>0, <1>1, <2>1, TypeOver
<1>9. ASSUME rollback_completes PROVE BaseInv'
  <2>1. /\ call.phase = "restore"
        /\ active' = [active EXCEPT ![call.key] = call.previous]
        /\ applied' = [applied EXCEPT ![call.key] = call.previous]
        /\ torn' = torn \ {call.key}
        /\ Over /\ UNCHANGED <<vpp, reports_refusals, faults>>
    BY <1>0, <1>9, RollbackCompletesFacts
  <2>2. /\ call.key \in Keys /\ call.previous \in Candidates[call.key] \cup {NoPath}
        /\ call.previous \in PathOrNone
    BY <1>0, <2>1, SubjectPath DEF CallInv
  <2>3. active' \in [Keys -> PathOrNone] /\ applied' \in [Keys -> PathOrNone]
        /\ \A key \in Keys : applied'[key] \in Candidates[key] \cup {NoPath}
    BY <1>1, <2>1, <2>2
  <2> QED BY <1>0, <1>1, <2>1, <2>3, TypeOver
<1>10. ASSUME new_adapter PROVE BaseInv'
  <2>1. /\ call.phase = "idle" /\ active' = [key \in Keys |-> NoPath]
        /\ UNCHANGED <<vpp, reports_refusals, applied, call, faults, torn, littered>>
    BY <1>10 DEF new_adapter
  <2>2. TypeInv'
    BY <1>0, <1>1, <2>1 DEF TypeInv, VppType, CallType, PathOrNone
  <2> QED BY <1>0, <2>1, <2>2 DEF BaseInv, CallInv, TodoInv, Installing, Dismantling
<1>11. ASSUME UNCHANGED cvars PROVE BaseInv'
  BY <1>0, <1>11
  DEF cvars, BaseInv, TypeInv, VppType, CallType, CallInv, TodoInv, Subject, Installing, Dismantling
<1> QED
  BY <1>2, <1>3, <1>4, <1>5, <1>6, <1>7, <1>8, <1>9, <1>10, <1>11, CommandSteps, TypeCommand
  DEF VppNext

\* Types, the course of a call and the commands that are left to it.
THEOREM VppTyping == VppSpec => []BaseInv
<1>1. VppInit => BaseInv
  BY TypeInit
<1>2. BaseInv /\ [VppNext]_cvars => BaseInv'
  BY TypeStep
<1> QED BY <1>1, <1>2, PTL DEF VppSpec

-----------------------------------------------------------------------------
(* What a command changes.                                                 *)

LEMMA Changes ==
  ASSUME TypeInv, NEW c \in Commands, Acting(c), vpp' = Effect(c)
  PROVE  /\ \A g \in Gres : g # c.on \/ c.op \notin {"gre_create", "gre_address", "gre_up", "gre_delete"} =>
              vpp'.gre[g] = vpp.gre[g]
         /\ c.op = "gre_create" => vpp'.gre[c.on] = Exists
         /\ c.op = "gre_address" => vpp'.gre[c.on] = vpp.gre[c.on] \cup {"address"}
         /\ c.op = "gre_up" => vpp'.gre[c.on] = vpp.gre[c.on] \cup {"up"}
         /\ c.op = "gre_delete" => vpp'.gre[c.on] = {}
         /\ \A e \in Edges : e # c.on \/ c.op \notin {"sub_create", "sub_up"} =>
              vpp'.sub[e] = vpp.sub[e]
         /\ c.op = "sub_create" => vpp'.sub[c.on] = Exists
         /\ c.op = "sub_up" => vpp'.sub[c.on] = vpp.sub[c.on] \cup {"up"}
         /\ c.op = "table_add" => vpp'.tables = vpp.tables \cup {c.on}
         /\ c.op # "table_add" => vpp'.tables = vpp.tables
         /\ \A e \in Edges : e # c.on[1] \/ c.op # "if_table" => vpp'.if_table[e] = vpp.if_table[e]
         /\ c.op = "if_table" => vpp'.if_table[c.on[1]] = c.on[2]
         /\ c.op = "route_add" => vpp'.fib = vpp.fib \cup {c.on}
         /\ c.op = "route_del" => vpp'.fib = vpp.fib \ {c.on}
         /\ c.op \notin {"route_add", "route_del"} => vpp'.fib = vpp.fib
<1>1. c.op \in {"gre_create", "gre_address", "gre_up", "gre_delete", "sub_create", "sub_up",
                "table_add", "if_table", "route_add", "route_del"}
  BY ActingOps
<1>2. /\ c.op \in {"gre_create", "gre_address", "gre_up", "gre_delete"} => c.on \in Gres
      /\ c.op \in {"sub_create", "sub_up"} => c.on \in Edges
      /\ c.op = "if_table" => c.on[1] \in Edges /\ c.on[2] \in Nat
  BY CommandShape
<1>3. /\ vpp.gre \in [Gres -> SUBSET Works] /\ vpp.sub \in [Edges -> SUBSET {"exists", "up"}]
      /\ vpp.if_table \in [Edges -> Nat]
  BY DEF TypeInv, VppType
<1> DEFINE gre == vpp'.gre
           sub == vpp'.sub
           if_table == vpp'.if_table
<1>4. /\ c.op = "gre_create" => gre = [vpp.gre EXCEPT ![c.on] = Exists]
      /\ c.op = "gre_address" => gre = [vpp.gre EXCEPT ![c.on] = @ \cup {"address"}]
      /\ c.op = "gre_up" => gre = [vpp.gre EXCEPT ![c.on] = @ \cup {"up"}]
      /\ c.op = "gre_delete" => gre = [vpp.gre EXCEPT ![c.on] = {}]
      /\ c.op \notin {"gre_create", "gre_address", "gre_up", "gre_delete"} => gre = vpp.gre
  BY <1>1, EffectFields
<1>5. /\ c.op = "sub_create" => sub = [vpp.sub EXCEPT ![c.on] = Exists]
      /\ c.op = "sub_up" => sub = [vpp.sub EXCEPT ![c.on] = @ \cup {"up"}]
      /\ c.op \notin {"sub_create", "sub_up"} => sub = vpp.sub
  BY <1>1, EffectFields
<1>6. /\ c.op = "if_table" => if_table = [vpp.if_table EXCEPT ![c.on[1]] = c.on[2]]
      /\ c.op # "if_table" => if_table = vpp.if_table
  BY <1>1, EffectFields
<1>7. /\ c.op = "table_add" => vpp'.tables = vpp.tables \cup {c.on}
      /\ c.op # "table_add" => vpp'.tables = vpp.tables
      /\ c.op = "route_add" => vpp'.fib = vpp.fib \cup {c.on}
      /\ c.op = "route_del" => vpp'.fib = vpp.fib \ {c.on}
      /\ c.op \notin {"route_add", "route_del"} => vpp'.fib = vpp.fib
  BY <1>1, EffectFields
<1> HIDE DEF gre, sub, if_table
<1>8. /\ \A g \in Gres : g # c.on \/ c.op \notin {"gre_create", "gre_address", "gre_up", "gre_delete"} =>
           gre[g] = vpp.gre[g]
      /\ c.op = "gre_create" => gre[c.on] = Exists
      /\ c.op = "gre_address" => gre[c.on] = vpp.gre[c.on] \cup {"address"}
      /\ c.op = "gre_up" => gre[c.on] = vpp.gre[c.on] \cup {"up"}
      /\ c.op = "gre_delete" => gre[c.on] = {}
  BY <1>2, <1>3, <1>4
<1>9. /\ \A e \in Edges : e # c.on \/ c.op \notin {"sub_create", "sub_up"} => sub[e] = vpp.sub[e]
      /\ c.op = "sub_create" => sub[c.on] = Exists
      /\ c.op = "sub_up" => sub[c.on] = vpp.sub[c.on] \cup {"up"}
  BY <1>2, <1>3, <1>5
<1>10. /\ \A e \in Edges : e # c.on[1] \/ c.op # "if_table" => if_table[e] = vpp.if_table[e]
       /\ c.op = "if_table" => if_table[c.on[1]] = c.on[2]
  BY <1>2, <1>3, <1>6
<1> QED BY <1>7, <1>8, <1>9, <1>10 DEF gre, sub, if_table

\* The commands of an undone installation delete what it has created.
LEMMA CommandOf ==
  ASSUME BaseInv, Running
  PROVE  /\ Command \in Commands /\ Subject \in Paths
         /\ Installing /\ ~ call.failed => Command \in InstallSet(Subject)
         /\ Installing /\ call.failed =>
              /\ Command.op = "gre_delete" /\ Command.on \in Elements(call.created)
              /\ Command \in RemoveSet(Subject)
         /\ Dismantling => Command \in RemoveSet(Subject) /\ ~ call.failed
         /\ Installing \/ Dismantling
<1>1. TypeInv /\ CallInv /\ TodoInv /\ call.phase # "idle"
  BY DEF BaseInv, Running
<1>2. Command \in Commands /\ Command \in Elements(call.todo) /\ call.todo # <<>>
  BY <1>1, CommandLeft
<1>3. Subject \in Paths
  BY <1>1, SubjectPath
<1>4. ASSUME Installing, call.failed
      PROVE  /\ Command.op = "gre_delete" /\ Command.on \in Elements(call.created)
             /\ Command \in RemoveSet(Subject)
  <2>1. /\ Command \in On("gre_delete", Elements(call.created))
        /\ Elements(call.created) \subseteq Elements(GresOf[Subject])
    BY <1>1, <1>2, <1>4 DEF TodoInv
  <2> QED BY <2>1 DEF On, Cmd, RemoveSet
<1>5. Installing \/ Dismantling
  BY <1>1, <1>2 DEF Installing, Dismantling, CallInv, TypeInv, CallType
<1> QED BY <1>1, <1>2, <1>3, <1>4, <1>5 DEF TodoInv

LEMMA OtherStepsKeepVpp ==
  ASSUME \/ switch \/ commit \/ commit_fails \/ confirm \/ cleanup
         \/ rollback \/ rollback_fails \/ rollback_completes \/ new_adapter \/ UNCHANGED cvars
  PROVE  vpp' = vpp
BY DEF switch, commit, commit_fails, confirm, cleanup, rollback, rollback_fails,
       rollback_completes, new_adapter, cvars

\* An installation, also one that is undone, takes away no GRE tunnel but those it has
\* created (the created_count of ensure_vpp_gre_tunnels).
THEOREM VppKeepsTunnels == VppSpec => InstallKeepsTunnels
<1> DEFINE Kept == reports_refusals /\ call.phase \in {"commit", "restore"} =>
                     \A g \in Gres :
                       vpp.gre[g] = Works /\ g \notin Elements(call.created) => vpp'.gre[g] = Works
<1>1. ASSUME BaseInv, [VppNext]_cvars PROVE Kept
  <2> SUFFICES ASSUME call.phase \in {"commit", "restore"}, NEW g \in Gres,
                      vpp.gre[g] = Works, g \notin Elements(call.created)
               PROVE  vpp'.gre[g] = Works
    OBVIOUS
  <2>1. CASE CommandStep
    <3> DEFINE c == Command
    <3>1. c \in Commands /\ (c.op # "gre_delete" \/ c.on # g)
      <4>1. Installing /\ Running
        BY <2>1 DEF Installing, CommandStep
      <4>2. /\ c \in Commands /\ Subject \in Paths
            /\ c \in InstallSet(Subject) \/ c.on \in Elements(call.created)
        BY <1>1, <4>1, CommandOf
      <4> QED BY <4>2, InstallShape
    <3>2. CASE vpp' = vpp
      BY <3>2
    <3>3. CASE Acting(c) /\ Accepts(c) /\ vpp' = Effect(c)
      <4>1. TypeInv /\ c \in Commands
        BY <1>1, <2>1, CommandLeft DEF BaseInv, CommandStep
      <4>2. c.op = "gre_create" => c.on # g
        BY <3>3 DEF Accepts, Present, Works
      <4>3. c.op \in {"gre_address", "gre_up"} /\ c.on = g => vpp'.gre[g] = Works
        BY <3>3, <4>1, Changes DEF Works
      <4>4. \/ c.op \in {"gre_address", "gre_up"} /\ c.on = g
            \/ g # c.on
            \/ c.op \notin {"gre_create", "gre_address", "gre_up", "gre_delete"}
        BY <3>1, <4>2
      <4> QED BY <3>3, <4>1, <4>3, <4>4, Changes
    <3> QED BY <2>1, <3>2, <3>3 DEF CommandStep, Done, Broken
  <2>2. CASE vpp' = vpp
    BY <2>2
  <2> QED BY <1>1, <2>1, <2>2, CommandSteps, OtherStepsKeepVpp DEF VppNext
<1>2. BaseInv /\ [VppNext]_cvars => [Kept]_cvars
  BY <1>1
<1> QED BY <1>2, VppTyping, PTL DEF VppSpec, InstallKeepsTunnels

-----------------------------------------------------------------------------
(* The progress of an installation.                                        *)

LEMMA Spared ==
  ASSUME TypeInv, NEW c \in Commands, NEW p \in Paths, NEW d \in InstallSet(p),
         Acting(c), Accepts(c), vpp' = Effect(c), Made(d),
         c.op = "gre_delete" /\ d.op \in {"gre_create", "gre_address", "gre_up"} => c.on # d.on,
         c.op = "route_del" /\ d.op = "route_add" => c.on # d.on,
         c.op = "if_table" /\ d.op = "if_table" /\ c.on[1] = d.on[1] => c.on[2] = d.on[2]
  PROVE  Made(d)'
<1>1. /\ d.op \in {"gre_create", "gre_address", "gre_up"} => d.on \in Gres
      /\ d.op \in {"sub_create", "sub_up"} => d.on \in Edges
      /\ d.op = "if_table" => d.on[1] \in Edges
  BY InstallShape
<1>2. /\ c.op = "gre_create" => "exists" \notin vpp.gre[c.on]
      /\ c.op = "sub_create" => "exists" \notin vpp.sub[c.on]
  BY DEF Accepts, Present
<1>3. /\ c.op = "gre_create" => vpp.gre[c.on] = {}
      /\ c.op = "sub_create" => vpp.sub[c.on] = {}
  BY <1>2, CommandShape DEF TypeInv, VppType
<1>4. CASE d.op \in {"gre_create", "gre_address", "gre_up"}
  <2>1. /\ \A g \in Gres : g # c.on \/ c.op \notin {"gre_create", "gre_address", "gre_up", "gre_delete"} =>
             vpp'.gre[g] = vpp.gre[g]
        /\ c.op = "gre_address" => vpp'.gre[c.on] = vpp.gre[c.on] \cup {"address"}
        /\ c.op = "gre_up" => vpp'.gre[c.on] = vpp.gre[c.on] \cup {"up"}
    BY Changes
  <2>2. vpp.gre[d.on] # {}
    BY <1>4 DEF Made
  <2>3. vpp.gre[d.on] \subseteq vpp'.gre[d.on]
    BY <1>1, <1>3, <1>4, <2>1, <2>2
  <2> QED BY <1>4, <2>3 DEF Made
<1>5. CASE d.op \in {"sub_create", "sub_up"}
  <2>1. /\ \A e \in Edges : e # c.on \/ c.op \notin {"sub_create", "sub_up"} =>
             vpp'.sub[e] = vpp.sub[e]
        /\ c.op = "sub_up" => vpp'.sub[c.on] = vpp.sub[c.on] \cup {"up"}
    BY Changes
  <2>2. vpp.sub[d.on] # {}
    BY <1>5 DEF Made
  <2>3. vpp.sub[d.on] \subseteq vpp'.sub[d.on]
    BY <1>1, <1>3, <1>5, <2>1, <2>2
  <2> QED BY <1>5, <2>3 DEF Made
<1>6. CASE d.op = "table_add"
  BY <1>6, Changes DEF Made
<1>7. CASE d.op = "if_table"
  <2>1. /\ \A e \in Edges : e # c.on[1] \/ c.op # "if_table" => vpp'.if_table[e] = vpp.if_table[e]
        /\ c.op = "if_table" => vpp'.if_table[c.on[1]] = c.on[2]
    BY Changes
  <2> QED BY <1>1, <1>7, <2>1 DEF Made
<1>8. CASE d.op = "route_add"
  <2>1. /\ c.op = "route_add" => vpp'.fib = vpp.fib \cup {c.on}
        /\ c.op = "route_del" => vpp'.fib = vpp.fib \ {c.on}
        /\ c.op \notin {"route_add", "route_del"} => vpp'.fib = vpp.fib
    BY Changes
  <2> QED BY <1>8, <2>1 DEF Made
<1>9. CASE d.op \notin {"gre_create", "gre_address", "gre_up", "sub_create", "sub_up",
                        "table_add", "if_table", "route_add"}
  BY <1>9 DEF Made
<1> QED BY <1>4, <1>5, <1>6, <1>7, <1>8, <1>9

\* Commands of one installation spare each other.
LEMMA InstallSpares ==
  ASSUME TypeInv, NEW p \in Paths, NEW c \in InstallSet(p), NEW d \in InstallSet(p),
         vpp' = vpp \/ (Acting(c) /\ Accepts(c) /\ vpp' = Effect(c)), Made(d)
  PROVE  Made(d)'
<1>1. CASE vpp' = vpp
  BY <1>1 DEF Made
<1>2. CASE Acting(c) /\ Accepts(c) /\ vpp' = Effect(c)
  <2>1. c \in Commands
    BY DEF Commands
  <2>2. c.op \notin {"gre_delete", "route_del"}
    BY InstallShape
  <2>3. c.op = "if_table" /\ d.op = "if_table" => c.on[2] = d.on[2]
    BY InstallShape
  <2> QED BY <1>2, <2>1, <2>2, <2>3, Spared
<1> QED BY <1>1, <1>2

\* A table that is there is shown, and one that is shown is there if no other table is
\* taken for it.
LEMMA ShownIfThere ==
  ASSUME NEW id \in vpp.tables
  PROVE  TableShown(id)
<1>1. BeginsWith(id, id)
  BY Zenon DEF BeginsWith
<1> QED BY <1>1 DEF TableShown

LEMMA ThereIfShown ==
  ASSUME TypeInv, NEW p \in Paths, TableOf[p] > 0, TableKnown(p), TableShown(TableOf[p])
  PROVE  TableOf[p] \in vpp.tables
<1>1. PICK n \in vpp.tables : BeginsWith(n, TableOf[p])
  BY DEF TableShown
<1>2. n \in {0} \cup {TableOf[q] : q \in Paths}
  BY <1>1 DEF TypeInv, VppType
<1>3. n = TableOf[p]
  BY <1>1, <1>2 DEF TableKnown
<1> QED BY <1>1, <1>3

\* VPP refuses a command that finds what it needs only if its tunnel is there already.
LEMMA RefusedIsMade ==
  ASSUME TypeInv, NEW p \in Paths, NEW c \in InstallSet(p), Needs(c, p) \subseteq MadeOf(p),
         Acting(c), ~ Accepts(c)
  PROVE  c.op = "gre_create" /\ Made(c)
<1>0. c \in Commands
  BY DEF Commands
<1>1. c.op \in {"gre_create", "gre_address", "gre_up", "sub_create", "sub_up",
                "table_add", "if_table", "route_add"}
  BY <1>0, ActingOps, InstallShape
<1>2. ASSUME NEW d \in MadeOf(p) PROVE Made(d)
  BY DEF MadeOf
<1>3. CASE c.op = "gre_create"
  BY <1>3 DEF Accepts, Present, Made
<1>4. CASE c.op = "sub_create"
  BY <1>4 DEF Accepts, Acting, Superfluous
<1>4a. CASE c.op = "table_add"
  <2>1. ~ TableShown(c.on)
    BY <1>4a DEF Acting, Superfluous
  <2>2. c.on \notin vpp.tables
    BY <2>1, ShownIfThere
  <2> QED BY <1>4a, <2>2 DEF Accepts, Present
<1>5. CASE c.op \in {"gre_address", "gre_up"}
  <2>1. Made(Cmd("gre_create", c.on))
    BY <1>2, <1>5 DEF Needs
  <2> QED BY <1>5, <2>1 DEF Made, Cmd, Accepts, Present
<1>6. CASE c.op = "sub_up"
  <2>1. Made(Cmd("sub_create", c.on))
    BY <1>2, <1>6 DEF Needs
  <2> QED BY <1>6, <2>1 DEF Made, Cmd, Accepts, Present
<1>7. CASE c.op = "if_table"
  <2>1. Made(Cmd("vlan_known", p)) /\ Made(Cmd("table_add", c.on[2]))
    BY <1>2, <1>7 DEF Needs
  <2>2. HasVlan
    BY <2>1 DEF Made, Cmd
  <2>3. Made(Cmd("sub_create", c.on[1]))
    BY <1>2, <1>7, <2>2 DEF Needs
  <2>4. "exists" \in vpp.sub[c.on[1]] /\ c.on[2] \in vpp.tables
    BY <2>1, <2>3 DEF Made, Cmd
  <2> QED BY <1>7, <2>4 DEF Accepts, Present
<1>8. CASE c.op = "route_add"
  <2>1. TableOf[p] > 0 => Made(Cmd("table_add", TableOf[p]))
    BY <1>2, <1>8 DEF Needs
  <2>2. Via[c.on] # NoGre => Made(Cmd("gre_create", Via[c.on]))
    BY <1>2, <1>8 DEF Needs
  <2>3. TableOf[p] \in vpp.tables
    <3>1. CASE TableOf[p] > 0
      BY <2>1, <3>1 DEF Made, Cmd
    <3>2. CASE TableOf[p] = 0
      BY <3>2 DEF TypeInv, VppType
    <3> QED BY <3>1, <3>2, Constants
  <2>4. Via[c.on] # NoGre => "exists" \in vpp.gre[Via[c.on]]
    BY <2>2 DEF Made, Cmd
  <2>5. c.on \in Elements(RoutesOf[p])
    BY <1>8, InstallShape
  <2> QED BY <1>8, <2>3, <2>4, <2>5 DEF Accepts
<1> QED BY <1>1, <1>3, <1>4, <1>4a, <1>5, <1>6, <1>7, <1>8

\* A command of an installation that finds what it needs has its effect; the table is
\* left out only if it is there.
LEMMA DoneMakes ==
  ASSUME TypeInv, NEW p \in Paths, NEW c \in InstallSet(p), Needs(c, p) \subseteq MadeOf(p),
         Done(c), TableKnown(p)
  PROVE  Made(c)' /\ \A d \in InstallSet(p) : Made(d) => Made(d)'
<1>1. vpp' = vpp \/ (Acting(c) /\ Accepts(c) /\ vpp' = Effect(c))
  BY DEF Done
<1>2. ASSUME NEW d \in InstallSet(p), Made(d) PROVE Made(d)'
  BY <1>1, <1>2, InstallSpares
<1> SUFFICES Made(c)'
  BY <1>2
<1>3. CASE Acting(c) /\ Accepts(c) /\ vpp' = Effect(c)
  <2>1. c \in Commands
    BY DEF Commands
  <2>2. TypeInv /\ Acting(c) /\ vpp' = Effect(c)
    BY <1>3
  <2>3. c.op \in {"gre_create", "gre_address", "gre_up", "sub_create", "sub_up",
                  "table_add", "if_table", "route_add"}
    BY <2>1, <2>2, ActingOps, InstallShape
  <2>4. CASE c.op \in {"gre_create", "gre_address", "gre_up"}
    BY <2>1, <2>2, <2>4, Changes DEF Made, Exists
  <2>5. CASE c.op \in {"sub_create", "sub_up"}
    BY <2>1, <2>2, <2>5, Changes DEF Made, Exists
  <2>6. CASE c.op \in {"table_add", "if_table", "route_add"}
    BY <2>1, <2>2, <2>6, Changes DEF Made
  <2> QED BY <2>3, <2>4, <2>5, <2>6
<1>4. CASE vpp' = vpp
  <2>1. CASE Acting(c) /\ ~ Accepts(c)
    BY <1>4, <2>1, RefusedIsMade DEF Made
  <2>2. CASE c.op = "sub_create" /\ Present(c)
    BY <1>4, <2>2 DEF Present, Made
  <2>2a. CASE c.op = "table_add" /\ TableShown(c.on)
    <3>1. c.on = TableOf[p] /\ TableOf[p] > 0
      BY <2>2a, InstallShape
    <3>2. c.on \in vpp.tables
      BY <2>2a, <3>1, ThereIfShown
    <3> QED BY <1>4, <2>2a, <3>2 DEF Made
  <2>3. CASE Passes(c)
    BY <1>4, <2>3 DEF Passes, Made
  <2>4. CASE c.op \in Verifications
    BY <2>4 DEF Verifications, Made
  <2>5. CASE Acting(c) /\ Accepts(c) /\ vpp' = Effect(c)
    BY <1>3, <2>5
  <2> QED BY <2>1, <2>2, <2>2a, <2>3, <2>4, <2>5 DEF Done, Superfluous
<1> QED BY <1>1, <1>3, <1>4

LEMMA HeadSupplied ==
  ASSUME NEW S, NEW s \in Seq(S), s # <<>>, NEW given, NEW p, Supplied(s, given, p)
  PROVE  Needs(Head(s), p) \subseteq given
<1>1. 1 \in DOMAIN s /\ s[1] = Head(s)
  BY LenProperties, EmptySeq, HeadTailProperties
<1>2. \A d \in Needs(s[1], p) : d \in given \/ \E j \in 1 .. 1 - 1 : s[j] = d
  BY <1>1 DEF Supplied
<1>3. 1 .. 1 - 1 = {}
  OBVIOUS
<1> QED BY <1>1, <1>2, <1>3

LEMMA ProgressStep ==
  ASSUME TypeInv, Running, NEW p \in Paths, Progress(call.todo, p),
         Command \in InstallSet(p), Done(Command), TableKnown(p)
  PROVE  Progress(call.todo, p)'
<1> DEFINE todo == call.todo
           rest == call'.todo
<1>1. PICK c : c = Command
  OBVIOUS
<1>2. PICK made : made = MadeOf(p)
  OBVIOUS
<1>3. PICK more : more = MadeOf(p)'
  OBVIOUS
<1>4. /\ todo \in Seq(Commands) /\ todo # <<>> /\ c = Head(todo)
      /\ Elements(todo) = {c} \cup Elements(Tail(todo)) /\ rest = Tail(todo)
  BY <1>1, CommandLeft, CommandCalls DEF Command, Done
<1>5. Supplied(todo, made, p) /\ InstallSet(p) \subseteq made \cup Elements(todo)
  BY <1>2 DEF Progress
<1> HIDE DEF todo, rest
<1>6. Needs(c, p) \subseteq made
  BY <1>4, <1>5, HeadSupplied
<1>7. Made(c)' /\ \A d \in InstallSet(p) : Made(d) => Made(d)'
  BY <1>1, <1>2, <1>6, DoneMakes
<1>8. c \in more /\ made \subseteq more
  BY <1>1, <1>2, <1>3, <1>7 DEF MadeOf
<1>9. Supplied(rest, more, p)
  BY <1>4, <1>5, <1>8, SuppliedTail
<1>10. InstallSet(p) \subseteq more \cup Elements(rest)
  BY <1>4, <1>5, <1>8
<1> QED BY <1>3, <1>9, <1>10 DEF Progress, rest

\* Everything is still to be made, and each command finds what it needs.
LEMMA ProgressBegins ==
  ASSUME NEW p \in Paths, Own(p)
  PROVE  /\ Progress(InstallCommands(p), p)
         /\ \A s : s = InstallCommands(p) => Progress(s, p)'
<1>1. Elements(InstallCommands(p)) = InstallSet(p) /\ Supplied(InstallCommands(p), {}, p)
  BY InstallList
<1>2. ASSUME NEW made PROVE Supplied(InstallCommands(p), made, p)
  BY <1>1 DEF Supplied
<1> QED BY <1>1, <1>2 DEF Progress

LEMMA InstallBegins ==
  ASSUME NEW p \in Paths,
         \/ Begins("commit", InstallCommands(p)) /\ call'.target = p
         \/ Begins("restore", InstallCommands(p)) /\ call'.previous = p
  PROVE  InstallInv'
<1>1. Subject' = p /\ call'.todo = InstallCommands(p)
  BY DEF Begins, Subject
<1>2. PICK s : s = call'.todo
  OBVIOUS
<1>3. Provided(p) => Progress(s, p)'
  BY <1>1, <1>2, ProgressBegins DEF Provided
<1> QED BY <1>1, <1>2, <1>3 DEF InstallInv, Progress, Provided, Own, TableKnown

LEMMA InstallStep ==
  ASSUME BaseInv, InstallInv, [VppNext]_cvars
  PROVE  InstallInv'
<1>0. TypeInv /\ CallInv /\ TodoInv /\ BaseInv'
  BY TypeStep DEF BaseInv
<1>1. ASSUME CommandStep PROVE InstallInv'
  <2> SUFFICES ASSUME Installing', ~ call'.failed, Provided(Subject)'
               PROVE  Progress(call.todo, Subject)'
    BY DEF InstallInv
  <2>1. /\ Subject' = Subject /\ Installing /\ Running
    BY <1>0, <1>1, CommandSame DEF CommandStep
  <2>2. PICK p : p = Subject
    OBVIOUS
  <2>3. Provided(p) /\ TableKnown(p) /\ p \in Paths
    BY <1>0, <2>1, <2>2, SubjectPath DEF Running, Provided, Own, TableKnown
  <2>4. CASE Done(Command)
    <3>1. ~ call.failed
      BY <1>0, <2>4, CommandCalls DEF Done
    <3>2. Progress(call.todo, p) /\ Command \in InstallSet(p)
      BY <1>0, <2>1, <2>2, <2>3, <3>1, CommandOf DEF InstallInv, BaseInv
    <3>3. Progress(call.todo, p)'
      BY <1>0, <2>1, <2>3, <2>4, <3>2, ProgressStep
    <3> QED BY <2>1, <2>2, <3>3 DEF Progress
  <2>5. CASE Broken(Command)
    <3>1. ~ call.failed => ~ call.undoing
      BY <1>0, <2>1 DEF TodoInv
    <3>2. call'.failed
      BY <1>0, <2>5, <3>1, CommandCalls DEF Broken
    <3> QED BY <3>2
  <2> QED BY <1>1, <2>4, <2>5 DEF CommandStep
<1>2. ASSUME switch PROVE InstallInv'
  <2>1. PICK key \in Keys : \E p \in Candidates[key] : SwitchTo(key, p)
    BY <1>0, <1>2, SwitchFacts
  <2>2. PICK p \in Candidates[key] : SwitchTo(key, p)
    BY <2>1
  <2>3. p \in Paths /\ call'.target = p
    BY <2>2, VppAssumption DEF SwitchTo
  <2>4. CASE Begins("commit", InstallCommands(p))
    BY <2>3, <2>4, InstallBegins
  <2>5. CASE Begins("withdraw", RemoveCommands(p))
    BY <2>5 DEF InstallInv, Installing, Begins
  <2> QED BY <2>2, <2>4, <2>5 DEF SwitchTo
<1>3. ASSUME commit PROVE InstallInv'
  BY <1>0, <1>3, CommitFacts DEF InstallInv, Installing
<1>4. ASSUME commit_fails PROVE InstallInv'
  <2>1. call.phase = "commit"
    BY <1>0, <1>4, CommitFailsFacts
  <2>2. call.target \in Paths
    BY <1>0, <2>1, SubjectPath
  <2>3. CASE Same /\ Begins("commit", InstallCommands(call.target))
    BY <2>2, <2>3, InstallBegins DEF Same
  <2>4. CASE ToWithdraw
    BY <2>4 DEF ToWithdraw, InstallInv, Installing, Begins
  <2> QED BY <1>0, <1>4, <2>3, <2>4, CommitFailsFacts
<1>5. ASSUME confirm PROVE InstallInv'
  BY <1>0, <1>5, ConfirmFacts DEF InstallInv, Installing, Begins, Over
<1>6. ASSUME cleanup PROVE InstallInv'
  BY <1>0, <1>6, CleanupFacts DEF InstallInv, Installing, Begins, Over, ToWithdraw
<1>7. ASSUME rollback PROVE InstallInv'
  <2>1. call.phase = "withdraw"
    BY <1>0, <1>7, RollbackFacts
  <2>2. call.previous \in PathOrNone
    BY <1>0, <2>1, SubjectPath
  <2>3. CASE call.previous # NoPath /\ Same /\ Begins("restore", InstallCommands(call.previous))
    <3>1. call.previous \in Paths
      BY <2>2, <2>3 DEF PathOrNone
    <3> QED BY <2>3, <3>1, InstallBegins DEF Same
  <2>4. CASE Over
    BY <2>4 DEF Over, InstallInv, Installing
  <2> QED BY <1>0, <1>7, <2>3, <2>4, RollbackFacts
<1>8. ASSUME rollback_fails \/ rollback_completes PROVE InstallInv'
  BY <1>0, <1>8, RollbackFailsFacts, RollbackCompletesFacts DEF Over, InstallInv, Installing
<1>9. ASSUME new_adapter \/ UNCHANGED cvars PROVE InstallInv'
  <2>1. UNCHANGED <<vpp, call>>
    BY <1>9 DEF new_adapter, cvars
  <2> QED BY <2>1
    DEF InstallInv, Installing, Provided, Own, TableKnown, Subject, Progress, MadeOf, Made
<1> QED
  BY <1>1, <1>2, <1>3, <1>4, <1>5, <1>6, <1>7, <1>8, <1>9, CommandSteps DEF VppNext

\* Commands for another path spare what a path of a key that is apart has.
LEMMA ApartSpares ==
  ASSUME TypeInv, NEW key \in Keys, NEW q \in Candidates[key], Apart(key),
         NEW other \in Keys, NEW p \in Candidates[other], other # key \/ p # q,
         NEW c, c \in RemoveSet(p) \/ (other # key /\ c \in InstallSet(p)),
         vpp' = vpp \/ (Acting(c) /\ Accepts(c) /\ vpp' = Effect(c))
  PROVE  Installed(q) => Installed(q)'
<1>0. q \in Paths /\ p \in Paths
  BY VppAssumption
<1>1. p \in OtherPaths(key, q)
  BY <1>0 DEF OtherPaths
<1>2. /\ Elements(RoutesOf[q]) \cap Elements(RoutesOf[p]) = {}
      /\ Elements(GresOf[q]) \cap Elements(GresOf[p]) = {}
      /\ other # key =>
           TableOf[q] = TableOf[p] \/ Elements(EdgesOf[q]) \cap Elements(EdgesOf[p]) = {}
  BY <1>1 DEF Apart
<1>3. ASSUME NEW d \in InstallSet(q), Made(d) PROVE Made(d)'
  <2>1. CASE vpp' = vpp
    BY <1>3, <2>1 DEF Made
  <2>2. CASE Acting(c) /\ Accepts(c) /\ vpp' = Effect(c)
    <3>1. c \in Commands
      BY <1>0 DEF Commands
    <3>2. /\ d.op \in {"gre_create", "gre_address", "gre_up"} => d.on \in Elements(GresOf[q])
          /\ d.op = "route_add" => d.on \in Elements(RoutesOf[q])
          /\ d.op = "if_table" => d.on[1] \in Elements(EdgesOf[q]) /\ d.on[2] = TableOf[q]
      BY <1>0, InstallShape
    <3>3. /\ c.op = "gre_delete" => c.on \in Elements(GresOf[p])
          /\ c.op = "route_del" => c.on \in Elements(RoutesOf[p])
          /\ c.op = "if_table" =>
               other # key /\ c.on[1] \in Elements(EdgesOf[p]) /\ c.on[2] = TableOf[p]
      <4>1. CASE c \in RemoveSet(p)
        BY <1>0, <4>1, RemoveShape
      <4>2. CASE other # key /\ c \in InstallSet(p)
        BY <1>0, <4>2, InstallShape
      <4> QED BY <4>1, <4>2
    <3> QED BY <1>0, <1>2, <1>3, <2>2, <3>1, <3>2, <3>3, Spared
  <2> QED BY <2>1, <2>2
<1> QED BY <1>3 DEF Installed, MadeOf

LEMMA AppliedCommand ==
  ASSUME BaseInv, CommandStep, NEW key \in Keys, applied[key] # NoPath, Apart(key), Settled(key)
  PROVE  \A q : q = applied[key] => (Installed(q) => Installed(q)')
<1>0. TypeInv /\ CallInv /\ TodoInv /\ Running
  BY DEF BaseInv, CommandStep
<1>1. PICK q : q = applied[key]
  OBVIOUS
<1>2. PICK c : c = Command
  OBVIOUS
<1>3. PICK p : p = Subject
  OBVIOUS
<1>4. PICK other : other = call.key
  OBVIOUS
<1>5. q \in Candidates[key] /\ other \in Keys /\ p \in Candidates[other]
  BY <1>0, <1>1, <1>3, <1>4, SubjectPath DEF TypeInv, Running
<1>6. vpp' = vpp \/ (Acting(c) /\ Accepts(c) /\ vpp' = Effect(c))
  BY <1>2 DEF CommandStep, Done, Broken
<1>7. c \in RemoveSet(p) \/ c \in InstallSet(p)
  BY <1>0, <1>2, <1>3, CommandOf DEF TypeInv, CallType, BaseInv
<1>8. other = key => c \in RemoveSet(p) /\ p # q
  <2> SUFFICES ASSUME other = key PROVE c \in RemoveSet(p) /\ p # q
    OBVIOUS
  <2>1. Installing \/ Dismantling
    BY <1>0, CommandOf
  <2>2. call.phase = "cleanup"
    BY <1>0, <1>4, <2>1 DEF Settled, Installing, Dismantling, Running
  <2>3. applied[call.key] = call.target /\ call.target # call.previous
    BY <1>0, <2>2 DEF CallInv
  <2>4. p = call.previous
    BY <1>3, <2>2 DEF Subject
  <2>5. c \in RemoveSet(p)
    BY <1>0, <1>2, <1>3, <2>2, CommandOf DEF Dismantling
  <2> QED BY <1>1, <1>4, <2>3, <2>4, <2>5
<1>9. Installed(q) => Installed(q)'
  BY <1>0, <1>5, <1>6, <1>7, <1>8, ApartSpares
<1> QED BY <1>1, <1>9

\* What the steps other than commands keep: VPP, and thereby what is installed.
LEMMA InstalledKept ==
  ASSUME vpp' = vpp, NEW p
  PROVE  Installed(p)' <=> Installed(p)
BY DEF Installed, MadeOf, Made

\* At the end of an installation everything is made.
LEMMA InstalledAtEnd ==
  ASSUME InstallInv, Installing, ~ call.failed, call.todo = <<>>, NEW p, p = Subject,
         Provided(p)
  PROVE  Installed(p)
<1>1. Progress(<<>>, p)
  BY DEF InstallInv, Progress
<1>2. Elements(<<>>) = {}
  BY DEF Elements
<1> QED BY <1>1, <1>2 DEF Progress, Installed

\* The keys that are settled after a step, with their applied paths.
LEMMA AppliedSteps ==
  ASSUME BaseInv, NEW key \in Keys, Settled(key)', ~ CommandStep, [VppNext]_cvars
  PROVE  /\ vpp' = vpp
         /\ \/ applied'[key] = applied[key] /\ Settled(key) /\ (key \in torn => key \in torn')
            \/ /\ key = call.key /\ key \in torn /\ key \in torn' /\ applied'[key] = applied[key]
               /\ rollback \/ rollback_fails
            \/ key = call.key /\ commit /\ applied'[key] = call.target
            \/ key = call.key /\ rollback_completes /\ applied'[key] = call.previous
<1>0. TypeInv /\ CallInv /\ TodoInv
  BY DEF BaseInv
<1>1. applied \in [Keys -> PathOrNone]
  BY <1>0 DEF TypeInv
<1>2. CASE switch
  <2>1. PICK other \in Keys : \E p \in Candidates[other] : SwitchTo(other, p)
    BY <1>0, <1>2, SwitchFacts
  <2> QED BY <2>1 DEF SwitchTo, Settled, Begins
<1>3. CASE commit
  BY <1>0, <1>1, <1>3, CommitFacts DEF Settled, Same
<1>4. CASE commit_fails
  BY <1>0, <1>4, CommitFailsFacts DEF Settled, Same, Begins, ToWithdraw
<1>5. CASE confirm
  BY <1>0, <1>5, ConfirmFacts DEF Settled
<1>6. CASE cleanup
  BY <1>0, <1>6, CleanupFacts DEF Settled, ToWithdraw
<1>7. CASE rollback
  <2>1. call.key \in torn
    BY <1>0, <1>7, RollbackFacts DEF CallInv
  <2> QED BY <1>0, <1>7, <2>1, RollbackFacts DEF Settled, Same, Begins
<1>8. CASE rollback_fails
  <2>1. call.key \in torn
    BY <1>0, <1>8, RollbackFailsFacts DEF CallInv
  <2> QED BY <1>0, <1>8, <2>1, RollbackFailsFacts DEF Settled
<1>9. CASE rollback_completes
  <2>1. /\ call.phase = "restore"
        /\ applied' = [applied EXCEPT ![call.key] = call.previous]
        /\ torn' = torn \ {call.key} /\ vpp' = vpp
    BY <1>0, <1>9, RollbackCompletesFacts
  <2>2. call.key \in Keys
    BY <1>0, <2>1 DEF CallInv
  <2>3. CASE key = call.key
    BY <1>1, <1>9, <2>1, <2>2, <2>3
  <2>4. CASE key # call.key
    BY <1>1, <2>1, <2>4 DEF Settled
  <2> QED BY <2>3, <2>4
<1>10. CASE new_adapter
  BY <1>10 DEF new_adapter, Settled
<1>11. CASE UNCHANGED cvars
  BY <1>11 DEF cvars, Settled
<1> QED
  BY <1>2, <1>3, <1>4, <1>5, <1>6, <1>7, <1>8, <1>9, <1>10, <1>11, CommandSteps DEF VppNext

LEMMA AppliedStep ==
  ASSUME BaseInv, InstallInv, AppliedInv, [VppNext]_cvars
  PROVE  AppliedInv'
<1>0. TypeInv /\ CallInv /\ BaseInv'
  BY TypeStep DEF BaseInv
<1> SUFFICES ASSUME NEW key \in Keys, key \notin torn', applied'[key] # NoPath, Apart(key),
                    TablesKnown(key), Settled(key)'
             PROVE  Installed(applied[key])'
  BY DEF AppliedInv, Apart, OtherPaths, TablesKnown, TableKnown
<1>1. PICK q : q = applied'[key]
  OBVIOUS
<1>2. CASE CommandStep
  <2>1. /\ UNCHANGED <<applied, torn>> /\ Settled(key)
    BY <1>0, <1>2, CommandSame DEF Same, Settled
  <2>2. q = applied[key] /\ Installed(q)
    BY <1>1, <2>1 DEF AppliedInv
  <2>3. Installed(q)'
    BY <1>2, <2>1, <2>2, AppliedCommand
  <2> QED BY <1>1, <2>3
<1>3. CASE ~ CommandStep
  <2>1. vpp' = vpp
    BY <1>3, AppliedSteps
  <2>2. CASE applied'[key] = applied[key] /\ Settled(key) /\ (key \in torn => key \in torn')
    BY <1>1, <2>1, <2>2, InstalledKept DEF AppliedInv
  <2>3. CASE key = call.key /\ commit /\ applied'[key] = call.target
    <3>1. /\ Installing /\ ~ call.failed /\ call.todo = <<>> /\ q = Subject
          /\ call.phase = "commit"
      BY <1>0, <1>1, <2>3, CommitFacts DEF Installing, Subject
    <3>2. q \in Candidates[key]
      BY <1>0, <1>1, <2>3, <3>1 DEF CallInv
    <3>3. Provided(q)
      BY <3>2 DEF Apart, TablesKnown, Provided, Own
    <3>4. Installed(q)
      BY <3>1, <3>3, InstalledAtEnd
    <3> QED BY <1>1, <2>1, <3>4, InstalledKept
  <2>4. CASE key = call.key /\ rollback_completes /\ applied'[key] = call.previous
    <3>1. /\ Installing /\ ~ call.failed /\ call.todo = <<>> /\ q = Subject
          /\ call.phase = "restore"
      BY <1>0, <1>1, <2>4, RollbackCompletesFacts DEF Installing, Subject
    <3>2. q \in Candidates[key]
      BY <1>0, <1>1, <2>4, <3>1 DEF CallInv
    <3>3. Provided(q)
      BY <3>2 DEF Apart, TablesKnown, Provided, Own
    <3>4. Installed(q)
      BY <3>1, <3>3, InstalledAtEnd
    <3> QED BY <1>1, <2>1, <3>4, InstalledKept
  <2> QED BY <1>3, <2>2, <2>3, <2>4, AppliedSteps
<1> QED BY <1>2, <1>3

\* What is installed forwards.
LEMMA InstalledForwards ==
  ASSUME TypeInv, NEW p \in Paths, Own(p), Installed(p)
  PROVE  Forwards(p)
<1>1. ASSUME NEW d \in InstallSet(p) PROVE Made(d)
  BY DEF Installed, MadeOf
<1>2. ASSUME NEW r \in Elements(RoutesOf[p])
      PROVE  r \in vpp.fib /\ (Via[r] # NoGre => vpp.gre[Via[r]] = Works)
  <2>1. Cmd("route_add", r) \in InstallSet(p)
    BY DEF InstallSet, RouteSet, On
  <2>2. r \in vpp.fib
    BY <1>1, <2>1 DEF Made, Cmd
  <2>3. ASSUME Via[r] # NoGre PROVE vpp.gre[Via[r]] = Works
    <3>1. Via[r] \in Elements(GresOf[p]) /\ Via[r] \in Gres
      BY <2>3, Constants DEF Own
    <3>2. {Cmd("gre_create", Via[r]), Cmd("gre_address", Via[r]), Cmd("gre_up", Via[r])}
            \subseteq InstallSet(p)
      BY <3>1 DEF InstallSet, GreSet, On
    <3>3. Made(Cmd("gre_create", Via[r])) /\ Made(Cmd("gre_address", Via[r]))
          /\ Made(Cmd("gre_up", Via[r]))
      BY <1>1, <3>2
    <3>4. {"exists", "address", "up"} \subseteq vpp.gre[Via[r]]
      BY <3>3 DEF Made, Cmd
    <3>5. vpp.gre[Via[r]] \subseteq Works
      BY <3>1 DEF TypeInv, VppType
    <3> QED BY <3>4, <3>5 DEF Works
  <2> QED BY <2>2, <2>3
<1>3. ASSUME HasVlan, NEW e \in Elements(EdgesOf[p])
      PROVE  /\ vpp.sub[e] = {"exists", "up"}
             /\ TableOf[p] > 0 => vpp.if_table[e] = TableOf[p]
  <2>1. {Cmd("sub_create", e), Cmd("sub_up", e)} \subseteq InstallSet(p)
    BY <1>3 DEF InstallSet, VlanSet, On
  <2>2. Made(Cmd("sub_create", e)) /\ Made(Cmd("sub_up", e))
    BY <1>1, <2>1
  <2>3. {"exists", "up"} \subseteq vpp.sub[e]
    BY <2>2 DEF Made, Cmd
  <2>4. vpp.sub[e] \subseteq {"exists", "up"}
    BY Constants DEF TypeInv, VppType
  <2>5. TableOf[p] > 0 => Cmd("if_table", <<e, TableOf[p]>>) \in InstallSet(p)
    BY DEF InstallSet, TableSet
  <2>6. Made(Cmd("if_table", <<e, TableOf[p]>>)) => vpp.if_table[e] = TableOf[p]
    BY DEF Made, Cmd
  <2> QED BY <1>1, <2>3, <2>4, <2>5, <2>6
<1> QED BY <1>2, <1>3 DEF Forwards

LEMMA InstallInit ==
  ASSUME VppInit
  PROVE  InstallInv /\ AppliedInv
<1>1. call.phase = "idle" /\ applied = [key \in Keys |-> NoPath]
  BY DEF VppInit, Idle
<1> QED BY <1>1 DEF InstallInv, AppliedInv, Installing

\* The paths in their places: types, what an installation has made so far, and what is
\* installed for the keys no transition is changing; for paths whose routes are their
\* own and whose tables no other table is taken for (vpp_install).
THEOREM VppInstalls == VppSpec => [](BaseInv /\ InstallInv /\ AppliedInv)
<1>1. VppInit => InstallInv /\ AppliedInv
  BY InstallInit
<1>2. BaseInv /\ InstallInv /\ AppliedInv /\ [VppNext]_cvars => (InstallInv /\ AppliedInv)'
  BY InstallStep, AppliedStep
<1> QED BY <1>1, <1>2, VppTyping, PTL DEF VppSpec

\* Between transitions the path the controller records is the one VPP forwards over,
\* whatever failed before, unless a rollback failed (vpp_install, vpp_remove, rollback);
\* for keys without anything in common and with tables no other is taken for.
THEOREM VppForwards == VppSpec => []AppliedForwards
<1>1. BaseInv /\ AppliedInv => AppliedForwards
  <2> SUFFICES ASSUME BaseInv, AppliedInv, call.phase = "idle", NEW key \in Keys \ torn,
                      applied[key] # NoPath, Apart(key), TablesKnown(key)
               PROVE  Forwards(applied[key])
    BY DEF AppliedForwards
  <2>1. applied[key] \in Candidates[key] /\ applied[key] \in Paths
    BY VppAssumption DEF BaseInv, TypeInv
  <2>2. Own(applied[key])
    BY <2>1 DEF Apart, Own
  <2>3. Installed(applied[key])
    BY DEF AppliedInv, Settled
  <2> QED BY <2>1, <2>2, <2>3, InstalledForwards DEF BaseInv
<1> QED BY <1>1, VppInstalls, PTL

-----------------------------------------------------------------------------
(* What a removal leaves.                                                  *)

LEMMA RemoveBegins ==
  ASSUME NEW p \in Paths,
         \/ Begins("withdraw", RemoveCommands(p)) /\ call'.target = p
         \/ Begins("cleanup", RemoveCommands(p)) /\ call'.previous = p
  PROVE  RemoveInv'
<1>1. Subject' = p /\ Elements(call'.todo) = RemoveSet(p)
  BY RemoveList DEF Begins, Subject
<1> QED BY <1>1 DEF RemoveInv, RemoveSet, On

LEMMA RemoveStep ==
  ASSUME BaseInv, RemoveInv, [VppNext]_cvars
  PROVE  RemoveInv'
<1>0. TypeInv /\ CallInv /\ TodoInv /\ BaseInv'
  BY TypeStep DEF BaseInv
<1>1. ASSUME CommandStep PROVE RemoveInv'
  <2> SUFFICES ASSUME Dismantling', ~ call'.failed PROVE RemoveInv'
    BY DEF RemoveInv
  <2>1. /\ Subject' = Subject /\ Dismantling /\ Running
    BY <1>0, <1>1, CommandSame DEF CommandStep
  <2>2. PICK p : p = Subject
    OBVIOUS
  <2>3. PICK c : c = Command
    OBVIOUS
  <2>4. /\ ~ call.undoing /\ ~ call.failed /\ c \in RemoveSet(p) /\ c \in Commands /\ p \in Paths
        /\ Elements(call.todo) = {c} \cup Elements(Tail(call.todo))
    BY <1>0, <2>1, <2>2, <2>3, CommandOf, CommandLeft DEF TodoInv
  <2>5. c.op \in {"route_del", "gre_delete"}
    BY <2>4, RemoveShape
  <2>6. Done(c)
    <3>1. Broken(c) => call'.failed = TRUE
      BY <1>0, <2>3, <2>4, <2>5, CommandCalls DEF Broken
    <3> QED BY <1>1, <2>3, <3>1 DEF CommandStep
  <2>7. call'.todo = Tail(call.todo)
    BY <1>0, <2>6, CommandCalls DEF Done
  <2>8. Acting(c)
    BY <2>5 DEF Acting, Checks, Verifications, Superfluous
  <2>9. \/ vpp' = Effect(c) /\ Accepts(c)
        \/ vpp' = vpp /\ ~ Accepts(c)
    BY <2>5, <2>6 DEF Done, Superfluous, Passes, Verifications
  <2>a. /\ c.op = "route_del" => (Accepts(c) <=> c.on \in vpp.fib)
        /\ c.op = "gre_delete" => (Accepts(c) <=> "exists" \in vpp.gre[c.on])
    BY DEF Accepts, Present
  <2>10. ASSUME NEW r \in Elements(RoutesOf[p]), r \in vpp'.fib
         PROVE  Cmd("route_del", r) \in Elements(call'.todo)
    <3>1. r \in vpp.fib /\ c # Cmd("route_del", r)
      <4>1. CASE vpp' = Effect(c)
        BY <1>0, <2>4, <2>5, <2>8, <2>10, <4>1, Changes DEF Cmd
      <4>2. CASE vpp' = vpp /\ ~ Accepts(c)
        BY <2>10, <2>a, <4>2 DEF Cmd
      <4> QED BY <2>9, <4>1, <4>2
    <3>2. Cmd("route_del", r) \in Elements(call.todo)
      BY <2>1, <2>2, <2>4, <3>1 DEF RemoveInv
    <3> QED BY <2>4, <2>7, <3>1, <3>2
  <2>11. ASSUME NEW g \in Elements(GresOf[p]), vpp'.gre[g] # {}
         PROVE  Cmd("gre_delete", g) \in Elements(call'.todo)
    <3>0. g \in Gres
      BY <2>4, Constants
    <3>1. vpp.gre[g] # {} /\ c # Cmd("gre_delete", g)
      <4>1. CASE vpp' = Effect(c)
        <5>1. \A h \in Gres : h # c.on \/ c.op # "gre_delete" => vpp'.gre[h] = vpp.gre[h]
          BY <1>0, <2>4, <2>5, <2>8, <4>1, Changes
        <5>2. c.op = "gre_delete" => vpp'.gre[c.on] = {}
          BY <1>0, <2>4, <2>8, <4>1, Changes
        <5> QED BY <2>11, <3>0, <5>1, <5>2 DEF Cmd
      <4>2. CASE vpp' = vpp /\ ~ Accepts(c)
        <5>1. "exists" \in vpp.gre[g]
          BY <1>0, <2>11, <3>0, <4>2 DEF TypeInv, VppType
        <5> QED BY <2>11, <2>a, <4>2, <5>1 DEF Cmd
      <4> QED BY <2>9, <4>1, <4>2
    <3>2. Cmd("gre_delete", g) \in Elements(call.todo)
      BY <2>1, <2>2, <2>4, <3>1 DEF RemoveInv
    <3> QED BY <2>4, <2>7, <3>1, <3>2
  <2> QED BY <2>1, <2>2, <2>10, <2>11 DEF RemoveInv
<1>2. ASSUME ToWithdraw, call.phase # "idle" PROVE RemoveInv'
  BY <1>0, <1>2, SubjectPath, RemoveBegins DEF ToWithdraw, Same
<1>3. ASSUME Over PROVE RemoveInv'
  BY <1>3 DEF Over, RemoveInv, Dismantling
<1>4. ASSUME switch PROVE RemoveInv'
  <2>1. PICK key \in Keys : \E p \in Candidates[key] : SwitchTo(key, p)
    BY <1>0, <1>4, SwitchFacts
  <2>2. PICK p \in Candidates[key] : SwitchTo(key, p)
    BY <2>1
  <2>3. p \in Paths /\ call'.target = p
    BY <2>2, VppAssumption DEF SwitchTo
  <2>4. CASE Begins("commit", InstallCommands(p))
    BY <2>4 DEF RemoveInv, Dismantling, Begins
  <2>5. CASE Begins("withdraw", RemoveCommands(p))
    BY <2>3, <2>5, RemoveBegins
  <2> QED BY <2>2, <2>4, <2>5 DEF SwitchTo
<1>5. ASSUME commit PROVE RemoveInv'
  BY <1>0, <1>5, CommitFacts DEF RemoveInv, Dismantling
<1>6. ASSUME commit_fails PROVE RemoveInv'
  BY <1>0, <1>2, <1>6, CommitFailsFacts DEF RemoveInv, Dismantling, Begins
<1>7. ASSUME confirm PROVE RemoveInv'
  <2>1. call.phase = "confirm" /\ call.previous \in PathOrNone
    BY <1>0, <1>7, ConfirmFacts, SubjectPath
  <2>2. CASE call.previous # NoPath /\ Same /\ Begins("cleanup", RemoveCommands(call.previous))
    BY <2>1, <2>2, RemoveBegins DEF PathOrNone, Same
  <2> QED BY <1>0, <1>3, <1>7, <2>2, ConfirmFacts
<1>8. ASSUME cleanup PROVE RemoveInv'
  BY <1>0, <1>2, <1>3, <1>8, CleanupFacts
<1>9. ASSUME rollback PROVE RemoveInv'
  BY <1>0, <1>3, <1>9, RollbackFacts DEF RemoveInv, Dismantling, Begins
<1>10. ASSUME rollback_fails \/ rollback_completes PROVE RemoveInv'
  BY <1>0, <1>3, <1>10, RollbackFailsFacts, RollbackCompletesFacts
<1>11. ASSUME new_adapter \/ UNCHANGED cvars PROVE RemoveInv'
  <2>1. UNCHANGED <<vpp, call>>
    BY <1>11 DEF new_adapter, cvars
  <2> QED BY <2>1 DEF RemoveInv, Dismantling, Subject
<1> QED
  BY <1>1, <1>4, <1>5, <1>6, <1>7, <1>8, <1>9, <1>10, <1>11, CommandSteps DEF VppNext

\* At the end of a removal nothing of the path is there.
LEMMA RemovedAtEnd ==
  ASSUME RemoveInv, Dismantling, ~ call.failed, call.todo = <<>>
  PROVE  Gone(Subject)
<1>1. Elements(<<>>) = {}
  BY DEF Elements
<1> QED BY <1>1 DEF RemoveInv, Gone

-----------------------------------------------------------------------------
(* What VPP keeps.                                                         *)

LEMMA LeftOfFewer ==
  ASSUME NEW paths, NEW fewer, LeftOf(paths), \A p \in paths \ fewer : Gone(p)
  PROVE  LeftOf(fewer)
<1>1. ASSUME NEW r \in vpp.fib PROVE \E p \in fewer : r \in Elements(RoutesOf[p])
  <2>1. PICK p \in paths : r \in Elements(RoutesOf[p])
    BY DEF LeftOf
  <2>2. p \in fewer
    BY <2>1 DEF Gone
  <2> QED BY <2>1, <2>2
<1>2. ASSUME NEW g \in Gres, vpp.gre[g] # {} PROVE \E p \in fewer : g \in Elements(GresOf[p])
  <2>1. PICK p \in paths : g \in Elements(GresOf[p])
    BY <1>2 DEF LeftOf
  <2>2. p \in fewer
    BY <1>2, <2>1 DEF Gone
  <2> QED BY <2>1, <2>2
<1> QED BY <1>1, <1>2 DEF LeftOf

LEMMA LeftOfCommand ==
  ASSUME BaseInv, CommandStep, NEW paths, LeftOf(paths), Installing => Subject \in paths
  PROVE  LeftOf(paths)'
<1>0. TypeInv /\ CallInv /\ TodoInv /\ Running
  BY DEF BaseInv, CommandStep
<1>1. PICK c : c = Command
  OBVIOUS
<1>2. PICK p : p = Subject
  OBVIOUS
<1>3. /\ c \in Commands /\ p \in Paths
      /\ c.op \in {"route_add", "gre_create"} => Installing /\ c \in InstallSet(p)
  <2>1. c \in Commands /\ p \in Paths /\ (c \in RemoveSet(p) \/ (Installing /\ c \in InstallSet(p)))
    BY <1>0, <1>1, <1>2, CommandOf DEF TypeInv, CallType
  <2> QED BY <2>1, RemoveShape
<1>4. CASE vpp' = vpp
  BY <1>4 DEF LeftOf
<1>5. CASE Acting(c) /\ Accepts(c) /\ vpp' = Effect(c)
  <2>1. ASSUME NEW r \in vpp'.fib PROVE \E q \in paths : r \in Elements(RoutesOf[q])
    <3>1. r \in vpp.fib \/ (c.op = "route_add" /\ r = c.on)
      BY <1>0, <1>3, <1>5, Changes
    <3>2. c.op = "route_add" => c.on \in Elements(RoutesOf[p]) /\ p \in paths
      BY <1>2, <1>3, InstallShape
    <3> QED BY <3>1, <3>2 DEF LeftOf
  <2>2. ASSUME NEW g \in Gres, vpp'.gre[g] # {} PROVE \E q \in paths : g \in Elements(GresOf[q])
    <3>1. vpp.gre[g] # {} \/ (c.op = "gre_create" /\ g = c.on)
      <4>1. c.op \in {"gre_address", "gre_up"} => vpp.gre[c.on] # {}
        BY <1>5 DEF Accepts, Present
      <4>2. c.op = "gre_delete" => vpp'.gre[c.on] = {}
        BY <1>0, <1>3, <1>5, Changes
      <4>3. g # c.on \/ c.op \notin {"gre_create", "gre_address", "gre_up", "gre_delete"}
              => vpp'.gre[g] = vpp.gre[g]
        BY <1>0, <1>3, <1>5, Changes
      <4> QED BY <2>2, <4>1, <4>2, <4>3
    <3>2. c.op = "gre_create" => c.on \in Elements(GresOf[p]) /\ p \in paths
      BY <1>2, <1>3, InstallShape
    <3> QED BY <3>1, <3>2 DEF LeftOf
  <2> QED BY <2>1, <2>2 DEF LeftOf
<1> QED BY <1>1, <1>4, <1>5 DEF CommandStep, Done, Broken

\* A step that is no command leaves VPP as it is; the paths that are involved after it
\* are those before, but for paths that are gone.
LEMMA LeftOfOther ==
  ASSUME vpp' = vpp, LeftOf(Involved), \A p \in Involved : p \in Involved' \/ Gone(p)
  PROVE  LeftOf(Involved)'
<1>1. PICK more : more = Involved'
  OBVIOUS
<1>2. PICK paths : paths = Involved
  OBVIOUS
<1>3. LeftOf(more)
  BY <1>1, <1>2, LeftOfFewer
<1> QED BY <1>1, <1>3 DEF LeftOf

\* The transition goes on with the same paths.
LEMMA LeftGoesOn ==
  ASSUME BaseInv, LeftInv, BaseInv', vpp' = vpp, Same, littered' = littered,
         call.phase # "idle", torn' \subseteq torn \cup {call.key},
         \A key \in Keys \ {call.key} : applied'[key] = applied[key],
         call.phase \in {"commit", "confirm", "cleanup"},
         call'.phase \in {"commit", "confirm", "cleanup", "withdraw"}
  PROVE  LeftInv'
<1> SUFFICES ASSUME ~ littered PROVE LeftInv'
  BY DEF LeftInv
<1>1. \A p \in Involved : p \in Involved'
  BY DEF Involved, Same
<1>2. LeftOf(Involved)'
  BY <1>1, LeftOfOther DEF LeftInv
<1>3. torn' \subseteq {call'.key}
  BY DEF LeftInv, Same
<1> QED BY <1>2, <1>3 DEF LeftInv

\* The transition ends with one path of the key applied and the others gone.
LEMMA LeftEnds ==
  ASSUME BaseInv, LeftInv, vpp' = vpp, Over, call.key \in Keys, call.phase # "idle",
         \A key \in Keys \ {call.key} : applied'[key] = applied[key],
         \A p \in Involved : p = applied'[call.key] \/ Gone(p)
                             \/ \E key \in Keys \ {call.key} : p = applied[key]
  PROVE  LeftInv'
<1> SUFFICES ASSUME ~ littered' PROVE LeftInv'
  BY DEF LeftInv
<1>1. ~ littered /\ torn' = {} /\ call'.phase = "idle"
  BY DEF Over
<1>2. ASSUME NEW p \in Involved PROVE p \in Involved' \/ Gone(p)
  <2>1. p \in Paths
    BY DEF Involved
  <2>2. Involved' = {applied'[key] : key \in Keys} \cap Paths
    BY <1>1 DEF Involved
  <2> QED BY <2>1, <2>2
<1>3. LeftOf(Involved)'
  BY <1>1, <1>2, LeftOfOther DEF LeftInv
<1> QED BY <1>1, <1>3 DEF LeftInv

LEMMA LeftStep ==
  ASSUME BaseInv, RemoveInv, LeftInv, [VppNext]_cvars
  PROVE  LeftInv'
<1>0. TypeInv /\ CallInv /\ TodoInv /\ BaseInv'
  BY TypeStep DEF BaseInv
<1>1. applied \in [Keys -> PathOrNone]
  BY <1>0 DEF TypeInv
<1>2. ASSUME CommandStep PROVE LeftInv'
  <2> SUFFICES ASSUME ~ littered PROVE LeftInv'
    BY <1>0, <1>2, CommandSame DEF LeftInv
  <2>1. PICK paths : paths = Involved
    OBVIOUS
  <2>2. /\ Same /\ call'.phase = call.phase /\ UNCHANGED <<applied, torn, littered>>
        /\ Running
    BY <1>0, <1>2, CommandSame DEF CommandStep
  <2>3. Involved' = paths
    BY <2>1, <2>2 DEF Involved, Same
  <2>4. Installing => Subject \in paths
    <3>1. Subject \in Paths
      BY <1>0, <2>2, SubjectPath DEF Running
    <3> QED BY <2>1, <3>1 DEF Installing, Subject, Involved
  <2>5. LeftOf(paths)'
    BY <1>2, <2>1, <2>4, LeftOfCommand DEF LeftInv
  <2>6. LeftOf(Involved)'
    BY <2>3, <2>5 DEF LeftOf
  <2>7. torn' \subseteq (IF call'.phase = "idle" THEN {} ELSE {call'.key})
    BY <2>2 DEF LeftInv, Same
  <2> QED BY <2>6, <2>7 DEF LeftInv
<1>3. ASSUME switch PROVE LeftInv'
  <2> SUFFICES ASSUME ~ littered PROVE LeftInv'
    <3>1. littered' = littered
      BY <1>3 DEF switch
    <3> QED BY <3>1 DEF LeftInv
  <2>1. PICK key \in Keys : \E p \in Candidates[key] : SwitchTo(key, p)
    BY <1>0, <1>3, SwitchFacts
  <2>2. PICK p \in Candidates[key] : SwitchTo(key, p)
    BY <2>1
  <2>3. /\ call.phase = "idle" /\ call'.key = key /\ call'.previous = applied[key]
        /\ call'.phase \in {"commit", "withdraw"} /\ torn' \subseteq torn \cup {key}
        /\ UNCHANGED <<vpp, applied>>
    BY <2>2 DEF SwitchTo, Begins
  <2>4. \A q \in Involved : q \in Involved'
    BY <2>3 DEF Involved
  <2>5. LeftOf(Involved)'
    BY <2>3, <2>4, LeftOfOther DEF LeftInv
  <2>6. torn' \subseteq {call'.key}
    BY <2>3 DEF LeftInv
  <2> QED BY <2>3, <2>5, <2>6 DEF LeftInv
<1>4. ASSUME commit PROVE LeftInv'
  <2>1. /\ call.phase = "commit" /\ call'.phase = "confirm" /\ Same
        /\ applied' = [applied EXCEPT ![call.key] = call.target]
        /\ torn' = torn \ {call.key} /\ UNCHANGED <<vpp, littered>>
    BY <1>0, <1>4, CommitFacts
  <2>2. \A key \in Keys \ {call.key} : applied'[key] = applied[key]
    BY <1>1, <2>1
  <2> QED BY <1>0, <2>1, <2>2, LeftGoesOn
<1>5. ASSUME commit_fails PROVE LeftInv'
  <2>1. /\ call.phase = "commit" /\ call'.phase \in {"commit", "withdraw"} /\ Same
        /\ torn' \subseteq torn \cup {call.key} /\ UNCHANGED <<vpp, applied, littered>>
    BY <1>0, <1>5, CommitFailsFacts DEF ToWithdraw, Begins
  <2> QED BY <1>0, <2>1, LeftGoesOn
<1>6. ASSUME confirm PROVE LeftInv'
  <2>1. call.phase = "confirm" /\ UNCHANGED <<vpp, applied>>
    BY <1>0, <1>6, ConfirmFacts
  <2>2. CASE Same /\ call'.phase = "cleanup" /\ UNCHANGED <<torn, littered>>
    BY <1>0, <2>1, <2>2, LeftGoesOn
  <2>3. CASE call.previous = NoPath /\ Over
    <3>1. call.key \in Keys /\ applied[call.key] = call.target /\ NoPath \notin Paths
      BY <1>0, <2>1, VppAssumption DEF CallInv
    <3>2. \A p \in Involved :
            p = applied[call.key] \/ \E key \in Keys \ {call.key} : p = applied[key]
      BY <2>1, <2>3, <3>1 DEF Involved
    <3> QED BY <2>1, <2>3, <3>1, <3>2, LeftEnds
  <2> QED BY <1>0, <1>6, <2>2, <2>3, ConfirmFacts DEF Begins
<1>7. ASSUME cleanup PROVE LeftInv'
  <2>1. call.phase = "cleanup" /\ call.todo = <<>> /\ UNCHANGED <<vpp, applied>>
    BY <1>0, <1>7, CleanupFacts
  <2>2. CASE ToWithdraw
    BY <1>0, <2>1, <2>2, LeftGoesOn DEF ToWithdraw, Begins
  <2>3. CASE ~ call.failed /\ Over
    <3>1. call.key \in Keys /\ applied[call.key] = call.target /\ Gone(call.previous)
      <4>1. Subject = call.previous /\ Dismantling
        BY <2>1 DEF Subject, Dismantling
      <4> QED BY <1>0, <2>1, <2>3, <4>1, RemovedAtEnd DEF CallInv
    <3>2. \A p \in Involved : p = applied[call.key] \/ p = call.previous
                              \/ \E key \in Keys \ {call.key} : p = applied[key]
      BY <2>1, <3>1 DEF Involved
    <3> QED BY <2>1, <2>3, <3>1, <3>2, LeftEnds
  <2> QED BY <1>0, <1>7, <2>2, <2>3, CleanupFacts
<1>8. ASSUME rollback PROVE LeftInv'
  <2> SUFFICES ASSUME ~ littered' PROVE LeftInv'
    BY DEF LeftInv
  <2>1. /\ call.phase = "withdraw" /\ call.todo = <<>> /\ ~ call.failed
        /\ UNCHANGED <<vpp, applied, torn>> /\ call.key \in torn
    BY <1>0, <1>8, RollbackFacts DEF CallInv
  <2>2. ~ Over
    BY <2>1 DEF Over
  <2>3. /\ Same /\ call'.phase = "restore" /\ littered' = littered
    BY <1>0, <1>8, <2>2, RollbackFacts DEF Begins
  <2>4. Gone(call.target)
    <3>1. Subject = call.target /\ Dismantling
      BY <2>1 DEF Subject, Dismantling
    <3> QED BY <2>1, <3>1, RemovedAtEnd
  <2>5. \A p \in Involved : p \in Involved' \/ p = call.target
    BY <2>1, <2>3 DEF Involved, Same
  <2>6. LeftOf(Involved)'
    BY <2>1, <2>3, <2>4, <2>5, LeftOfOther DEF LeftInv
  <2>7. torn' \subseteq {call'.key}
    BY <2>1, <2>3 DEF LeftInv, Same
  <2> QED BY <2>3, <2>6, <2>7 DEF LeftInv
<1>9. ASSUME rollback_fails PROVE LeftInv'
  <2>1. littered'
    BY <1>0, <1>9, RollbackFailsFacts DEF Over, CallInv
  <2> QED BY <2>1 DEF LeftInv
<1>10. ASSUME rollback_completes PROVE LeftInv'
  <2>1. /\ call.phase = "restore" /\ vpp' = vpp /\ Over
        /\ applied' = [applied EXCEPT ![call.key] = call.previous]
    BY <1>0, <1>10, RollbackCompletesFacts
  <2>2. call.key \in Keys
    BY <1>0, <2>1 DEF CallInv
  <2>3. /\ \A key \in Keys \ {call.key} : applied'[key] = applied[key]
        /\ applied'[call.key] = call.previous
    BY <1>1, <2>1, <2>2
  <2>4. \A p \in Involved :
          p = call.previous \/ \E key \in Keys \ {call.key} : p = applied[key]
    BY <2>1 DEF Involved
  <2> QED BY <2>1, <2>2, <2>3, <2>4, LeftEnds
<1>11. ASSUME new_adapter \/ UNCHANGED cvars PROVE LeftInv'
  <2>1. UNCHANGED <<vpp, call, applied, torn, littered>>
    BY <1>11 DEF new_adapter, cvars
  <2> QED BY <2>1 DEF LeftInv, LeftOf, Involved
<1> QED
  BY <1>2, <1>3, <1>4, <1>5, <1>6, <1>7, <1>8, <1>9, <1>10, <1>11, CommandSteps DEF VppNext

LEMMA LeftInit ==
  ASSUME VppInit
  PROVE  RemoveInv /\ LeftInv
<1>1. /\ call.phase = "idle" /\ vpp.fib = {} /\ torn = {}
      /\ \A g \in Gres : vpp.gre[g] = {}
  BY DEF VppInit, Idle
<1> QED BY <1>1 DEF RemoveInv, LeftInv, LeftOf, Dismantling

\* As long as every rollback completed, VPP has no routes and GRE tunnels but those of
\* the applied paths, however many commands failed, with or without their effect
\* (remove_vpp_gre_tunnels, the undo of ensure_vpp_gre_tunnels).
THEOREM VppLeavesNothing == VppSpec => []NothingLeft
<1>1. VppInit => RemoveInv /\ LeftInv
  BY LeftInit
<1>2. BaseInv /\ RemoveInv /\ LeftInv /\ [VppNext]_cvars => (RemoveInv /\ LeftInv)'
  BY RemoveStep, LeftStep
<1>3. BaseInv /\ LeftInv => NothingLeft
  <2> SUFFICES ASSUME LeftInv, call.phase = "idle", ~ littered PROVE NothingLeft
    BY DEF NothingLeft
  <2>1. LeftOf({applied[key] : key \in Keys} \cap Paths)
    BY DEF LeftInv, Involved
  <2> QED BY <2>1 DEF NothingLeft, LeftOf
<1> QED BY <1>1, <1>2, <1>3, VppTyping, PTL DEF VppSpec

-----------------------------------------------------------------------------
(* One failure.                                                            *)

\* The failures are counted, and what vppctl reports does not change.
LEMMA FaultsGrow ==
  ASSUME BaseInv, [VppNext]_cvars
  PROVE  reports_refusals' = reports_refusals /\ faults' \in {faults, faults + 1} /\ faults \in Nat
<1>0. TypeInv /\ CallInv /\ faults \in Nat
  BY DEF BaseInv, TypeInv
<1>1. ASSUME CommandStep PROVE reports_refusals' = reports_refusals /\ faults' \in {faults, faults + 1}
  BY <1>1 DEF CommandStep, Rest, Done, Broken
<1>2. CASE switch
  <2>1. PICK key \in Keys : \E p \in Candidates[key] : SwitchTo(key, p)
    BY <1>0, <1>2, SwitchFacts
  <2>2. PICK p \in Candidates[key] : SwitchTo(key, p)
    BY <2>1
  <2> QED BY <1>0, <2>2 DEF SwitchTo
<1>3. CASE commit \/ commit_fails \/ confirm
  BY <1>0, <1>3, CommitFacts, CommitFailsFacts, ConfirmFacts
<1>4. CASE cleanup
  BY <1>0, <1>4, CleanupFacts
<1>5. CASE rollback \/ rollback_fails \/ rollback_completes
  BY <1>0, <1>5, RollbackFacts, RollbackFailsFacts, RollbackCompletesFacts
<1>6. CASE new_adapter \/ UNCHANGED cvars
  BY <1>0, <1>6 DEF new_adapter, cvars
<1> QED BY <1>0, <1>1, <1>2, <1>3, <1>4, <1>5, <1>6, CommandSteps DEF VppNext

\* Nothing stops a transition of an unhindered key but a failure or a refusal.
LEMMA Unstopped ==
  ASSUME BaseInv, InstallInv, Running, ~ call.failed, Unhindered(call.key),
         Broken(Command), faults' = faults
  PROVE  Acting(Command) /\ ~ Accepts(Command) /\ reports_refusals
<1>0. TypeInv /\ CallInv /\ faults # faults + 1
  BY DEF BaseInv, TypeInv
<1>1. PICK c : c = Command
  OBVIOUS
<1>2. PICK p : p = Subject
  OBVIOUS
<1>3. p \in Candidates[call.key] /\ p \in Paths /\ call.key \in Keys
  BY <1>0, <1>2, SubjectPath DEF Running
<1>4. CASE Dismantling
  <2>1. c.op \in {"route_del", "gre_delete"}
    BY <1>1, <1>2, <1>3, <1>4, CommandOf, RemoveShape
  <2> QED BY <1>0, <1>1, <2>1 DEF Broken, Checks, Verifications
<1>5. CASE Installing
  <2>1. Provided(p)
    BY <1>3 DEF Unhindered, Apart, TablesKnown, Provided, Own
  <2>2. c \in InstallSet(p) /\ Progress(call.todo, p)
    BY <1>1, <1>2, <1>5, <2>1, CommandOf DEF InstallInv
  <2>3. Needs(c, p) \subseteq MadeOf(p)
    <3>1. call.todo \in Seq(Commands) /\ call.todo # <<>> /\ c = Head(call.todo)
      BY <1>0, <1>1, CommandLeft DEF Command
    <3> QED BY <2>2, <3>1, HeadSupplied DEF Progress
  <2>4. ASSUME c.op \in Checks PROVE Passes(c)
    <3>1. /\ c.op = "vlan_allowed" => c.on \in Elements(EdgesOf[p])
          /\ c.op = "acl_set" => Deny
      BY <1>3, <2>2, InstallShape
    <3>2. HasVlan /\ ~ Deny /\ Elements(EdgesOf[p]) \cap VlanRefused = {}
      BY <1>3 DEF Unhindered, Admitted
    <3> QED BY <2>4, <3>1, <3>2 DEF Checks, Passes
  <2>5. ASSUME NEW d \in Needs(c, p) PROVE Made(d)
    BY <2>3 DEF MadeOf
  <2>6. ASSUME c.op \in Verifications PROVE Verified(c)
    <3>1. CASE c.op = "verify_route"
      <4>1. Made(Cmd("route_add", c.on)) /\ (Via[c.on] # NoGre => Made(Cmd("gre_up", Via[c.on])))
        BY <2>5, <3>1 DEF Needs
      <4> QED BY <3>1, <4>1 DEF Made, Cmd, Verified
    <3>2. CASE c.op = "verify_gre"
      <4>1. Made(Cmd("gre_up", c.on))
        BY <2>5, <3>2 DEF Needs
      <4> QED BY <3>2, <4>1 DEF Made, Cmd, Verified
    <3>3. CASE c.op = "verify_sub"
      <4>1. Made(Cmd("sub_up", c.on))
        BY <2>5, <3>3 DEF Needs
      <4> QED BY <3>3, <4>1 DEF Made, Cmd, Verified
    <3> QED BY <2>6, <3>1, <3>2, <3>3 DEF Verifications
  <2>7. ~ Ambiguous(c)
    <3> SUFFICES ASSUME c.op = "verify_route", NEW r \in vpp.fib, Dest[r] = Dest[c.on]
                 PROVE  r = c.on
      BY DEF Ambiguous
    <3>1. PICK q \in Paths : r \in Elements(RoutesOf[q])
      BY <1>0 DEF TypeInv, VppType
    <3>2. c.on \in Elements(RoutesOf[p])
      BY <1>3, <2>2, InstallShape
    <3>3. PICK i \in DOMAIN RoutesOf[p] : c.on = RoutesOf[p][i]
      BY <3>2 DEF Elements
    <3>4. PICK j \in DOMAIN RoutesOf[q] : r = RoutesOf[q][j]
      BY <3>1 DEF Elements
    <3>5. p = q /\ i = j
      BY <1>3, <3>3, <3>4 DEF Unhindered, ToldApart
    <3> QED BY <3>3, <3>4, <3>5
  <2> QED BY <1>0, <1>1, <2>4, <2>6, <2>7 DEF Broken
<1> QED BY <1>4, <1>5, CommandOf

\* An unhindered key is installed unless it is being switched, and a transition that
\* has failed, or is taking back, had its failure: taking back goes on.
OneFor(key) ==
  /\ applied[key] # NoPath /\ Settled(key) => Installed(applied[key])
  /\ key = call.key =>
       /\ call.phase \in {"withdraw", "restore"} => faults = 1 /\ ~ call.failed
       /\ call.phase \in {"commit", "cleanup"} /\ call.failed => faults = 1

\* With one failure at most and a vppctl that does not report refusals.
OneInv ==
  ~ reports_refusals /\ faults <= 1 =>
    \A key \in Keys : Unhindered(key) => OneFor(key)

LEMMA OneCommand ==
  ASSUME BaseInv, InstallInv, CommandStep, ~ reports_refusals, faults' <= 1,
         NEW key \in Keys, Unhindered(key), OneFor(key)
  PROVE  OneFor(key)'
<1>0. TypeInv /\ CallInv /\ TodoInv /\ Running /\ faults \in Nat
  BY DEF BaseInv, TypeInv, CommandStep
<1>1. /\ Same /\ call'.phase = call.phase /\ UNCHANGED <<applied, torn>>
  BY <1>0, CommandSame
<1>2. PICK q : q = applied[key]
  OBVIOUS
<1>3. applied'[key] # NoPath /\ Settled(key)' => Installed(q)'
  BY <1>1, <1>2, AppliedCommand DEF Unhindered, OneFor, Settled, Same
<1>4. ASSUME key = call.key, ~ call.failed, call'.failed
      PROVE  faults' = faults + 1
  <2>1. Broken(Command)
    BY <1>0, <1>4, CommandCalls DEF CommandStep, Done
  <2>2. faults' = faults => reports_refusals
    BY <1>0, <1>4, <2>1, Unstopped
  <2> QED BY <2>1, <2>2 DEF Broken
<1>5. faults' \in {faults, faults + 1}
  BY DEF CommandStep, Done, Broken
<1>6. key = call.key =>
        /\ call.phase \in {"withdraw", "restore"} => faults' = 1 /\ ~ call'.failed
        /\ call.phase \in {"commit", "cleanup"} /\ call'.failed => faults' = 1
  BY <1>0, <1>4, <1>5 DEF OneFor
<1> QED BY <1>1, <1>2, <1>3, <1>6 DEF OneFor, Same

\* The transition goes on, or another one begins, and what fails in it is counted.
LEMMA OneStep ==
  ASSUME BaseInv, InstallInv, OneInv, [VppNext]_cvars
  PROVE  OneInv'
<1>0. TypeInv /\ CallInv /\ BaseInv'
  BY TypeStep DEF BaseInv
<1> SUFFICES ASSUME ~ reports_refusals', faults' <= 1, NEW key \in Keys, Unhindered(key)
             PROVE  OneFor(key)'
  BY DEF OneInv, Unhindered, Apart, OtherPaths, TablesKnown, TableKnown, Admitted, ToldApart
<1>1. ~ reports_refusals /\ faults' \in {faults, faults + 1} /\ faults \in Nat
  BY <1>0, FaultsGrow
<1>2. faults <= 1 /\ (faults = 1 => faults' = 1)
  BY <1>1
<1>3. OneFor(key)
  BY <1>1, <1>2 DEF OneInv
<1>4. CASE CommandStep
  BY <1>1, <1>3, <1>4, OneCommand
<1>5. CASE ~ CommandStep
  <2>1. PICK q : q = applied'[key]
    OBVIOUS
  <2>2. ASSUME q # NoPath, Settled(key)' PROVE Installed(q)'
    <3>1. vpp' = vpp
      BY <1>5, <2>2, AppliedSteps
    <3>2. CASE applied'[key] = applied[key] /\ Settled(key)
      BY <1>3, <2>1, <2>2, <3>1, <3>2, InstalledKept DEF OneFor
    <3>3. CASE key = call.key /\ applied'[key] = applied[key] /\ rollback
      <4>1. /\ call.phase = "withdraw"
            /\ \/ call.previous = NoPath
               \/ Same /\ call'.phase = "restore"
        BY <1>0, <3>3, RollbackFacts DEF Begins
      <4>2. call.previous = NoPath
        BY <2>2, <3>3, <4>1 DEF Settled, Same
      <4> QED BY <1>0, <2>1, <2>2, <3>3, <4>1, <4>2 DEF CallInv
    <3>4. CASE key = call.key /\ rollback_fails
      <4>1. /\ call.phase \in {"withdraw", "restore"}
            /\ \/ call.failed
               \/ faults' = faults + 1
        BY <1>0, <3>4, RollbackFailsFacts
      <4>2. faults = 1 /\ ~ call.failed
        BY <1>3, <3>4, <4>1 DEF OneFor
      <4> QED BY <1>2, <4>1, <4>2
    <3>5. CASE key = call.key /\ commit /\ applied'[key] = call.target
      <4>1. /\ Installing /\ ~ call.failed /\ call.todo = <<>> /\ q = Subject
            /\ call.phase = "commit"
        BY <1>0, <2>1, <3>5, CommitFacts DEF Installing, Subject
      <4>2. q \in Candidates[key]
        BY <1>0, <2>1, <3>5, <4>1 DEF CallInv
      <4>3. Provided(q)
        BY <4>2 DEF Unhindered, Apart, TablesKnown, Provided, Own
      <4> QED BY <3>1, <4>1, <4>3, InstalledAtEnd, InstalledKept
    <3>6. CASE key = call.key /\ rollback_completes /\ applied'[key] = call.previous
      <4>1. /\ Installing /\ ~ call.failed /\ call.todo = <<>> /\ q = Subject
            /\ call.phase = "restore"
        BY <1>0, <2>1, <3>6, RollbackCompletesFacts DEF Installing, Subject
      <4>2. q \in Candidates[key]
        BY <1>0, <2>1, <2>2, <3>6, <4>1 DEF CallInv
      <4>3. Provided(q)
        BY <4>2 DEF Unhindered, Apart, TablesKnown, Provided, Own
      <4> QED BY <3>1, <4>1, <4>3, InstalledAtEnd, InstalledKept
    <3> QED BY <1>5, <2>2, <3>2, <3>3, <3>4, <3>5, <3>6, AppliedSteps
  <2>3. ASSUME key = call'.key
        PROVE  /\ call'.phase \in {"withdraw", "restore"} => faults' = 1 /\ ~ call'.failed
               /\ call'.phase \in {"commit", "cleanup"} /\ call'.failed => faults' = 1
    <3>1. CASE switch
      <4>1. PICK other \in Keys : \E p \in Candidates[other] : SwitchTo(other, p)
        BY <1>0, <3>1, SwitchFacts
      <4>2. PICK p \in Candidates[other] : SwitchTo(other, p)
        BY <4>1
      <4>3. \/ call'.phase = "commit" /\ call'.failed = FALSE
            \/ call'.phase = "withdraw" /\ call'.failed = FALSE /\ faults' = faults + 1
        BY <4>2 DEF SwitchTo, Begins
      <4>4. faults' = faults + 1 => faults' = 1
        BY <1>1
      <4> QED BY <4>3, <4>4
    <3>2. CASE commit
      BY <1>0, <3>2, CommitFacts
    <3>3. CASE commit_fails
      <4>1. /\ call.phase = "commit" /\ call.failed /\ Same /\ ~ call'.failed
        BY <1>0, <3>3, CommitFailsFacts DEF ToWithdraw, Begins
      <4> QED BY <1>2, <1>3, <2>3, <4>1 DEF OneFor, Same
    <3>4. CASE confirm
      BY <1>0, <3>4, ConfirmFacts DEF Over, Begins
    <3>5. CASE cleanup
      <4>1. /\ call.phase = "cleanup"
            /\ \/ call'.phase = "idle"
               \/ /\ Same /\ ~ call'.failed /\ call'.phase = "withdraw"
                  /\ faults' = faults + 1 \/ call.failed
        BY <1>0, <3>5, CleanupFacts DEF Over, ToWithdraw, Begins
      <4>2. CASE faults' = faults + 1 /\ Same /\ ~ call'.failed
        BY <1>1, <1>2, <4>2
      <4>3. CASE call.failed /\ Same /\ ~ call'.failed
        <5>1. faults = 1
          BY <1>3, <2>3, <4>1, <4>3 DEF OneFor, Same
        <5> QED BY <1>2, <4>3, <5>1
      <4> QED BY <4>1, <4>2, <4>3
    <3>6. CASE rollback
      <4>1. /\ call.phase = "withdraw"
            /\ \/ call'.phase = "idle"
               \/ Same /\ ~ call'.failed /\ call'.phase = "restore"
        BY <1>0, <3>6, RollbackFacts DEF Over, Begins
      <4> QED BY <1>2, <1>3, <2>3, <4>1 DEF OneFor, Same
    <3>7. CASE rollback_fails \/ rollback_completes
      BY <1>0, <3>7, RollbackFailsFacts, RollbackCompletesFacts DEF Over
    <3>8. CASE new_adapter \/ UNCHANGED cvars
      <4>1. UNCHANGED <<call, faults>>
        BY <3>8 DEF new_adapter, cvars
      <4> QED BY <1>3, <2>3, <4>1 DEF OneFor
    <3> QED
      BY <1>5, <3>1, <3>2, <3>3, <3>4, <3>5, <3>6, <3>7, <3>8, CommandSteps DEF VppNext
  <2> QED BY <2>1, <2>2, <2>3 DEF OneFor
<1> QED BY <1>4, <1>5

\* One failure, wherever it happens, never leaves an unhindered key without forwarding,
\* if vppctl accepts that what a rollback removes or makes is absent or there already
\* (rollback).
THEOREM VppOneFailure == VppSpec => []OneFailureRestores
<1>1. VppInit => OneInv
  BY DEF VppInit, OneInv, OneFor, Idle
<1>2. BaseInv /\ InstallInv /\ OneInv /\ [VppNext]_cvars => OneInv'
  BY OneStep
<1>3. BaseInv /\ OneInv => OneFailureRestores
  <2> SUFFICES ASSUME BaseInv, OneInv, call.phase = "idle", faults <= 1, ~ reports_refusals,
                      NEW key \in Keys, applied[key] # NoPath, Unhindered(key)
               PROVE  Forwards(applied[key])
    BY DEF OneFailureRestores
  <2>1. PICK p : p = applied[key]
    OBVIOUS
  <2>2. Installed(p)
    BY <2>1 DEF OneInv, OneFor, Settled
  <2>3. p \in Candidates[key] /\ p \in Paths /\ TypeInv
    BY <2>1, VppAssumption DEF BaseInv, TypeInv
  <2>4. Own(p)
    BY <2>3 DEF Unhindered, Apart, Own
  <2> QED BY <2>1, <2>2, <2>3, <2>4, InstalledForwards
<1> QED BY <1>1, <1>2, <1>3, VppInstalls, PTL DEF VppSpec

-----------------------------------------------------------------------------
(* No failure.                                                             *)

\* A list goes on with other operations.
LEMMA OnceAppended ==
  ASSUME NEW S, NEW s \in Seq(S), NEW u \in Seq(S), NEW o, Once(o, s),
         \A c \in Elements(u) : c.op # o
  PROVE  s \o u \in Seq(S) /\ Once(o, s \o u)
<1>1. /\ s \o u \in Seq(S) /\ DOMAIN (s \o u) = 1 .. Len(s) + Len(u)
      /\ DOMAIN s = 1 .. Len(s) /\ DOMAIN u = 1 .. Len(u) /\ Len(s) \in Nat /\ Len(u) \in Nat
      /\ \A i \in 1 .. Len(s) : (s \o u)[i] = s[i]
      /\ \A i \in 1 .. Len(s) + Len(u) : i > Len(s) => (s \o u)[i] = u[i - Len(s)]
  BY ConcatProperties
<1>2. ASSUME NEW i \in 1 .. Len(s) + Len(u), (s \o u)[i].op = o
      PROVE  i \in DOMAIN s /\ (s \o u)[i] = s[i]
  <2>1. ASSUME i > Len(s) PROVE FALSE
    <3>1. i - Len(s) \in DOMAIN u /\ (s \o u)[i] = u[i - Len(s)]
      BY <1>1, <2>1
    <3> QED BY <1>2, <3>1 DEF Elements
  <2> QED BY <1>1, <2>1
<1> QED BY <1>1, <1>2 DEF Once

\* A list begins with other operations.
LEMMA OncePrepended ==
  ASSUME NEW S, NEW s \in Seq(S), NEW u \in Seq(S), NEW o, Once(o, u),
         \A c \in Elements(s) : c.op # o
  PROVE  Once(o, s \o u)
<1>1. /\ DOMAIN (s \o u) = 1 .. Len(s) + Len(u)
      /\ DOMAIN s = 1 .. Len(s) /\ DOMAIN u = 1 .. Len(u) /\ Len(s) \in Nat /\ Len(u) \in Nat
      /\ \A i \in 1 .. Len(s) : (s \o u)[i] = s[i]
      /\ \A i \in 1 .. Len(s) + Len(u) : i > Len(s) => (s \o u)[i] = u[i - Len(s)]
  BY ConcatProperties
<1>2. ASSUME NEW i \in 1 .. Len(s) + Len(u), (s \o u)[i].op = o
      PROVE  i - Len(s) \in DOMAIN u /\ (s \o u)[i] = u[i - Len(s)] /\ i > Len(s)
  <2>1. ASSUME i <= Len(s) PROVE FALSE
    <3>1. i \in DOMAIN s /\ (s \o u)[i] = s[i]
      BY <1>1, <2>1
    <3> QED BY <1>2, <3>1 DEF Elements
  <2> QED BY <1>1, <2>1
<1>3. ASSUME NEW i \in 1 .. Len(s) + Len(u), NEW j \in 1 .. Len(s) + Len(u),
             (s \o u)[i].op = o, (s \o u)[i] = (s \o u)[j]
      PROVE  i = j
  <2>1. i - Len(s) = j - Len(s)
    BY <1>2, <1>3 DEF Once
  <2> QED BY <1>1, <2>1
<1> QED BY <1>1, <1>3 DEF Once

LEMMA OnceTail ==
  ASSUME NEW S, NEW s \in Seq(S), s # <<>>, NEW o, Once(o, s)
  PROVE  Once(o, Tail(s)) /\ (Head(s).op = o => Head(s) \notin Elements(Tail(s)))
<1>1. /\ Len(s) \in Nat /\ Len(s) > 0 /\ DOMAIN s = 1 .. Len(s) /\ Head(s) = s[1]
      /\ DOMAIN Tail(s) = 1 .. Len(s) - 1 /\ \A i \in 1 .. Len(s) - 1 : Tail(s)[i] = s[i + 1]
  BY HeadTailProperties, LenProperties, EmptySeq
<1>2. ASSUME NEW i \in DOMAIN Tail(s) PROVE i + 1 \in DOMAIN s /\ i + 1 # 1 /\ i \in Nat
  BY <1>1
<1>3. 1 \in DOMAIN s
  BY <1>1
<1>4. ASSUME NEW i \in DOMAIN Tail(s), NEW j \in DOMAIN Tail(s),
             Tail(s)[i].op = o, Tail(s)[i] = Tail(s)[j]
      PROVE  i = j
  <2>1. i + 1 = j + 1
    BY <1>1, <1>2, <1>4 DEF Once
  <2> QED BY <1>2, <2>1
<1>5. ASSUME Head(s).op = o, Head(s) \in Elements(Tail(s)) PROVE FALSE
  <2>1. PICK i \in DOMAIN Tail(s) : Tail(s)[i] = Head(s)
    BY <1>5 DEF Elements
  <2>2. s[i + 1] = s[1] /\ s[1].op = o
    BY <1>1, <1>5, <2>1
  <2>3. 1 = i + 1
    BY <1>2, <1>3, <2>2 DEF Once
  <2> QED BY <1>2, <2>3
<1> QED BY <1>4, <1>5 DEF Once

LEMMA OnceEach ==
  ASSUME NEW S, NEW s \in Seq(S), NEW o, NoneTwice(s)
  PROVE  Once(o, Each(<<o>>, s))
<1> DEFINE e == Each(<<o>>, s)
<1>1. DOMAIN e = DOMAIN s /\ \A i \in DOMAIN s : e[i] = Cmd(o, s[i])
  BY EachOne
<1> HIDE DEF e
<1>2. ASSUME NEW i \in DOMAIN s, NEW j \in DOMAIN s, e[i] = e[j]
      PROVE  i = j
  <2>1. Cmd(o, s[i]).on = Cmd(o, s[j]).on
    BY <1>1, <1>2
  <2>2. s[i] = s[j]
    BY <2>1 DEF Cmd
  <2> QED BY <2>2 DEF NoneTwice
<1>3. Once(o, e)
  BY <1>1, <1>2 DEF Once
<1> QED BY <1>3 DEF e

LEMMA OnceEachThree ==
  ASSUME NEW S, NEW s \in Seq(S), NEW a, NEW b, NEW c, a # b, a # c, NoneTwice(s)
  PROVE  Once(a, Each(<<a, b, c>>, s))
<1> DEFINE e == Each(<<a, b, c>>, s)
<1>1. Len(s) \in Nat /\ DOMAIN s = 1 .. Len(s)
  OBVIOUS
<1>2. /\ DOMAIN e = 1 .. 3 * Len(s)
      /\ \A m \in 1 .. Len(s) :
           /\ e[3 * m - 2] = Cmd(a, s[m]) /\ e[3 * m - 1] = Cmd(b, s[m])
           /\ e[3 * m] = Cmd(c, s[m])
  BY EachThree
<1> HIDE DEF e
<1>3. ASSUME NEW i \in DOMAIN e, e[i].op = a
      PROVE  \E m \in 1 .. Len(s) : i = 3 * m - 2
  <2>1. PICK m \in 1 .. Len(s) : i \in {3 * m - 2, 3 * m - 1, 3 * m}
    BY <1>1, <1>2, ThreePlaces
  <2>2. Cmd(b, s[m]).op = b /\ Cmd(c, s[m]).op = c
    BY DEF Cmd
  <2>3. e[3 * m - 1].op = b /\ e[3 * m].op = c
    BY <1>2, <2>2
  <2> QED BY <1>3, <2>1, <2>3
<1>4. ASSUME NEW i \in DOMAIN e, NEW j \in DOMAIN e, e[i].op = a, e[i] = e[j]
      PROVE  i = j
  <2>1. PICK m \in 1 .. Len(s) : i = 3 * m - 2
    BY <1>3, <1>4
  <2>2. PICK n \in 1 .. Len(s) : j = 3 * n - 2
    BY <1>3, <1>4
  <2>3. s[m] = s[n]
    <3>1. Cmd(a, s[m]).on = Cmd(a, s[n]).on
      BY <1>2, <1>4, <2>1, <2>2
    <3> QED BY <3>1 DEF Cmd
  <2>4. m = n
    BY <1>1, <2>3 DEF NoneTwice
  <2> QED BY <2>1, <2>2, <2>4
<1>5. Once(a, e)
  BY <1>4 DEF Once
<1> QED BY <1>5 DEF e

LEMMA ReversedOnce ==
  ASSUME NEW S, NEW s \in Seq(S), NoneTwice(s)
  PROVE  NoneTwice(Reversed(s))
<1>1. Len(s) \in Nat /\ DOMAIN s = 1 .. Len(s)
  OBVIOUS
<1>2. /\ DOMAIN Reversed(s) = 1 .. Len(s)
      /\ \A i \in 1 .. Len(s) : Reversed(s)[i] = s[1 + Len(s) - i] /\ 1 + Len(s) - i \in DOMAIN s
  BY <1>1 DEF Reversed
<1>3. ASSUME NEW i \in 1 .. Len(s), NEW j \in 1 .. Len(s), Reversed(s)[i] = Reversed(s)[j]
      PROVE  i = j
  <2>1. 1 + Len(s) - i = 1 + Len(s) - j
    BY <1>2, <1>3 DEF NoneTwice
  <2> QED BY <1>1, <2>1
<1> QED BY <1>2, <1>3 DEF NoneTwice

\* An installation creates each GRE tunnel once.
LEMMA InstallOnce ==
  ASSUME NEW p \in Paths
  PROVE  Once("gre_create", InstallCommands(p))
<1> DEFINE a == GreCommands(p)
           b == VlanCommands(p)
           c == AclCommands(p)
           d == TableCommands(p)
           e == Each(<<"route_add">>, RoutesOf[p])
           f == VerifyCommands(p)
           S == InstallSet(p)
<1>1. /\ Part(a, GreSet(p), {}, p) /\ Part(b, VlanSet(p), {}, p) /\ Part(c, AclSet(p), {}, p)
      /\ Part(d, TableSet(p), VlanSet(p), p)
      /\ Part(e, RouteSet(p), GreSet(p) \cup TableSet(p), p)
      /\ Part(f, VerifySet(p), GreSet(p) \cup VlanSet(p) \cup RouteSet(p), p)
  BY GreList, VlanList, AclList, TableList, RouteList, VerifyList
<1>2. Once("gre_create", a)
  <2>1. GresOf[p] \in Seq(Gres) /\ NoneTwice(GresOf[p])
    BY VppAssumption
  <2> QED BY <2>1, OnceEachThree DEF GreCommands
<1>3. \A x \in VlanSet(p) \cup AclSet(p) \cup TableSet(p) \cup RouteSet(p) \cup VerifySet(p) :
        x.op # "gre_create"
  BY DEF VlanSet, AclSet, TableSet, RouteSet, VerifySet, On, Cmd
<1>4. GreSet(p) \subseteq S /\ VlanSet(p) \subseteq S /\ AclSet(p) \subseteq S
      /\ TableSet(p) \subseteq S /\ RouteSet(p) \subseteq S /\ VerifySet(p) \subseteq S
  BY DEF InstallSet
<1> HIDE DEF a, b, c, d, e, f, S
<1>5. /\ a \in Seq(S) /\ b \in Seq(S) /\ c \in Seq(S) /\ d \in Seq(S) /\ e \in Seq(S)
      /\ f \in Seq(S)
  BY <1>1, <1>4 DEF Part
<1>6. \A s \in {b, c, d, e, f} : \A x \in Elements(s) : x.op # "gre_create"
  BY <1>1, <1>3 DEF Part
<1>7. a \o b \in Seq(S) /\ Once("gre_create", a \o b)
  BY <1>2, <1>5, <1>6, OnceAppended
<1>8. (a \o b) \o c \in Seq(S) /\ Once("gre_create", (a \o b) \o c)
  BY <1>5, <1>6, <1>7, OnceAppended
<1>9. ((a \o b) \o c) \o d \in Seq(S) /\ Once("gre_create", ((a \o b) \o c) \o d)
  BY <1>5, <1>6, <1>8, OnceAppended
<1>10. /\ (((a \o b) \o c) \o d) \o e \in Seq(S)
       /\ Once("gre_create", (((a \o b) \o c) \o d) \o e)
  BY <1>5, <1>6, <1>9, OnceAppended
<1>11. Once("gre_create", ((((a \o b) \o c) \o d) \o e) \o f)
  BY <1>5, <1>6, <1>10, OnceAppended
<1> QED BY <1>11 DEF InstallCommands, a, b, c, d, e, f

\* A removal deletes each route and each GRE tunnel once.
LEMMA RemoveOnce ==
  ASSUME NEW p \in Paths, NoneTwice(RoutesOf[p])
  PROVE  Once("route_del", RemoveCommands(p)) /\ Once("gre_delete", RemoveCommands(p))
<1> DEFINE t == Reversed(GresOf[p])
           s == Each(<<"route_del">>, RoutesOf[p])
           u == Each(<<"gre_delete">>, t)
<1>1. /\ RoutesOf[p] \in Seq(Routes) /\ GresOf[p] \in Seq(Gres) /\ NoneTwice(GresOf[p])
  BY VppAssumption
<1>2. t \in Seq(Gres) /\ Elements(t) = Elements(GresOf[p]) /\ NoneTwice(t)
  BY <1>1, ReversedElements, ReversedOnce
<1> HIDE DEF t
<1>3. Once("route_del", s) /\ Once("gre_delete", u)
  BY <1>1, <1>2, OnceEach
<1>4. /\ Elements(s) = On("route_del", Elements(RoutesOf[p]))
      /\ Elements(u) = On("gre_delete", Elements(GresOf[p]))
  BY <1>1, <1>2, EachElementsOne
<1>5. s \in Seq(RemoveSet(p)) /\ u \in Seq(RemoveSet(p))
  BY <1>1, <1>2, <1>4, EachSeq DEF RemoveSet
<1>6. /\ \A c \in Elements(s) : c.op # "gre_delete"
      /\ \A c \in Elements(u) : c.op # "route_del"
  BY <1>4 DEF On, Cmd
<1> HIDE DEF s, u
<1>7. Once("route_del", s \o u) /\ Once("gre_delete", s \o u)
  BY <1>3, <1>5, <1>6, OnceAppended, OncePrepended
<1> QED BY <1>7 DEF RemoveCommands, s, t, u

\* Commands for another path change neither the routes nor the GRE tunnels of a path of
\* a key that is apart.
LEMMA Untouched ==
  ASSUME TypeInv, NEW key \in Keys, NEW q \in Candidates[key], Apart(key),
         NEW other \in Keys, NEW p \in Candidates[other], other # key \/ p # q,
         NEW c, c \in InstallSet(p) \/ c \in RemoveSet(p),
         vpp' = vpp \/ (Acting(c) /\ Accepts(c) /\ vpp' = Effect(c))
  PROVE  /\ \A r \in Elements(RoutesOf[q]) : r \in vpp'.fib <=> r \in vpp.fib
         /\ \A g \in Elements(GresOf[q]) : vpp'.gre[g] = vpp.gre[g]
         /\ Gone(q) => Gone(q)'
         /\ Standing(q) => Standing(q)'
<1>0. q \in Paths /\ p \in Paths
  BY VppAssumption
<1>1. p \in OtherPaths(key, q)
  BY <1>0 DEF OtherPaths
<1>2. /\ Elements(RoutesOf[q]) \cap Elements(RoutesOf[p]) = {}
      /\ Elements(GresOf[q]) \cap Elements(GresOf[p]) = {}
  BY <1>1 DEF Apart
<1>3. /\ \A r \in Elements(RoutesOf[q]) : r \in vpp'.fib <=> r \in vpp.fib
      /\ \A g \in Elements(GresOf[q]) : vpp'.gre[g] = vpp.gre[g]
  <2>1. CASE vpp' = vpp
    BY <2>1
  <2>2. CASE Acting(c) /\ Accepts(c) /\ vpp' = Effect(c)
    <3>1. c \in Commands
      BY <1>0 DEF Commands
    <3>2. /\ c.op \in {"route_add", "route_del"} => c.on \notin Elements(RoutesOf[q])
          /\ c.op \in {"gre_create", "gre_address", "gre_up", "gre_delete"} =>
               c.on \notin Elements(GresOf[q])
      BY <1>0, <1>2, InstallShape, RemoveShape
    <3>3. Elements(GresOf[q]) \subseteq Gres
      BY <1>0, Constants
    <3>4. /\ \A g \in Gres :
               g # c.on \/ c.op \notin {"gre_create", "gre_address", "gre_up", "gre_delete"} =>
                 vpp'.gre[g] = vpp.gre[g]
          /\ c.op = "route_add" => vpp'.fib = vpp.fib \cup {c.on}
          /\ c.op = "route_del" => vpp'.fib = vpp.fib \ {c.on}
          /\ c.op \notin {"route_add", "route_del"} => vpp'.fib = vpp.fib
      BY <2>2, <3>1, Changes
    <3>5. \A g \in Elements(GresOf[q]) : vpp'.gre[g] = vpp.gre[g]
      BY <3>2, <3>3, <3>4
    <3>6. \A r \in Elements(RoutesOf[q]) : r \in vpp'.fib <=> r \in vpp.fib
      BY <3>2, <3>4
    <3> QED BY <3>5, <3>6
  <2> QED BY <2>1, <2>2
<1>4. Gone(q) => Gone(q)'
  BY <1>3 DEF Gone
<1>5. Standing(q) => Standing(q)'
  BY <1>3 DEF Standing
<1> QED BY <1>3, <1>4, <1>5

\* The tunnels of the commands that are left are still to be created, and what they
\* delete is there.
ToCreate ==
  /\ Once("gre_create", call.todo)
  /\ \A g \in Gres : Cmd("gre_create", g) \in Elements(call.todo) => vpp.gre[g] = {}
ToDelete ==
  /\ Once("route_del", call.todo) /\ Once("gre_delete", call.todo)
  /\ \A r \in Routes : Cmd("route_del", r) \in Elements(call.todo) => r \in vpp.fib
  /\ \A g \in Gres : Cmd("gre_delete", g) \in Elements(call.todo) => vpp.gre[g] # {}

\* The paths of a key that no transition is about.
Bystanders(key) ==
  {p \in Candidates[key] \ {applied[key]} :
     key = call.key /\ call.phase # "idle" => p \notin {call.target, call.previous}}

\* What holds of an unhindered key as long as nothing failed.
CleanFor(key) ==
  /\ key \notin torn
  /\ \A p \in Bystanders(key) : Gone(p)
  /\ key = call.key /\ call.phase # "idle" =>
       /\ call.phase \notin {"withdraw", "restore"} /\ ~ call.failed
       /\ call.phase \in {"commit", "confirm"} /\ call.previous # NoPath =>
            Standing(call.previous)
       /\ call.phase = "commit" => ToCreate
       /\ call.phase = "cleanup" => ToDelete

CleanInv == faults = 0 => \A key \in Keys : Unhindered(key) => CleanFor(key)

LEMMA CreatesOn ==
  ASSUME BaseInv, Running, ToCreate, NEW p \in Paths, Command \in InstallSet(p),
         Done(Command)
  PROVE  ToCreate'
<1>0. TypeInv
  BY DEF BaseInv
<1>1. PICK c : c = Command
  OBVIOUS
<1> DEFINE todo == call.todo
           rest == call'.todo
<1>2. /\ todo \in Seq(Commands) /\ todo # <<>> /\ c = Head(todo) /\ c \in Commands
      /\ Elements(todo) = {c} \cup Elements(Tail(todo)) /\ rest = Tail(todo)
  BY <1>0, <1>1, CommandLeft, CommandCalls DEF Command, Done
<1>3. Once("gre_create", todo) /\ \A g \in Gres : Cmd("gre_create", g) \in Elements(todo) => vpp.gre[g] = {}
  BY DEF ToCreate
<1>4. vpp' = vpp \/ (Acting(c) /\ Accepts(c) /\ vpp' = Effect(c))
  BY <1>1 DEF Done
<1> HIDE DEF todo, rest
<1>5. Once("gre_create", rest) /\ (c.op = "gre_create" => c \notin Elements(rest))
  BY <1>2, <1>3, OnceTail
<1>6. ASSUME NEW g \in Gres, Cmd("gre_create", g) \in Elements(rest)
      PROVE  vpp'.gre[g] = {}
  <2>1. vpp.gre[g] = {}
    BY <1>2, <1>3, <1>6
  <2>2. CASE vpp' = vpp
    BY <2>1, <2>2
  <2>3. CASE Acting(c) /\ Accepts(c) /\ vpp' = Effect(c)
    <3>1. c.op # "gre_delete" /\ c = Cmd(c.op, c.on)
      BY <1>1, InstallShape
    <3>2. c.op = "gre_create" => c.on # g
      BY <1>5, <1>6, <3>1
    <3>3. c.op \in {"gre_address", "gre_up"} => c.on # g
      BY <2>1, <2>3 DEF Accepts, Present
    <3>4. g # c.on \/ c.op \notin {"gre_create", "gre_address", "gre_up", "gre_delete"} =>
            vpp'.gre[g] = vpp.gre[g]
      BY <1>0, <1>2, <2>3, Changes
    <3> QED BY <2>1, <3>1, <3>2, <3>3, <3>4
  <2> QED BY <1>4, <2>2, <2>3
<1> QED BY <1>5, <1>6 DEF ToCreate, rest

LEMMA DeletesOn ==
  ASSUME BaseInv, Running, ToDelete, NEW p \in Paths, Command \in RemoveSet(p),
         Done(Command)
  PROVE  ToDelete'
<1>0. TypeInv
  BY DEF BaseInv
<1>1. PICK c : c = Command
  OBVIOUS
<1> DEFINE todo == call.todo
           rest == call'.todo
<1>2. /\ todo \in Seq(Commands) /\ todo # <<>> /\ c = Head(todo) /\ c \in Commands
      /\ Elements(todo) = {c} \cup Elements(Tail(todo)) /\ rest = Tail(todo)
  BY <1>0, <1>1, CommandLeft, CommandCalls DEF Command, Done
<1>3. /\ Once("route_del", todo) /\ Once("gre_delete", todo)
      /\ \A r \in Routes : Cmd("route_del", r) \in Elements(todo) => r \in vpp.fib
      /\ \A g \in Gres : Cmd("gre_delete", g) \in Elements(todo) => vpp.gre[g] # {}
  BY DEF ToDelete
<1>4. vpp' = vpp \/ (Acting(c) /\ Accepts(c) /\ vpp' = Effect(c))
  BY <1>1 DEF Done
<1> HIDE DEF todo, rest
<1>5. /\ Once("route_del", rest) /\ Once("gre_delete", rest)
      /\ c.op \in {"route_del", "gre_delete"} => c \notin Elements(rest)
  BY <1>2, <1>3, OnceTail
<1>6. c = Cmd(c.op, c.on) /\ c.op \in {"route_del", "gre_delete"}
  BY <1>1, RemoveShape
<1>7. ASSUME NEW r \in Routes, Cmd("route_del", r) \in Elements(rest)
      PROVE  r \in vpp'.fib
  <2>1. r \in vpp.fib
    BY <1>2, <1>3, <1>7
  <2>2. c.op = "route_del" => c.on # r
    BY <1>5, <1>6, <1>7
  <2>3. vpp' = Effect(c) /\ Acting(c) =>
          /\ c.op = "route_del" => vpp'.fib = vpp.fib \ {c.on}
          /\ c.op \notin {"route_add", "route_del"} => vpp'.fib = vpp.fib
    BY <1>0, <1>2, Changes
  <2> QED BY <1>4, <1>6, <2>1, <2>2, <2>3
<1>8. ASSUME NEW g \in Gres, Cmd("gre_delete", g) \in Elements(rest)
      PROVE  vpp'.gre[g] # {}
  <2>1. vpp.gre[g] # {}
    BY <1>2, <1>3, <1>8
  <2>2. c.op = "gre_delete" => c.on # g
    BY <1>5, <1>6, <1>8
  <2>3. vpp' = Effect(c) /\ Acting(c) =>
          (g # c.on \/ c.op \notin {"gre_create", "gre_address", "gre_up", "gre_delete"} =>
             vpp'.gre[g] = vpp.gre[g])
    BY <1>0, <1>2, Changes
  <2> QED BY <1>4, <1>6, <2>1, <2>2, <2>3
<1> QED BY <1>5, <1>7, <1>8 DEF ToDelete, rest

\* Without a failure no command of an unhindered key is refused.
LEMMA NothingRefused ==
  ASSUME BaseInv, InstallInv, CommandStep, faults' = faults, Unhindered(call.key),
         CleanFor(call.key)
  PROVE  Done(Command)
<1>0. TypeInv /\ CallInv /\ TodoInv /\ Running
  BY DEF BaseInv, CommandStep
<1> SUFFICES ASSUME Broken(Command) PROVE FALSE
  BY DEF CommandStep
<1>1. PICK c : c = Command
  OBVIOUS
<1>2. PICK p : p = Subject
  OBVIOUS
<1>3. p \in Candidates[call.key] /\ p \in Paths /\ call.key \in Keys
  BY <1>0, <1>2, SubjectPath DEF Running
<1>4. /\ ~ call.failed /\ call.phase \notin {"withdraw", "restore"}
      /\ call.phase = "commit" => ToCreate
      /\ call.phase = "cleanup" => ToDelete
  BY <1>0 DEF CleanFor, Running
<1>5. Acting(c) /\ ~ Accepts(c)
  BY <1>0, <1>1, <1>4, Unstopped
<1>6. c \in Elements(call.todo) /\ c \in Commands
  BY <1>0, <1>1, CommandLeft
<1>7. CASE Installing
  <2>1. Provided(p)
    BY <1>3 DEF Unhindered, Apart, TablesKnown, Provided, Own
  <2>2. c \in InstallSet(p) /\ Progress(call.todo, p)
    BY <1>0, <1>1, <1>2, <1>4, <1>7, <2>1, CommandOf DEF InstallInv
  <2>3. Needs(c, p) \subseteq MadeOf(p)
    <3>1. call.todo \in Seq(Commands) /\ call.todo # <<>> /\ c = Head(call.todo)
      BY <1>0, <1>1, CommandLeft DEF Command
    <3> QED BY <2>2, <3>1, HeadSupplied DEF Progress
  <2>4. c.op = "gre_create" /\ Made(c)
    BY <1>0, <1>3, <1>5, <2>2, <2>3, RefusedIsMade
  <2>5. c = Cmd("gre_create", c.on) /\ c.on \in Gres
    BY <1>3, <2>2, <2>4, InstallShape
  <2>6. vpp.gre[c.on] = {}
    BY <1>4, <1>6, <1>7, <2>5 DEF ToCreate, Installing
  <2> QED BY <2>4, <2>6 DEF Made
<1>8. CASE Dismantling
  <2>1. /\ c = Cmd(c.op, c.on) /\ c.op \in {"route_del", "gre_delete"}
        /\ c.op = "route_del" => c.on \in Routes
        /\ c.op = "gre_delete" => c.on \in Gres
    BY <1>0, <1>1, <1>2, <1>3, <1>8, CommandOf, RemoveShape
  <2>2. ToDelete
    BY <1>4, <1>8 DEF Dismantling
  <2>3. CASE c.op = "route_del"
    BY <1>5, <1>6, <2>1, <2>2, <2>3 DEF ToDelete, Accepts, Present
  <2>4. CASE c.op = "gre_delete"
    <3>1. vpp.gre[c.on] # {}
      BY <1>6, <2>1, <2>2, <2>4 DEF ToDelete
    <3>2. "exists" \in vpp.gre[c.on]
      BY <1>0, <2>1, <2>4, <3>1 DEF TypeInv, VppType
    <3> QED BY <1>5, <2>4, <3>2 DEF Accepts, Present
  <2> QED BY <2>1, <2>3, <2>4
<1> QED BY <1>0, <1>7, <1>8, CommandOf

LEMMA CleanCommand ==
  ASSUME BaseInv, InstallInv, CommandStep, faults' = faults,
         NEW key \in Keys, Unhindered(key), CleanFor(key)
  PROVE  CleanFor(key)'
<1>0. TypeInv /\ CallInv /\ TodoInv /\ Running
  BY DEF BaseInv, CommandStep
<1>1. /\ Same /\ call'.phase = call.phase /\ UNCHANGED <<applied, torn>>
      /\ call.phase # "idle"
  BY <1>0, CommandSame DEF Running
<1>2. PICK c : c = Command
  OBVIOUS
<1>3. PICK p : p = Subject
  OBVIOUS
<1>4. PICK other : other = call.key
  OBVIOUS
<1>5. other \in Keys /\ p \in Candidates[other] /\ p \in {call.target, call.previous}
  BY <1>0, <1>3, <1>4, SubjectPath DEF Running, Subject
<1>6. vpp' = vpp \/ (Acting(c) /\ Accepts(c) /\ vpp' = Effect(c))
  BY <1>2 DEF CommandStep, Done, Broken
<1>7. c \in InstallSet(p) \/ c \in RemoveSet(p)
  BY <1>0, <1>2, <1>3, CommandOf
<1>8. Bystanders(key)' = Bystanders(key)
  BY <1>1 DEF Bystanders, Same
<1>9. \A q \in Bystanders(key) : Gone(q)'
  <2> SUFFICES ASSUME NEW q \in Bystanders(key) PROVE Gone(q)'
    OBVIOUS
  <2>1. q \in Candidates[key] /\ Gone(q)
    BY DEF Bystanders, CleanFor
  <2>2. other # key \/ p # q
    BY <1>1, <1>4, <1>5 DEF Bystanders
  <2> QED BY <1>0, <1>5, <1>6, <1>7, <2>1, <2>2, Untouched DEF Unhindered
<1>10. ASSUME key = call.key
       PROVE  /\ call'.phase \notin {"withdraw", "restore"} /\ ~ call'.failed
              /\ call'.phase \in {"commit", "confirm"} /\ call'.previous # NoPath =>
                   Standing(call.previous)'
              /\ call'.phase = "commit" => ToCreate'
              /\ call'.phase = "cleanup" => ToDelete'
  <2>1. Done(Command)
    BY <1>10, NothingRefused
  <2>2. /\ ~ call.failed /\ call.phase \notin {"withdraw", "restore"}
        /\ call.phase \in {"commit", "confirm"} /\ call.previous # NoPath =>
             Standing(call.previous)
        /\ call.phase = "commit" => ToCreate
        /\ call.phase = "cleanup" => ToDelete
    BY <1>1, <1>10 DEF CleanFor
  <2>3. ~ call'.failed
    BY <1>0, <2>1, <2>2, CommandCalls DEF Done
  <2>4. ASSUME call.phase \in {"commit", "confirm"}, call.previous # NoPath
        PROVE  Standing(call.previous)'
    <3>1. PICK q : q = call.previous
      OBVIOUS
    <3>2. q \in Candidates[key] /\ call.target # q
      BY <1>0, <1>1, <1>10, <2>4, <3>1 DEF CallInv
    <3>3. p # q
      BY <1>3, <2>4, <3>2 DEF Subject
    <3>4. Standing(q)'
      BY <1>0, <1>5, <1>6, <1>7, <2>2, <2>4, <3>1, <3>2, <3>3, Untouched DEF Unhindered
    <3> QED BY <1>1, <3>1, <3>4 DEF Same
  <2>5. call.phase = "commit" => ToCreate'
    <3> SUFFICES ASSUME call.phase = "commit" PROVE ToCreate'
      OBVIOUS
    <3>1. Command \in InstallSet(p) /\ p \in Paths
      BY <1>0, <1>3, <2>2, CommandOf DEF Installing
    <3> QED BY <1>0, <2>1, <2>2, <3>1, CreatesOn
  <2>6. call.phase = "cleanup" => ToDelete'
    <3> SUFFICES ASSUME call.phase = "cleanup" PROVE ToDelete'
      OBVIOUS
    <3>1. Command \in RemoveSet(p) /\ p \in Paths
      BY <1>0, <1>3, <2>2, CommandOf DEF Dismantling
    <3> QED BY <1>0, <2>1, <2>2, <3>1, DeletesOn
  <2> QED BY <1>1, <2>2, <2>3, <2>4, <2>5, <2>6 DEF Same
<1> QED BY <1>1, <1>8, <1>9, <1>10 DEF CleanFor, Same

LEMMA InstalledStands ==
  ASSUME TypeInv, NEW p \in Paths, Installed(p)
  PROVE  Standing(p)
<1>1. ASSUME NEW d \in InstallSet(p) PROVE Made(d)
  BY DEF Installed, MadeOf
<1>2. ASSUME NEW r \in Elements(RoutesOf[p]) PROVE r \in vpp.fib
  <2>1. Cmd("route_add", r) \in InstallSet(p)
    BY DEF InstallSet, RouteSet, On
  <2> QED BY <1>1, <2>1 DEF Made, Cmd
<1>3. ASSUME NEW g \in Elements(GresOf[p]) PROVE vpp.gre[g] # {}
  <2>1. Cmd("gre_create", g) \in InstallSet(p)
    BY DEF InstallSet, GreSet, On
  <2> QED BY <1>1, <2>1 DEF Made, Cmd
<1> QED BY <1>2, <1>3 DEF Standing

\* A transition that goes on without touching VPP leaves the other keys as they are.
LEMMA CleanOthers ==
  ASSUME NEW key \in Keys, CleanFor(key), key # call.key, vpp' = vpp, key \notin torn',
         applied'[key] = applied[key], call'.key = call.key \/ call'.phase = "idle"
  PROVE  CleanFor(key)'
<1>1. \A p \in Bystanders(key)' : p \in Bystanders(key)
  BY DEF Bystanders
<1>2. \A p \in Bystanders(key)' : Gone(p)'
  BY <1>1 DEF CleanFor, Gone
<1> QED BY <1>2 DEF CleanFor

LEMMA CreatesBegins ==
  ASSUME NEW p \in Paths, vpp' = vpp, call'.todo = InstallCommands(p), Gone(p)
  PROVE  ToCreate'
<1>1. PICK todo : todo = call'.todo
  OBVIOUS
<1>2. Elements(todo) = InstallSet(p) /\ Once("gre_create", todo)
  BY <1>1, InstallList, InstallOnce
<1>3. ASSUME NEW g \in Gres, Cmd("gre_create", g) \in Elements(todo) PROVE vpp'.gre[g] = {}
  <2>1. Cmd("gre_create", g) \in InstallSet(p) /\ Cmd("gre_create", g).op = "gre_create"
        /\ Cmd("gre_create", g).on = g
    BY <1>2, <1>3 DEF Cmd
  <2>2. g \in Elements(GresOf[p])
    BY <2>1, InstallShape
  <2> QED BY <2>2 DEF Gone
<1>4. Once("gre_create", call'.todo)
  BY <1>1, <1>2
<1> QED BY <1>1, <1>3, <1>4 DEF ToCreate, Once

LEMMA DeletesBegins ==
  ASSUME NEW p \in Paths, vpp' = vpp, call'.todo = RemoveCommands(p), Standing(p),
         NoneTwice(RoutesOf[p])
  PROVE  ToDelete'
<1>1. PICK todo : todo = call'.todo
  OBVIOUS
<1>2. /\ Elements(todo) = RemoveSet(p) /\ Once("route_del", todo) /\ Once("gre_delete", todo)
  BY <1>1, RemoveList, RemoveOnce
<1>3. ASSUME NEW r, Cmd("route_del", r) \in Elements(todo) PROVE r \in vpp'.fib
  <2>1. Cmd("route_del", r) \in RemoveSet(p) /\ Cmd("route_del", r).op = "route_del"
        /\ Cmd("route_del", r).on = r
    BY <1>2, <1>3 DEF Cmd
  <2>2. r \in Elements(RoutesOf[p])
    BY <2>1, RemoveShape
  <2> QED BY <2>2 DEF Standing
<1>4. ASSUME NEW g, Cmd("gre_delete", g) \in Elements(todo) PROVE vpp'.gre[g] # {}
  <2>1. Cmd("gre_delete", g) \in RemoveSet(p) /\ Cmd("gre_delete", g).op = "gre_delete"
        /\ Cmd("gre_delete", g).on = g
    BY <1>2, <1>4 DEF Cmd
  <2>2. g \in Elements(GresOf[p])
    BY <2>1, RemoveShape
  <2> QED BY <2>2 DEF Standing
<1>5. Once("route_del", call'.todo) /\ Once("gre_delete", call'.todo)
  BY <1>1, <1>2
<1> QED BY <1>1, <1>3, <1>4, <1>5 DEF ToDelete, Once

LEMMA CleanStep ==
  ASSUME BaseInv, InstallInv, AppliedInv, RemoveInv, CleanInv, [VppNext]_cvars
  PROVE  CleanInv'
<1>0. TypeInv /\ CallInv /\ applied \in [Keys -> PathOrNone]
  BY DEF BaseInv, TypeInv
<1> SUFFICES ASSUME faults' = 0, NEW key \in Keys, Unhindered(key)
             PROVE  CleanFor(key)'
  BY DEF CleanInv, Unhindered, Apart, OtherPaths, TablesKnown, TableKnown, Admitted, ToldApart
<1>1. faults' = faults /\ faults = 0 /\ faults' # faults + 1
  BY FaultsGrow
<1>2. CleanFor(key)
  BY <1>1 DEF CleanInv
<1>3. key = call.key /\ call.phase # "idle" =>
        ~ call.failed /\ call.phase \notin {"withdraw", "restore"}
  BY <1>2 DEF CleanFor
<1>4. CASE CommandStep
  BY <1>1, <1>2, <1>4, CleanCommand
<1>5. CASE switch
  <2>1. PICK other \in Keys : \E p \in Candidates[other] : SwitchTo(other, p)
    BY <1>0, <1>5, SwitchFacts
  <2>2. PICK p \in Candidates[other] : SwitchTo(other, p)
    BY <2>1
  <2>3. /\ call.phase = "idle" /\ p # applied[other] /\ p \in Paths
        /\ call'.key = other /\ call'.target = p /\ call'.previous = applied[other]
        /\ call'.phase = "commit" /\ call'.todo = InstallCommands(p) /\ call'.failed = FALSE
        /\ UNCHANGED <<vpp, applied, torn>>
    BY <1>1, <2>2, VppAssumption DEF SwitchTo, Begins
  <2>4. \A q \in Bystanders(key)' : q \in Bystanders(key)
    BY <2>3 DEF Bystanders
  <2>5. \A q \in Bystanders(key)' : Gone(q)'
    BY <1>2, <2>3, <2>4 DEF CleanFor, Gone
  <2>6. ASSUME key = other PROVE ToCreate' /\ (call'.previous # NoPath => Standing(call.previous)')
    <3>1. PICK q : q = applied[key]
      OBVIOUS
    <3>2. Gone(p)
      BY <1>2, <2>3, <2>6 DEF CleanFor, Bystanders
    <3>3. ToCreate'
      BY <2>3, <3>2, CreatesBegins
    <3>4. q # NoPath => Standing(q)
      <4> SUFFICES ASSUME q # NoPath PROVE Standing(q)
        OBVIOUS
      <4>1. Installed(q)
        BY <1>2, <2>3, <3>1 DEF AppliedInv, CleanFor, Unhindered, Settled
      <4>2. q \in Paths
        BY <1>0, <3>1 DEF PathOrNone
      <4> QED BY <1>0, <4>1, <4>2, InstalledStands
    <3>5. q # NoPath => Standing(q)'
      BY <2>3, <3>4 DEF Standing
    <3> QED BY <2>3, <2>6, <3>1, <3>3, <3>5
  <2> QED BY <1>2, <2>3, <2>5, <2>6 DEF CleanFor
<1>6. CASE commit
  <2>1. /\ call.phase = "commit" /\ Same /\ call'.phase = "confirm" /\ ~ call'.failed
        /\ applied' = [applied EXCEPT ![call.key] = call.target]
        /\ torn' = torn \ {call.key} /\ vpp' = vpp
    BY <1>0, <1>6, CommitFacts
  <2>2. CASE key # call.key
    BY <1>0, <1>2, <2>1, <2>2, CleanOthers DEF CleanFor, Same
  <2>3. CASE key = call.key
    <3>1. applied'[key] = call.target /\ applied[key] = call.previous
      BY <1>0, <2>1, <2>3 DEF CallInv
    <3>2. \A q \in Bystanders(key)' : q \in Bystanders(key)
      BY <2>1, <2>3, <3>1 DEF Bystanders, Same
    <3>3. \A q \in Bystanders(key)' : Gone(q)'
      BY <1>2, <2>1, <3>2 DEF CleanFor, Gone
    <3>4. call.previous # NoPath => Standing(call.previous)
      BY <1>2, <2>1, <2>3 DEF CleanFor
    <3>5. call'.previous # NoPath => Standing(call.previous)'
      BY <2>1, <3>4 DEF Standing, Same
    <3> QED BY <1>2, <2>1, <3>3, <3>5 DEF CleanFor
  <2> QED BY <2>2, <2>3
<1>7. CASE commit_fails
  <2>1. /\ call.phase = "commit" /\ call.failed /\ Same /\ torn' \subseteq torn \cup {call.key}
        /\ UNCHANGED <<vpp, applied>>
    BY <1>0, <1>7, CommitFailsFacts DEF ToWithdraw
  <2>2. key # call.key
    BY <1>3, <2>1
  <2> QED BY <1>2, <2>1, <2>2, CleanOthers DEF CleanFor, Same
<1>8. CASE confirm
  <2>1. /\ call.phase = "confirm" /\ UNCHANGED <<vpp, applied>>
    BY <1>0, <1>8, ConfirmFacts
  <2>2. CASE /\ call.previous # NoPath /\ Same /\ torn' = torn
             /\ Begins("cleanup", RemoveCommands(call.previous))
    <3>1. CASE key # call.key
      BY <1>2, <2>1, <2>2, <3>1, CleanOthers DEF CleanFor, Same
    <3>2. CASE key = call.key
      <4>1. PICK q : q = call.previous
        OBVIOUS
      <4>2. q \in Candidates[key] /\ q \in Paths /\ Standing(q)
        BY <1>0, <1>2, <2>1, <2>2, <3>2, <4>1, VppAssumption DEF CallInv, CleanFor
      <4>3. NoneTwice(RoutesOf[q])
        BY <4>2 DEF Unhindered, ToldApart, NoneTwice
      <4>4. call'.phase = "cleanup" /\ call'.todo = RemoveCommands(q) /\ call'.failed = FALSE
        BY <2>2, <4>1 DEF Begins
      <4>5. ToDelete'
        BY <2>1, <4>2, <4>3, <4>4, DeletesBegins
      <4>6. \A x \in Bystanders(key)' : x \in Bystanders(key)
        BY <2>1, <2>2, <4>4 DEF Bystanders, Same
      <4>7. \A x \in Bystanders(key)' : Gone(x)'
        BY <1>2, <2>1, <4>6 DEF CleanFor, Gone
      <4> QED BY <1>2, <2>2, <4>4, <4>5, <4>7 DEF CleanFor
    <3> QED BY <3>1, <3>2
  <2>3. CASE call.previous = NoPath /\ torn' = torn /\ call'.phase = "idle"
    <3>1. CASE key # call.key
      BY <1>2, <2>1, <2>3, <3>1, CleanOthers DEF CleanFor
    <3>2. CASE key = call.key
      <4>1. applied[key] = call.target /\ NoPath \notin Candidates[key]
        BY <1>0, <2>1, <3>2, VppAssumption DEF CallInv
      <4>2. \A x \in Bystanders(key)' : x \in Bystanders(key)
        BY <2>1, <2>3, <4>1 DEF Bystanders
      <4>3. \A x \in Bystanders(key)' : Gone(x)'
        BY <1>2, <2>1, <4>2 DEF CleanFor, Gone
      <4> QED BY <1>2, <2>3, <4>3 DEF CleanFor
    <3> QED BY <3>1, <3>2
  <2> QED BY <1>0, <1>8, <2>2, <2>3, ConfirmFacts DEF Over
<1>9. CASE cleanup
  <2>1. /\ call.phase = "cleanup" /\ call.todo = <<>> /\ UNCHANGED <<vpp, applied>>
        /\ \/ ~ call.failed /\ torn' = torn /\ call'.phase = "idle"
           \/ call.failed /\ call'.key = call.key /\ torn' \subseteq torn \cup {call.key}
    BY <1>0, <1>1, <1>9, CleanupFacts DEF Over, ToWithdraw, Same
  <2>2. CASE key # call.key
    BY <1>2, <2>1, <2>2, CleanOthers DEF CleanFor
  <2>3. CASE key = call.key
    <3>1. ~ call.failed /\ torn' = torn /\ call'.phase = "idle"
      BY <1>3, <2>1, <2>3
    <3>2. applied[key] = call.target /\ Gone(call.previous)
      <4>1. Subject = call.previous /\ Dismantling
        BY <2>1 DEF Subject, Dismantling
      <4> QED BY <1>0, <2>1, <2>3, <3>1, <4>1, RemovedAtEnd DEF CallInv
    <3>3. \A x \in Bystanders(key)' : x \in Bystanders(key) \/ x = call.previous
      BY <2>1, <3>1, <3>2 DEF Bystanders
    <3>4. \A x \in Bystanders(key)' : Gone(x)
      BY <1>2, <3>2, <3>3 DEF CleanFor
    <3>5. \A x \in Bystanders(key)' : Gone(x)'
      BY <2>1, <3>4 DEF Gone
    <3> QED BY <1>2, <3>1, <3>5 DEF CleanFor
  <2> QED BY <2>2, <2>3
<1>10. CASE rollback \/ rollback_fails \/ rollback_completes
  <2>1. /\ call.phase \in {"withdraw", "restore"} /\ vpp' = vpp
        /\ call'.key = call.key \/ call'.phase = "idle"
        /\ torn' \subseteq torn
        /\ \/ applied' = applied
           \/ applied' = [applied EXCEPT ![call.key] = call.previous]
    BY <1>0, <1>10, RollbackFacts, RollbackFailsFacts, RollbackCompletesFacts DEF Same, Over
  <2>2. key # call.key
    BY <1>3, <2>1
  <2>3. applied'[key] = applied[key]
    BY <1>0, <2>1, <2>2
  <2> QED BY <1>2, <2>1, <2>2, <2>3, CleanOthers DEF CleanFor
<1>11. CASE new_adapter \/ UNCHANGED cvars
  <2>1. UNCHANGED <<vpp, call, applied, torn>>
    BY <1>11 DEF new_adapter, cvars
  <2> QED BY <1>2, <2>1
    DEF CleanFor, Bystanders, Gone, Standing, ToCreate, ToDelete, Once
<1> QED
  BY <1>4, <1>5, <1>6, <1>7, <1>8, <1>9, <1>10, <1>11, CommandSteps DEF VppNext

LEMMA CleanInit ==
  ASSUME VppInit
  PROVE  CleanInv
<1>1. /\ call.phase = "idle" /\ vpp.fib = {} /\ torn = {}
      /\ \A g \in Gres : vpp.gre[g] = {}
  BY DEF VppInit, Idle
<1>2. ASSUME NEW key \in Keys, NEW p \in Candidates[key] PROVE Gone(p)
  <2>1. p \in Paths
    BY VppAssumption
  <2> QED BY <1>1, <2>1, Constants DEF Gone
<1> QED BY <1>1, <1>2 DEF CleanInv, CleanFor, Bystanders

\* Without a failure the switches of an unhindered key complete, even if vppctl
\* reports what is refused: nothing is created twice, used before it is there or
\* removed when it is gone (vpp_install, vpp_remove).  A key is hindered, too, where
\* the table of a path may be left out because another one begins with its digits
\* (ensure_vpp_route_tables).
THEOREM VppCleanSwitch == VppSpec => []CleanSwitchCompletes
<1>1. VppInit => RemoveInv /\ CleanInv
  BY LeftInit, CleanInit
<1>2. BaseInv /\ InstallInv /\ AppliedInv /\ RemoveInv /\ CleanInv /\ [VppNext]_cvars =>
        (RemoveInv /\ CleanInv)'
  BY RemoveStep, CleanStep
<1>3. BaseInv /\ CleanInv => CleanSwitchCompletes
  BY DEF CleanInv, CleanFor, CleanSwitchCompletes, BaseInv, TypeInv
<1> QED BY <1>1, <1>2, <1>3, VppInstalls, PTL DEF VppSpec
=============================================================================
