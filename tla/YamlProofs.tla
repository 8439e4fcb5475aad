----------------------------- MODULE YamlProofs -----------------------------
(***************************************************************************)
(* Proofs about the reading of the configuration file, for any lines in    *)
(* any order and for arrays of any size: nothing is stored where there is  *)
(* no room or no item, or in an item that is not the newest; what a loaded *)
(* configuration may be relied on for; and, for any file of the documented *)
(* layout, that every line is read as its indentation says.                *)
(***************************************************************************)
EXTENDS YamlConfig, SequenceTheorems, FiniteSetTheorems, TLAPS

-----------------------------------------------------------------------------
(* Lists whose elements are not typed: fields have texts and numbers.      *)

IsList(q) == q \in Seq({q[i] : i \in DOMAIN q})

\* What a list is.
LEMMA ListFacts ==
  ASSUME NEW q, IsList(q)
  PROVE  /\ Len(q) \in Nat
         /\ DOMAIN q = 1 .. Len(q)
         /\ q = [i \in 1 .. Len(q) |-> q[i]]
         /\ q # <<>> <=> Len(q) # 0
BY LenProperties, EmptySeq DEF IsList

\* A function on 1 .. n is a list of n elements.
LEMMA ListOfFunction ==
  ASSUME NEW q, NEW n \in Nat, q = [i \in 1 .. n |-> q[i]]
  PROVE  IsList(q) /\ Len(q) = n
<1> DEFINE S == {q[i] : i \in DOMAIN q}
<1>1. DOMAIN q = 1 .. n
  OBVIOUS
<1>2. q \in [1 .. n -> S]
  BY <1>1
<1>3. q \in Seq(S)
  BY <1>2, SeqDef
<1>4. Len(q) \in Nat /\ DOMAIN q = 1 .. Len(q)
  BY <1>3, LenProperties
<1> QED BY <1>1, <1>3, <1>4 DEF IsList

LEMMA NoElements == IsList(<<>>) /\ Len(<<>>) = 0 /\ DOMAIN <<>> = {}
<1>1. <<>> \in Seq({<<>>[i] : i \in DOMAIN <<>>})
  BY EmptySeq
<1> QED BY <1>1, EmptySeq, LenProperties DEF IsList

\* A list with one more element.
LEMMA ListAppend ==
  ASSUME NEW q, IsList(q), NEW e
  PROVE  /\ IsList(Append(q, e))
         /\ Len(Append(q, e)) = Len(q) + 1
         /\ \A i \in 1 .. Len(q) : Append(q, e)[i] = q[i]
         /\ Append(q, e)[Len(q) + 1] = e
<1> DEFINE S == {q[i] : i \in DOMAIN q} \cup {e}
<1>1. q \in Seq(S)
  BY SeqMonotonic DEF IsList
<1>0. e \in S
  OBVIOUS
<1> HIDE DEF S
<1>2. /\ Append(q, e) \in Seq(S)
      /\ Len(Append(q, e)) = Len(q) + 1
      /\ \A i \in 1 .. Len(q) : Append(q, e)[i] = q[i]
      /\ Append(q, e)[Len(q) + 1] = e
  BY <1>0, <1>1, AppendProperties
<1>3. Len(q) \in Nat
  BY ListFacts
<1>4. PICK r : r = Append(q, e)
  OBVIOUS
<1>5. r \in [1 .. Len(r) -> S] /\ Len(r) = Len(q) + 1
  BY <1>2, <1>4, LenProperties
<1>6. r = [i \in 1 .. Len(r) |-> r[i]] /\ Len(r) \in Nat
  BY <1>3, <1>5
<1>7. IsList(r)
  BY <1>6, ListOfFunction
<1> QED BY <1>2, <1>4, <1>7

\* A list with another element in one place.
LEMMA ListExcept ==
  ASSUME NEW q, IsList(q), NEW i \in 1 .. Len(q), NEW e
  PROVE  /\ IsList([q EXCEPT ![i] = e])
         /\ Len([q EXCEPT ![i] = e]) = Len(q)
         /\ [q EXCEPT ![i] = e][i] = e
         /\ \A j \in 1 .. Len(q) : j # i => [q EXCEPT ![i] = e][j] = q[j]
<1>1. Len(q) \in Nat /\ DOMAIN q = 1 .. Len(q)
  BY ListFacts
<1>2. /\ [q EXCEPT ![i] = e] = [j \in 1 .. Len(q) |-> [q EXCEPT ![i] = e][j]]
      /\ [q EXCEPT ![i] = e][i] = e
      /\ \A j \in 1 .. Len(q) : j # i => [q EXCEPT ![i] = e][j] = q[j]
  BY <1>1
<1> QED BY <1>1, <1>2, ListOfFunction

\* One element.
LEMMA ListOne ==
  ASSUME NEW e
  PROVE  IsList(<<e>>) /\ Len(<<e>>) = 1
<1>1. <<e>> = [i \in 1 .. 1 |-> <<e>>[i]]
  OBVIOUS
<1> QED BY <1>1, ListOfFunction

-----------------------------------------------------------------------------
(* Items and their fields.                                                 *)

\* An item of a section has the lists of the section, none longer than its array.
IsItem(s, x) ==
  /\ DOMAIN x = {"fields", "lists"}
  /\ DOMAIN x.lists = ListsOf[s]
  /\ \A name \in ListsOf[s] : IsList(x.lists[name]) /\ Len(x.lists[name]) <= Limit[name]

LEMMA SectionNames ==
  /\ DOMAIN ListsOf = Sections
  /\ DOMAIN Defaults = Sections \cup {"segments", "routes"}
  /\ \A s \in Sections : s \in Arrays /\ s # "none" /\ s \notin IntentMappings
  /\ \A s \in Sections : \A name \in ListsOf[s] : name \in Arrays /\ name \notin IntentMappings
  /\ \A s, t \in Sections : s # t => ListsOf[s] \cap ListsOf[t] = {}
  /\ \A s \in Sections : "none" \notin ListsOf[s]
  /\ "none" \notin IntentMappings
<1>1. DOMAIN ListsOf = Sections /\ DOMAIN Defaults = Sections \cup {"segments", "routes"}
  BY DEF ListsOf, Sections, Defaults
<1>2. \A s \in Sections : s \in Arrays /\ s # "none" /\ s \notin IntentMappings
  BY DEF Sections, Arrays, IntentMappings
<1>3. \A s \in Sections : \A name \in ListsOf[s] : name \in Arrays
  BY DEF Arrays
<1>4. \A s \in Sections : \A name \in ListsOf[s] : name \notin IntentMappings /\ name # "none"
  BY DEF Sections, ListsOf, IntentMappings
<1>5. \A s, t \in Sections : s # t => ListsOf[s] \cap ListsOf[t] = {}
  BY DEF Sections, ListsOf
<1>6. "none" \notin IntentMappings
  BY DEF IntentMappings
<1> QED BY <1>1, <1>2, <1>3, <1>4, <1>5, <1>6

LEMMA Limits == \A a \in Arrays : Limit[a] \in Nat /\ Limit[a] >= 1
BY YamlAssumption

\* Setting a field.
LEMMA SetText ==
  ASSUME NEW x, "fields" \in DOMAIN x, NEW f, NEW v
  PROVE  /\ DOMAIN Set(x, f, v) = DOMAIN x
         /\ Text(Set(x, f, v), f) = v
         /\ \A g : g # f => Text(Set(x, f, v), g) = Text(x, g)
         /\ \A y \in DOMAIN x : y # "fields" => Set(x, f, v)[y] = x[y]
<1> DEFINE fields == [g \in DOMAIN x.fields \cup {f} |-> IF g = f THEN v ELSE x.fields[g]]
<1>1. Set(x, f, v) = [x EXCEPT !.fields = fields]
  BY DEF Set
<1>2. Set(x, f, v).fields = fields /\ DOMAIN Set(x, f, v) = DOMAIN x
  BY <1>1
<1>3. \A y \in DOMAIN x : y # "fields" => Set(x, f, v)[y] = x[y]
  BY <1>1
<1> QED BY <1>2, <1>3 DEF Text

LEMMA SetItem ==
  ASSUME NEW s \in Sections, NEW x, IsItem(s, x), NEW f, NEW v
  PROVE  IsItem(s, Set(x, f, v)) /\ Set(x, f, v).lists = x.lists
BY SetText DEF IsItem

LEMMA WithFieldItem ==
  ASSUME NEW s \in Sections, NEW x, IsItem(s, x), NEW mapping, NEW key, NEW value
  PROVE  /\ IsItem(s, WithField(x, mapping, key, value))
         /\ WithField(x, mapping, key, value).lists = x.lists
BY SetItem DEF WithField

LEMMA FilledItem ==
  ASSUME NEW s \in Sections, NEW x, IsItem(s, x), NEW f, NEW v
  PROVE  IsItem(s, Filled(x, f, v)) /\ Filled(x, f, v).lists = x.lists
BY SetItem DEF Filled

LEMMA NewItemItem ==
  ASSUME NEW s \in Sections
  PROVE  /\ IsItem(s, NewItem(s))
         /\ \A name \in ListsOf[s] : NewItem(s).lists[name] = <<>>
<1>1. \A name \in ListsOf[s] : Limit[name] \in Nat
  BY Limits, SectionNames
<1> QED BY <1>1, NoElements DEF IsItem, NewItem

\* Another list in place of one of an item.
HasList(x, name, q, y) == y = [x EXCEPT !.lists[name] = q]

LEMMA ListItem ==
  ASSUME NEW s \in Sections, NEW x, IsItem(s, x), NEW name \in ListsOf[s],
         NEW q, IsList(q), Len(q) <= Limit[name], NEW y, HasList(x, name, q, y)
  PROVE  /\ IsItem(s, y)
         /\ y.lists[name] = q
         /\ \A other \in ListsOf[s] : other # name => y.lists[other] = x.lists[other]
<1>1. DOMAIN y = {"fields", "lists"} /\ y.lists = [x.lists EXCEPT ![name] = q]
  BY DEF IsItem, HasList
<1>2. /\ DOMAIN y.lists = ListsOf[s] /\ y.lists[name] = q
      /\ \A other \in ListsOf[s] : other # name => y.lists[other] = x.lists[other]
  BY <1>1 DEF IsItem
<1>3. IsItem(s, y)
  BY <1>1, <1>2 DEF IsItem
<1> QED BY <1>2, <1>3

-----------------------------------------------------------------------------
(* The invariant.                                                          *)

\* The configuration has items in every section, as many as there is room for.
ItemsOf(c) ==
  /\ DOMAIN c = Sections
  /\ \A s \in Sections :
       /\ IsList(c[s]) /\ Len(c[s]) <= Limit[s]
       /\ \A i \in 1 .. Len(c[s]) : IsItem(s, c[s][i])

\* The context is a list or mapping of the section, and the newest item has it.
ContextInv ==
  /\ top \in Sections \cup {"none"}
  /\ \/ context = "none"
     \/ top \in Sections /\ context \in ListsOf[top]
     \/ top = "intents" /\ context \in IntentMappings
  /\ top = "intents" /\ context \in ListsOf["intents"] => list_parent \in IntentMappings
  /\ DOMAIN current = Sections
  /\ \A s \in Sections : current[s] \in {0, Len(config[s])}
  /\ context # "none" => current[top] # 0

\* The segment or route begun last is there, and it is one of the newest path if
\* that has any.
Placed(paths, name, e) ==
  e # Nowhere => e[1] \in 1 .. Len(paths) /\ e[2] \in 1 .. Len(paths[e[1]].lists[name])
Newest(paths, i, name, e) ==
  i # 0 /\ paths[i].lists[name] # <<>> => e # Nowhere /\ e[1] = i

ElementInv ==
  /\ Placed(config.paths, "segments", segment) /\ Placed(config.paths, "routes", route)
  /\ status = "reading" =>
       /\ Newest(config.paths, current.paths, "segments", segment)
       /\ Newest(config.paths, current.paths, "routes", route)

ReadInv ==
  /\ status \in {"reading", "loaded", "refused"}
  /\ ItemsOf(config) /\ ContextInv /\ ElementInv

-----------------------------------------------------------------------------
(* What a line does to the configuration.                                  *)

\* Section s becomes q, or has item x in place of item i.
Becomes(c, s, q, d) == d = [c EXCEPT ![s] = q]
Replaces(c, s, i, x, d) == d = [c EXCEPT ![s] = [@ EXCEPT ![i] = x]]

\* A new item.
LEMMA ItemAppended ==
  ASSUME NEW c, ItemsOf(c), NEW s \in Sections, NEW x, IsItem(s, x), Len(c[s]) < Limit[s],
         NEW d, Becomes(c, s, Append(c[s], x), d)
  PROVE  /\ ItemsOf(d)
         /\ Len(d[s]) = Len(c[s]) + 1
         /\ d[s][Len(c[s]) + 1] = x
         /\ \A i \in 1 .. Len(c[s]) : d[s][i] = c[s][i]
         /\ \A t \in Sections : t # s => d[t] = c[t]
<1>1. IsList(c[s]) /\ Len(c[s]) \in Nat
  BY ListFacts DEF ItemsOf
<1>2. /\ DOMAIN d = Sections /\ d[s] = Append(c[s], x)
      /\ \A t \in Sections : t # s => d[t] = c[t]
  BY DEF ItemsOf, Becomes
<1>3. /\ IsList(d[s]) /\ Len(d[s]) = Len(c[s]) + 1
      /\ d[s][Len(c[s]) + 1] = x
      /\ \A i \in 1 .. Len(c[s]) : d[s][i] = c[s][i]
  BY <1>1, <1>2, ListAppend
<1>4. Limit[s] \in Nat
  BY Limits, SectionNames
<1>5. \A i \in 1 .. Len(d[s]) : IsItem(s, d[s][i])
  <2> TAKE i \in 1 .. Len(d[s])
  <2>1. i \in 1 .. Len(c[s]) \/ i = Len(c[s]) + 1
    BY <1>1, <1>3
  <2> QED BY <1>3, <2>1 DEF ItemsOf
<1>6. Len(d[s]) <= Limit[s]
  BY <1>1, <1>3, <1>4
<1>7. ASSUME NEW t \in Sections
      PROVE  /\ IsList(d[t]) /\ Len(d[t]) <= Limit[t]
             /\ \A i \in 1 .. Len(d[t]) : IsItem(t, d[t][i])
  BY <1>2, <1>3, <1>5, <1>6 DEF ItemsOf
<1>8. ItemsOf(d)
  BY <1>2, <1>7 DEF ItemsOf
<1> QED BY <1>2, <1>3, <1>8

\* Another item in place of one.
LEMMA ItemReplaced ==
  ASSUME NEW c, ItemsOf(c), NEW s \in Sections, NEW i \in 1 .. Len(c[s]),
         NEW x, IsItem(s, x),
         NEW d, Replaces(c, s, i, x, d)
  PROVE  /\ ItemsOf(d)
         /\ Len(d[s]) = Len(c[s])
         /\ d[s][i] = x
         /\ \A j \in 1 .. Len(c[s]) : j # i => d[s][j] = c[s][j]
         /\ \A t \in Sections : t # s => d[t] = c[t]
<1>1. IsList(c[s]) /\ Len(c[s]) \in Nat
  BY ListFacts DEF ItemsOf
<1>2. /\ DOMAIN d = Sections /\ d[s] = [c[s] EXCEPT ![i] = x]
      /\ \A t \in Sections : t # s => d[t] = c[t]
  BY DEF ItemsOf, Replaces
<1>3. /\ IsList(d[s]) /\ Len(d[s]) = Len(c[s])
      /\ d[s][i] = x
      /\ \A j \in 1 .. Len(c[s]) : j # i => d[s][j] = c[s][j]
  <2>1. PICK q : q = c[s]
    OBVIOUS
  <2>2. IsList(q) /\ i \in 1 .. Len(q) /\ d[s] = [q EXCEPT ![i] = x]
    BY <1>1, <1>2, <2>1
  <2>3. /\ IsList([q EXCEPT ![i] = x]) /\ Len([q EXCEPT ![i] = x]) = Len(q)
        /\ [q EXCEPT ![i] = x][i] = x
        /\ \A j \in 1 .. Len(q) : j # i => [q EXCEPT ![i] = x][j] = q[j]
    BY <2>2, ListExcept
  <2> QED BY <2>1, <2>2, <2>3
<1>4. \A j \in 1 .. Len(d[s]) : IsItem(s, d[s][j])
  BY <1>3 DEF ItemsOf
<1>5. ItemsOf(d)
  BY <1>2, <1>3, <1>4 DEF ItemsOf
<1> QED BY <1>2, <1>3, <1>5

\* An item that is changed in its fields, or in an element of a list.
SameShape(c, d) ==
  \A s \in Sections :
    /\ Len(d[s]) = Len(c[s])
    /\ \A i \in 1 .. Len(c[s]) : \A name \in ListsOf[s] :
         Len(d[s][i].lists[name]) = Len(c[s][i].lists[name])

LEMMA ShapeReplaced ==
  ASSUME NEW c, ItemsOf(c), NEW s \in Sections, NEW i \in 1 .. Len(c[s]),
         NEW x, IsItem(s, x),
         \A name \in ListsOf[s] : Len(x.lists[name]) = Len(c[s][i].lists[name]),
         NEW d, Replaces(c, s, i, x, d)
  PROVE  ItemsOf(d) /\ SameShape(c, d)
<1>1. /\ ItemsOf(d)
      /\ Len(d[s]) = Len(c[s])
      /\ d[s][i] = x
      /\ \A j \in 1 .. Len(c[s]) : j # i => d[s][j] = c[s][j]
      /\ \A t \in Sections : t # s => d[t] = c[t]
  BY ItemReplaced
<1>2. ASSUME NEW t \in Sections
      PROVE  /\ Len(d[t]) = Len(c[t])
             /\ \A j \in 1 .. Len(c[t]) : \A name \in ListsOf[t] :
                  Len(d[t][j].lists[name]) = Len(c[t][j].lists[name])
  <2>1. CASE t = s
    <3>1. \A j \in 1 .. Len(c[s]) : \A name \in ListsOf[s] :
            Len(d[s][j].lists[name]) = Len(c[s][j].lists[name])
      <4> TAKE j \in 1 .. Len(c[s])
      <4> TAKE name \in ListsOf[s]
      <4>1. CASE j = i
        BY <1>1, <4>1
      <4>2. CASE j # i
        BY <1>1, <4>2
      <4> QED BY <4>1, <4>2
    <3> QED BY <1>1, <2>1, <3>1
  <2>2. CASE t # s
    BY <1>1, <2>2
  <2> QED BY <2>1, <2>2
<1> QED BY <1>1, <1>2 DEF SameShape

\* There are as many paths as before or more, and as many elements of each, and of path i
\* just as many.
NotShorter(c, d, name) ==
  /\ Len(d.paths) >= Len(c.paths)
  /\ \A i \in 1 .. Len(c.paths) : Len(d.paths[i].lists[name]) >= Len(c.paths[i].lists[name])
AsLong(c, d, name, i) ==
  i # 0 => Len(d.paths[i].lists[name]) = Len(c.paths[i].lists[name])

\* A place of a list that grows or stays.
LEMMA PlacedAfter ==
  ASSUME NEW c, ItemsOf(c), NEW d, ItemsOf(d), NEW name \in {"segments", "routes"}, NEW e,
         Placed(c.paths, name, e), NotShorter(c, d, name)
  PROVE  Placed(d.paths, name, e)
<1>1. "paths" \in Sections /\ name \in ListsOf["paths"]
  BY DEF Sections, ListsOf
<1>2. Len(c.paths) \in Nat /\ Len(d.paths) \in Nat
  BY <1>1, ListFacts DEF ItemsOf
<1>3. SUFFICES ASSUME e # Nowhere
               PROVE  e[1] \in 1 .. Len(d.paths) /\ e[2] \in 1 .. Len(d.paths[e[1]].lists[name])
  BY DEF Placed
<1>4. e[1] \in 1 .. Len(c.paths) /\ e[2] \in 1 .. Len(c.paths[e[1]].lists[name])
  BY <1>3 DEF Placed
<1>5. e[1] \in 1 .. Len(d.paths)
  BY <1>2, <1>4 DEF NotShorter
<1>6. /\ Len(c.paths[e[1]].lists[name]) \in Nat /\ Len(d.paths[e[1]].lists[name]) \in Nat
      /\ Len(d.paths[e[1]].lists[name]) >= Len(c.paths[e[1]].lists[name])
  BY <1>1, <1>4, <1>5, ListFacts DEF ItemsOf, IsItem, NotShorter
<1>7. PICK m, n, k : /\ m = Len(c.paths[e[1]].lists[name]) /\ k = e[2]
                     /\ n = Len(d.paths[e[1]].lists[name])
  OBVIOUS
<1>8. m \in Nat /\ n \in Nat /\ n >= m /\ k \in 1 .. m
  BY <1>4, <1>6, <1>7
<1>9. k \in 1 .. n
  BY <1>8
<1> QED BY <1>5, <1>7, <1>9

LEMMA NewestAfter ==
  ASSUME NEW c, ItemsOf(c), NEW d, ItemsOf(d), NEW name \in {"segments", "routes"}, NEW e,
         NEW i \in {0, Len(c.paths)}, Newest(c.paths, i, name, e),
         AsLong(c, d, name, i), NotShorter(c, d, name)
  PROVE  Newest(d.paths, i, name, e)
<1>1. "paths" \in Sections /\ name \in ListsOf["paths"]
  BY DEF Sections, ListsOf
<1>2. Len(c.paths) \in Nat /\ Len(d.paths) \in Nat
  BY <1>1, ListFacts DEF ItemsOf
<1>3. SUFFICES ASSUME i # 0, d.paths[i].lists[name] # <<>>
               PROVE  e # Nowhere /\ e[1] = i
  BY DEF Newest
<1>4. i \in 1 .. Len(c.paths) /\ i \in 1 .. Len(d.paths)
  BY <1>2, <1>3 DEF NotShorter
<1>5. IsList(c.paths[i].lists[name]) /\ IsList(d.paths[i].lists[name])
  BY <1>1, <1>4 DEF ItemsOf, IsItem
<1>6. c.paths[i].lists[name] # <<>>
  BY <1>3, <1>5, ListFacts, NoElements DEF AsLong
<1> QED BY <1>3, <1>6 DEF Newest

-----------------------------------------------------------------------------
(* The lines.                                                              *)

\* A line changes the newest item of its section only.
ChangesNewest ==
  status' = "reading" /\ ~NoElementYet =>
    \A s \in Sections : \A i \in 1 .. Len(config[s]) - 1 : config'[s][i] = config[s][i]

\* The items keep their shape, and where the next element goes stays what it was.
LEMMA ShapeKept ==
  ASSUME ReadInv, ItemsOf(config'), SameShape(config, config'),
         status' = status, UNCHANGED <<current, segment, route>>
  PROVE  /\ \A s \in Sections : current'[s] \in {0, Len(config'[s])}
         /\ ElementInv'
<1>1. /\ "paths" \in Sections
      /\ \A name \in {"segments", "routes"} : name \in ListsOf["paths"]
  BY DEF Sections, ListsOf
<1>2. \A s \in Sections : current'[s] \in {0, Len(config'[s])}
  BY DEF ReadInv, ContextInv, SameShape
<1>3. Len(config.paths) \in Nat
  BY <1>1, ListFacts DEF ReadInv, ItemsOf
<1>4. ASSUME NEW name \in {"segments", "routes"}, NEW e
      PROVE  /\ Placed(config.paths, name, e) => Placed(config'.paths, name, e)
             /\ Newest(config.paths, current.paths, name, e) =>
                  Newest(config'.paths, current'.paths, name, e)
  <2>1. /\ Len(config'.paths) = Len(config.paths)
        /\ \A i \in 1 .. Len(config.paths) :
             Len(config'.paths[i].lists[name]) = Len(config.paths[i].lists[name])
    BY <1>1 DEF SameShape
  <2>2. \A i \in 1 .. Len(config.paths) : Len(config.paths[i].lists[name]) \in Nat
    BY <1>1, ListFacts DEF ReadInv, ItemsOf, IsItem
  <2>3. NotShorter(config, config', name)
    BY <1>3, <2>1, <2>2 DEF NotShorter
  <2>4. PICK c, d : c = config /\ d = config'
    OBVIOUS
  <2>5. ItemsOf(c) /\ ItemsOf(d) /\ NotShorter(c, d, name)
    BY <2>3, <2>4 DEF ReadInv
  <2>6. Placed(c.paths, name, e) => Placed(d.paths, name, e)
    BY <2>5, PlacedAfter
  <2>7. Placed(config.paths, name, e) => Placed(config'.paths, name, e)
    BY <2>4, <2>6
  <2>8. current.paths \in {0, Len(config.paths)}
    BY <1>1 DEF ReadInv, ContextInv
  <2>9. AsLong(config, config', name, current.paths)
    BY <1>3, <2>1, <2>8 DEF AsLong
  <2>10. PICK k : k = current.paths
    OBVIOUS
  <2>11. k \in {0, Len(c.paths)} /\ AsLong(c, d, name, k)
    BY <2>8, <2>9, <2>4, <2>10
  <2>12. Newest(c.paths, k, name, e) => Newest(d.paths, k, name, e)
    BY <2>5, <2>11, NewestAfter
  <2>13. Newest(config.paths, current.paths, name, e) =>
          Newest(config'.paths, current.paths, name, e)
    BY <2>4, <2>10, <2>12
  <2> QED BY <2>7, <2>13
<1>5. ElementInv'
  BY <1>4 DEF ReadInv, ElementInv
<1> QED BY <1>2, <1>5

\* The newest item of a section that has one.
LEMMA NewestItem ==
  ASSUME ReadInv, NEW s \in Sections, current[s] # 0
  PROVE  /\ current[s] = Len(config[s])
         /\ current[s] \in 1 .. Len(config[s])
         /\ IsItem(s, config[s][current[s]])
<1>1. Len(config[s]) \in Nat /\ current[s] = Len(config[s])
  BY ListFacts DEF ReadInv, ItemsOf, ContextInv
<1> QED BY <1>1 DEF ReadInv, ItemsOf

LEMMA RefuseStep ==
  ASSUME ReadInv, Refuse
  PROVE  ReadInv' /\ ChangesNewest
BY DEF ReadInv, Refuse, parser, ContextInv, ElementInv, ChangesNewest

LEMMA SectionStep ==
  ASSUME ReadInv, status = "reading", NEW l, section_line(l)
  PROVE  ReadInv' /\ ChangesNewest
<1>1. /\ l.key \in Sections /\ top' = l.key /\ context' = "none"
      /\ current' = [current EXCEPT ![l.key] = 0]
      /\ UNCHANGED <<status, config, segment, route>>
  BY DEF section_line, IsSection
<1>2. ContextInv'
  BY <1>1, SectionNames DEF ReadInv, ContextInv
<1>3. current'.paths \in {0, current.paths}
  BY <1>1 DEF ReadInv, ContextInv, Sections
<1>4. ElementInv'
  BY <1>1, <1>3 DEF ReadInv, ElementInv, Newest
<1> QED BY <1>1, <1>2, <1>4 DEF ReadInv, ChangesNewest

\* An item whose fields have changed, in place of the newest one.
LEMMA FieldsReplaced ==
  ASSUME ReadInv, status = "reading", NEW s \in Sections, current[s] # 0,
         NEW mapping, NEW key, NEW value,
         config' = [config EXCEPT ![s][current[s]] = WithField(@, mapping, key, value)]
  PROVE  ItemsOf(config') /\ SameShape(config, config') /\ ChangesNewest
<1>1. PICK i : i = current[s]
  OBVIOUS
<1>2. i = Len(config[s]) /\ i \in 1 .. Len(config[s]) /\ IsItem(s, config[s][i])
  BY <1>1, NewestItem
<1>3. PICK x : x = WithField(config[s][i], mapping, key, value)
  OBVIOUS
<1>4. IsItem(s, x) /\ x.lists = config[s][i].lists
  BY <1>2, <1>3, WithFieldItem
<1>5. Replaces(config, s, i, x, config')
  BY <1>1, <1>3 DEF Replaces
<1>6. ItemsOf(config') /\ SameShape(config, config')
  BY <1>2, <1>4, <1>5, ShapeReplaced DEF ReadInv
<1>7. /\ \A j \in 1 .. Len(config[s]) : j # i => config'[s][j] = config[s][j]
      /\ \A t \in Sections : t # s => config'[t] = config[t]
  <2>1. PICK c, d : c = config /\ d = config'
    OBVIOUS
  <2>2. ItemsOf(c) /\ i \in 1 .. Len(c[s]) /\ IsItem(s, x) /\ Replaces(c, s, i, x, d)
    BY <1>2, <1>4, <1>5, <2>1 DEF ReadInv
  <2>3. /\ \A j \in 1 .. Len(c[s]) : j # i => d[s][j] = c[s][j]
        /\ \A t \in Sections : t # s => d[t] = c[t]
    BY <2>2, ItemReplaced
  <2> QED BY <2>1, <2>3
<1>8. \A j \in 1 .. Len(config[s]) - 1 : j \in 1 .. Len(config[s]) /\ j # i
  BY <1>2
<1>9. ChangesNewest
  BY <1>7, <1>8 DEF ChangesNewest
<1> QED BY <1>6, <1>9

LEMMA FieldStep ==
  ASSUME ReadInv, status = "reading", NEW l, NEW mapping, top \in Sections, top # "intents",
         StoreField(mapping, l)
  PROVE  ReadInv' /\ ChangesNewest
<1>1. CASE Refuse
  BY <1>1, RefuseStep
<1>2. CASE ~ Refuse
  <2>1. /\ current[top] # 0
        /\ config' = [config EXCEPT ![top][current[top]] =
                        WithField(@, mapping, l.key, l.value)]
        /\ context' = ContextAfter(l.key, context)
        /\ UNCHANGED <<status, top, list_parent, list_indent, current, segment, route>>
    BY <1>2 DEF StoreField
  <2>2. PICK s : s = top
    OBVIOUS
  <2>3. s \in Sections /\ current[s] # 0
        /\ config' = [config EXCEPT ![s][current[s]] = WithField(@, mapping, l.key, l.value)]
    BY <2>1, <2>2
  <2>4. ItemsOf(config') /\ SameShape(config, config') /\ ChangesNewest
    BY <2>3, FieldsReplaced
  <2>5. /\ \A t \in Sections : current'[t] \in {0, Len(config'[t])}
        /\ ElementInv'
    BY <2>1, <2>4, ShapeKept
  <2>6. context' = context \/ context' \in ListsOf[top]
    BY <2>1 DEF ContextAfter
  <2>7. ContextInv'
    BY <2>1, <2>5, <2>6 DEF ReadInv, ContextInv
  <2> QED BY <2>1, <2>4, <2>5, <2>7 DEF ReadInv
<1> QED BY <1>1, <1>2

\* An item with another list in place of one, in place of the item.
StoresList(c, s, i, name, q, d) == d = [c EXCEPT ![s][i].lists[name] = q]

LEMMA ListReplaced ==
  ASSUME NEW c, ItemsOf(c), NEW s \in Sections, NEW i \in 1 .. Len(c[s]),
         NEW name \in ListsOf[s], NEW q, IsList(q), Len(q) <= Limit[name],
         NEW d, StoresList(c, s, i, name, q, d)
  PROVE  /\ ItemsOf(d)
         /\ Len(d[s]) = Len(c[s])
         /\ d[s][i].lists[name] = q
         /\ \A other \in ListsOf[s] : other # name => d[s][i].lists[other] = c[s][i].lists[other]
         /\ \A j \in 1 .. Len(c[s]) : j # i => d[s][j] = c[s][j]
         /\ \A t \in Sections : t # s => d[t] = c[t]
<1>1. PICK x : HasList(c[s][i], name, q, x)
  BY DEF HasList
<1>2. IsItem(s, c[s][i])
  BY DEF ItemsOf
<1>3. /\ IsItem(s, x) /\ x.lists[name] = q
      /\ \A other \in ListsOf[s] : other # name => x.lists[other] = c[s][i].lists[other]
  BY <1>1, <1>2, ListItem
<1>4. Replaces(c, s, i, x, d)
  BY <1>1 DEF Replaces, HasList, StoresList
<1>5. /\ ItemsOf(d)
      /\ Len(d[s]) = Len(c[s])
      /\ d[s][i] = x
      /\ \A j \in 1 .. Len(c[s]) : j # i => d[s][j] = c[s][j]
      /\ \A t \in Sections : t # s => d[t] = c[t]
  BY <1>3, <1>4, ItemReplaced
<1> QED BY <1>3, <1>5

\* The element of the open list that was begun last takes a field.
LEMMA ElementStep ==
  ASSUME ReadInv, status = "reading", NEW l, top = "paths",
         NEW name \in {"segments", "routes"}, NEW e,
         \/ name = "segments" /\ e = segment
         \/ name = "routes" /\ e = route,
         context = name, e # Nowhere, StoreInElement(name, e, l)
  PROVE  ReadInv' /\ ChangesNewest
<1>1. "paths" \in Sections /\ name \in ListsOf["paths"]
  BY DEF Sections, ListsOf
<1>2. PICK i, j, q : i = e[1] /\ j = e[2] /\ q = config.paths[i].lists[name]
  OBVIOUS
<1>3. i \in 1 .. Len(config.paths) /\ j \in 1 .. Len(q)
  BY <1>2 DEF ReadInv, ElementInv, Placed
<1>4. IsList(q) /\ Len(q) <= Limit[name]
  BY <1>1, <1>2, <1>3 DEF ReadInv, ItemsOf, IsItem
<1>5. PICK w : w = WithField(q[j], name, l.key, l.value)
  OBVIOUS
<1>6. PICK r : r = [q EXCEPT ![j] = w]
  OBVIOUS
<1>7. IsList(r) /\ Len(r) = Len(q)
  BY <1>3, <1>4, <1>6, ListExcept
<1>8. UNCHANGED <<status, parser>> /\ config' = [config EXCEPT !.paths[i].lists[name] = r]
  BY <1>2, <1>5, <1>6 DEF StoreInElement
<1>9. PICK c, d, s : c = config /\ d = config' /\ s = "paths"
  OBVIOUS
<1>10. /\ ItemsOf(c) /\ i \in 1 .. Len(c[s]) /\ IsList(r) /\ Len(r) <= Limit[name]
       /\ s \in Sections /\ name \in ListsOf[s]
       /\ StoresList(c, s, i, name, r, d)
  BY <1>1, <1>3, <1>4, <1>7, <1>8, <1>9 DEF ReadInv, StoresList
<1>11. /\ ItemsOf(d)
       /\ Len(d.paths) = Len(c.paths)
       /\ d.paths[i].lists[name] = r
       /\ \A other \in ListsOf["paths"] : other # name =>
            d.paths[i].lists[other] = c.paths[i].lists[other]
       /\ \A k \in 1 .. Len(c.paths) : k # i => d.paths[k] = c.paths[k]
       /\ \A t \in Sections : t # "paths" => d[t] = c[t]
  <2>1. /\ ItemsOf(d)
        /\ Len(d[s]) = Len(c[s])
        /\ d[s][i].lists[name] = r
        /\ \A other \in ListsOf[s] : other # name => d[s][i].lists[other] = c[s][i].lists[other]
        /\ \A k \in 1 .. Len(c[s]) : k # i => d[s][k] = c[s][k]
        /\ \A t \in Sections : t # s => d[t] = c[t]
    BY <1>10, ListReplaced
  <2> QED BY <1>9, <2>1
<1>12. SameShape(c, d)
  <2>1. ASSUME NEW k \in 1 .. Len(c.paths), NEW other \in ListsOf["paths"]
        PROVE  Len(d.paths[k].lists[other]) = Len(c.paths[k].lists[other])
    <3>1. CASE k # i
      BY <1>11, <3>1
    <3>2. CASE k = i /\ other # name
      BY <1>11, <3>2
    <3>3. CASE k = i /\ other = name
      BY <1>2, <1>7, <1>9, <1>11, <3>3
    <3> QED BY <3>1, <3>2, <3>3
  <2>2. ASSUME NEW t \in Sections
        PROVE  /\ Len(d[t]) = Len(c[t])
               /\ \A k \in 1 .. Len(c[t]) : \A other \in ListsOf[t] :
                    Len(d[t][k].lists[other]) = Len(c[t][k].lists[other])
    <3>1. CASE t = "paths"
      BY <1>11, <2>1, <3>1
    <3>2. CASE t # "paths"
      BY <1>11, <3>2
    <3> QED BY <3>1, <3>2
  <2> QED BY <2>2 DEF SameShape
<1>13. ElementInv' /\ \A t \in Sections : current'[t] \in {0, Len(config'[t])}
  BY <1>8, <1>9, <1>11, <1>12, ShapeKept DEF parser
<1>14. ReadInv'
  BY <1>8, <1>9, <1>11, <1>13 DEF ReadInv, ContextInv, parser
<1>15. ChangesNewest
  <2>1. SUFFICES ASSUME ~ NoElementYet
                 PROVE  \A t \in Sections : \A k \in 1 .. Len(config[t]) - 1 :
                          config'[t][k] = config[t][k]
    BY DEF ChangesNewest
  <2>2. current.paths # 0
    BY DEF ReadInv, ContextInv, Nowhere
  <2>3. config.paths[current.paths].lists[name] # <<>>
    BY <2>1 DEF NoElementYet
  <2>4. i = current.paths
    BY <1>2, <2>2, <2>3 DEF ReadInv, ElementInv, Newest
  <2>5. i = Len(config.paths)
    BY <1>1, <2>2, <2>4, NewestItem
  <2>6. \A k \in 1 .. Len(config.paths) - 1 : k \in 1 .. Len(config.paths) /\ k # i
    BY <1>3, <2>5
  <2>7. \A k \in 1 .. Len(config.paths) - 1 : config'.paths[k] = config.paths[k]
    BY <1>9, <1>11, <2>6
  <2> QED BY <1>9, <1>11, <2>7
<1> QED BY <1>14, <1>15

LEMMA PathLineStep ==
  ASSUME ReadInv, status = "reading", NEW l, path_line(l)
  PROVE  ReadInv' /\ ChangesNewest
<1>1. top = "paths" /\ top \in Sections /\ top # "intents"
  BY DEF path_line, Sections
<1>2. CASE context = "segments" /\ segment # Nowhere /\ StoreInElement("segments", segment, l)
  BY <1>1, <1>2, ElementStep
<1>3. CASE context = "routes" /\ route # Nowhere /\ StoreInElement("routes", route, l)
  BY <1>1, <1>3, ElementStep
<1>4. CASE StoreField("paths", l)
  BY <1>1, <1>4, FieldStep
<1> QED BY <1>2, <1>3, <1>4 DEF path_line

LEMMA FieldLineStep ==
  ASSUME ReadInv, status = "reading", NEW l, field_line(l)
  PROVE  ReadInv' /\ ChangesNewest
<1>1. top \in Sections /\ top # "intents" /\ StoreField(top, l)
  BY DEF field_line, Sections
<1> QED BY <1>1, FieldStep

\* A new item has empty lists, and the items before it stay.
LEMMA BeginStep ==
  ASSUME ReadInv, status = "reading", NEW l, begin_item(l)
  PROVE  ReadInv' /\ ChangesNewest
<1>1. CASE Refuse
  BY <1>1, RefuseStep
<1>2. CASE ~ Refuse
  <2>1. PICK c, d, s, x : /\ c = config /\ d = config' /\ s = top
                          /\ x = WithField(NewItem(s), s, l.key, l.value)
    OBVIOUS
  <2>2. s \in Sections
    BY <2>1 DEF begin_item, InSection, ReadInv, ContextInv
  <2>3. /\ ~ (Len(c[s]) >= Limit[s])
        /\ Becomes(c, s, Append(c[s], x), d)
        /\ current' = [current EXCEPT ![s] = Len(c[s]) + 1]
        /\ context' = ContextAfter(l.key, "none")
        /\ UNCHANGED <<status, top, list_parent, list_indent, segment, route>>
    BY <1>2, <2>1 DEF begin_item, Becomes
  <2>4. IsItem(s, x) /\ \A name \in ListsOf[s] : x.lists[name] = <<>>
    BY <2>1, <2>2, NewItemItem, WithFieldItem
  <2>5. ItemsOf(c) /\ \A t \in Sections : Len(c[t]) \in Nat
    BY <2>1, ListFacts DEF ReadInv, ItemsOf
  <2>6. Len(c[s]) < Limit[s]
    BY <2>2, <2>3, <2>5, Limits, SectionNames
  <2>7. /\ ItemsOf(d)
        /\ Len(d[s]) = Len(c[s]) + 1
        /\ d[s][Len(c[s]) + 1] = x
        /\ \A i \in 1 .. Len(c[s]) : d[s][i] = c[s][i]
        /\ \A t \in Sections : t # s => d[t] = c[t]
    BY <2>2, <2>3, <2>4, <2>5, <2>6, ItemAppended
  <2>8. context' = "none" \/ context' \in ListsOf[top]
    BY <2>3 DEF ContextAfter
  <2>9. /\ DOMAIN current' = Sections /\ current'[s] = Len(d[s]) /\ current'[s] # 0
        /\ \A t \in Sections : t # s => current'[t] = current[t]
    BY <2>2, <2>3, <2>5, <2>7 DEF ReadInv, ContextInv
  <2>10. \A t \in Sections : current'[t] \in {0, Len(d[t])}
    BY <2>1, <2>7, <2>9 DEF ReadInv, ContextInv
  <2>11. top = "intents" => context' \notin ListsOf["intents"]
    BY <2>3, SectionNames DEF ContextAfter, Sections
  <2>12. ContextInv'
    BY <2>1, <2>2, <2>3, <2>8, <2>9, <2>10, <2>11 DEF ReadInv, ContextInv
  <2>13. ASSUME NEW name \in {"segments", "routes"}, NEW e
         PROVE  /\ Placed(c.paths, name, e) => Placed(d.paths, name, e)
                /\ Newest(c.paths, current.paths, name, e) =>
                     Newest(d.paths, current'.paths, name, e)
    <3>1. "paths" \in Sections /\ name \in ListsOf["paths"]
      BY DEF Sections, ListsOf
    <3>2. NotShorter(c, d, name)
      <4>1. \A i \in 1 .. Len(c.paths) : Len(c.paths[i].lists[name]) \in Nat
        BY <2>5, <3>1, ListFacts DEF ItemsOf, IsItem
      <4>2. Len(d.paths) >= Len(c.paths) /\ \A i \in 1 .. Len(c.paths) : d.paths[i] = c.paths[i]
        BY <2>5, <2>7, <3>1
      <4> QED BY <4>1, <4>2 DEF NotShorter
    <3>3. Placed(c.paths, name, e) => Placed(d.paths, name, e)
      BY <2>5, <2>7, <3>2, PlacedAfter
    <3>4. CASE s = "paths"
      BY <2>4, <2>7, <2>9, <3>1, <3>3, <3>4 DEF Newest
    <3>5. CASE s # "paths"
      BY <2>7, <2>9, <3>1, <3>3, <3>5 DEF Newest
    <3> QED BY <3>4, <3>5
  <2>14. ElementInv'
    BY <2>1, <2>3, <2>13 DEF ReadInv, ElementInv
  <2>15. ChangesNewest
    <3>1. ASSUME NEW t \in Sections, NEW i \in 1 .. Len(c[t]) - 1
          PROVE  d[t][i] = c[t][i]
      <4>1. i \in 1 .. Len(c[t])
        BY <2>5
      <4> QED BY <2>7, <4>1
    <3> QED BY <2>1, <3>1 DEF ChangesNewest
  <2> QED BY <2>1, <2>3, <2>7, <2>12, <2>14, <2>15 DEF ReadInv
<1> QED BY <1>1, <1>2

\* A new element of the open list of the newest item.
LEMMA ListItemStep ==
  ASSUME ReadInv, status = "reading", NEW l, list_item(l)
  PROVE  ReadInv' /\ ChangesNewest
<1>1. CASE Refuse
  BY <1>1, RefuseStep
<1>2. CASE ~ Refuse
  <2>1. PICK c, d, s, i, name, q : /\ c = config /\ d = config' /\ s = top
                                   /\ i = current[s] /\ name = context
                                   /\ q = c[s][i].lists[name]
    OBVIOUS
  <2>2. s \in Sections /\ name \in ListsOf[s]
    BY <1>2, <2>1 DEF list_item, InSection, ReadInv, ContextInv
  <2>3. i # 0
    BY <2>1, <2>2, SectionNames DEF ReadInv, ContextInv
  <2>4. i = Len(c[s]) /\ i \in 1 .. Len(c[s]) /\ IsItem(s, c[s][i])
    BY <2>1, <2>2, <2>3, NewestItem
  <2>5. IsList(q) /\ Len(q) \in Nat /\ Len(q) <= Limit[name]
    BY <2>1, <2>2, <2>4, ListFacts DEF IsItem
  <2>6. /\ ~ ItemRefused(l, q)
        /\ \E e : StoresList(c, s, i, name, Append(q, e), d)
        /\ segment' = IF name = "segments" THEN <<i, Len(q) + 1>> ELSE segment
        /\ route' = IF name = "routes" THEN <<i, Len(q) + 1>> ELSE route
        /\ UNCHANGED <<status, top, context, list_parent, list_indent, current>>
    BY <1>2, <2>1, <2>2 DEF list_item, StoresList
  <2>7. PICK e : StoresList(c, s, i, name, Append(q, e), d)
    BY <2>6
  <2>8. Limit[name] \in Nat /\ Len(q) < Limit[name]
    <3>1. name \in Arrays
      BY <2>2, SectionNames
    <3>2. Limit[name] \in Nat
      BY <3>1, Limits
    <3>3. ~ (Len(q) >= Limit[name])
      BY <2>1, <2>6 DEF ItemRefused
    <3> QED BY <2>5, <3>2, <3>3
  <2>9. PICK r : r = Append(q, e)
    OBVIOUS
  <2>10. IsList(r) /\ Len(r) = Len(q) + 1 /\ Len(r) <= Limit[name]
    BY <2>5, <2>8, <2>9, ListAppend
  <2>11. ItemsOf(c) /\ StoresList(c, s, i, name, r, d)
    BY <2>1, <2>7, <2>9 DEF ReadInv
  <2>12. /\ ItemsOf(d)
         /\ Len(d[s]) = Len(c[s])
         /\ d[s][i].lists[name] = r
         /\ \A other \in ListsOf[s] : other # name => d[s][i].lists[other] = c[s][i].lists[other]
         /\ \A k \in 1 .. Len(c[s]) : k # i => d[s][k] = c[s][k]
         /\ \A t \in Sections : t # s => d[t] = c[t]
    BY <2>2, <2>4, <2>10, <2>11, ListReplaced
  <2>13. \A t \in Sections : current'[t] \in {0, Len(d[t])}
    BY <2>1, <2>6, <2>12 DEF ReadInv, ContextInv
  <2>14. ContextInv'
    BY <2>1, <2>6, <2>13 DEF ReadInv, ContextInv
  <2>15. ASSUME NEW other \in {"segments", "routes"}, NEW f, NEW g,
                g = IF name = other THEN <<i, Len(q) + 1>> ELSE f,
                Placed(c.paths, other, f), Newest(c.paths, current.paths, other, f)
         PROVE  Placed(d.paths, other, g) /\ Newest(d.paths, current.paths, other, g)
    <3>1. "paths" \in Sections /\ other \in ListsOf["paths"]
      BY DEF Sections, ListsOf
    <3>2. CASE name = other
      <4>1. s = "paths"
        BY <2>2, <3>1, <3>2, SectionNames
      <4>2. g = <<i, Len(q) + 1>> /\ i \in 1 .. Len(d.paths) /\ i = current.paths
            /\ Len(d.paths[i].lists[other]) = Len(q) + 1
        BY <2>1, <2>4, <2>10, <2>12, <2>15, <3>2, <4>1
      <4>3. g # Nowhere /\ g[1] = i /\ g[2] \in 1 .. Len(d.paths[i].lists[other])
        BY <2>5, <4>2 DEF Nowhere
      <4> QED BY <4>2, <4>3 DEF Placed, Newest
    <3>3. CASE name # other
      <4>1. \A k \in 1 .. Len(c.paths) : d.paths[k].lists[other] = c.paths[k].lists[other]
        <5>1. CASE s = "paths"
          <6> TAKE k \in 1 .. Len(c.paths)
          <6>1. CASE k = i
            BY <2>12, <3>1, <3>3, <5>1, <6>1
          <6>2. CASE k # i
            BY <2>12, <5>1, <6>2
          <6> QED BY <6>1, <6>2
        <5>2. CASE s # "paths"
          BY <2>12, <3>1, <5>2
        <5> QED BY <5>1, <5>2
      <4>2. Len(d.paths) = Len(c.paths) /\ Len(c.paths) \in Nat
        BY <2>11, <2>12, <3>1, ListFacts DEF ItemsOf
      <4>3. current.paths \in {0, Len(c.paths)}
        BY <2>1, <3>1 DEF ReadInv, ContextInv
      <4>4. current.paths # 0 => current.paths \in 1 .. Len(c.paths)
        BY <4>2, <4>3
      <4>5. Placed(d.paths, other, f)
        BY <2>15, <4>1, <4>2 DEF Placed
      <4>6. Newest(d.paths, current.paths, other, f)
        BY <2>15, <4>1, <4>4 DEF Newest
      <4> QED BY <2>15, <3>3, <4>5, <4>6
    <3> QED BY <3>2, <3>3
  <2>16. ElementInv'
    <3>1. /\ Placed(c.paths, "segments", segment) /\ Newest(c.paths, current.paths, "segments", segment)
          /\ Placed(c.paths, "routes", route) /\ Newest(c.paths, current.paths, "routes", route)
      BY <2>1 DEF ReadInv, ElementInv
    <3>2. Placed(d.paths, "segments", segment') /\ Newest(d.paths, current.paths, "segments", segment')
      BY <2>6, <2>15, <3>1
    <3>3. Placed(d.paths, "routes", route') /\ Newest(d.paths, current.paths, "routes", route')
      BY <2>6, <2>15, <3>1
    <3> QED BY <2>1, <2>6, <3>2, <3>3 DEF ElementInv
  <2>17. ChangesNewest
    <3>1. ASSUME NEW t \in Sections, NEW k \in 1 .. Len(c[t]) - 1
          PROVE  d[t][k] = c[t][k]
      <4>1. CASE t = s
        <5>1. k \in 1 .. Len(c[s]) /\ k # i
          BY <2>4, <4>1
        <5> QED BY <2>12, <4>1, <5>1
      <4>2. CASE t # s
        BY <2>12, <4>2
      <4> QED BY <4>1, <4>2
    <3> QED BY <2>1, <3>1 DEF ChangesNewest
  <2> QED BY <2>1, <2>6, <2>12, <2>14, <2>16, <2>17 DEF ReadInv
<1> QED BY <1>1, <1>2

LEMMA StoreInIntentStep ==
  ASSUME ReadInv, status = "reading", NEW l, NEW mapping,
         top = "intents", current["intents"] # 0, StoreInIntent(mapping, l)
  PROVE  ReadInv' /\ ChangesNewest
<1>1. CASE Refuse
  BY <1>1, RefuseStep
<1>2. CASE ~ Refuse
  <2>1. PICK s : s = "intents"
    OBVIOUS
  <2>2. /\ s \in Sections /\ current[s] # 0
        /\ config' = [config EXCEPT ![s][current[s]] = WithField(@, mapping, l.key, l.value)]
        /\ context' = IntentContext(l)
        /\ UNCHANGED <<status, top, list_parent, list_indent, current, segment, route>>
    BY <1>2, <2>1 DEF StoreInIntent, Sections
  <2>3. ItemsOf(config') /\ SameShape(config, config') /\ ChangesNewest
    BY <2>2, FieldsReplaced
  <2>4. /\ \A t \in Sections : current'[t] \in {0, Len(config'[t])}
        /\ ElementInv'
    BY <2>2, <2>3, ShapeKept
  <2>5. context' = context \/ (context \in ListsOf["intents"] /\ context' = list_parent)
    BY <2>2 DEF IntentContext
  <2>6. ContextInv'
    BY <2>1, <2>2, <2>4, <2>5, SectionNames DEF ReadInv, ContextInv
  <2> QED BY <2>2, <2>3, <2>4, <2>6 DEF ReadInv
<1> QED BY <1>1, <1>2

LEMMA IntentLineStep ==
  ASSUME ReadInv, status = "reading", NEW l, intent_line(l)
  PROVE  ReadInv' /\ ChangesNewest
<1>1. CASE Refuse
  BY <1>1, RefuseStep
<1>2. CASE \E mapping : StoreInIntent(mapping, l) /\ current["intents"] # 0 /\ top = "intents"
  BY <1>2, StoreInIntentStep
<1>3. ASSUME top = "intents", current["intents"] # 0, status' = status,
             UNCHANGED <<config, top, current, segment, route>>,
             \/ context' \in IntentMappings /\ list_parent' = list_parent
             \/ context' \in ListsOf["intents"] /\ list_parent' \in IntentMappings
      PROVE  ReadInv' /\ ChangesNewest
  <2>1. "intents" \in Sections
    BY DEF Sections
  <2>2. context' \in ListsOf["intents"] => list_parent' \in IntentMappings
    BY <1>3, SectionNames, <2>1
  <2>3. ContextInv'
    BY <1>3, <2>1, <2>2 DEF ReadInv, ContextInv
  <2>4. ElementInv'
    BY <1>3 DEF ReadInv, ElementInv
  <2> QED BY <1>3, <2>3, <2>4 DEF ReadInv, ChangesNewest
<1>4. CASE l.key \in IntentMappings /\ OpenMapping(l) /\ current["intents"] # 0 /\ top = "intents"
  BY <1>3, <1>4 DEF OpenMapping
<1>5. CASE /\ l.key \in {"candidates", "comparison_order"} /\ OpenList(l, "path_selection")
           /\ current["intents"] # 0 /\ top = "intents"
  <2>1. l.key \in ListsOf["intents"] /\ "path_selection" \in IntentMappings
    BY <1>5 DEF ListsOf, IntentMappings
  <2> QED BY <1>3, <1>5, <2>1 DEF OpenList
<1>6. CASE /\ l.key \in ConstraintLists /\ OpenList(l, "constraints")
           /\ current["intents"] # 0 /\ top = "intents"
  <2>1. l.key \in ListsOf["intents"] /\ "constraints" \in IntentMappings
    BY <1>6 DEF ListsOf, IntentMappings, ConstraintLists
  <2> QED BY <1>3, <1>6, <2>1 DEF OpenList
<1> QED BY <1>1, <1>2, <1>4, <1>5, <1>6 DEF intent_line

LEMMA ParseStep ==
  ASSUME ReadInv, status = "reading", NEW l, parse_line(l)
  PROVE  ReadInv' /\ ChangesNewest
<1>1. CASE Refuse
  BY <1>1, RefuseStep
<1>2. CASE section_line(l)
  BY <1>2, SectionStep
<1>3. CASE begin_item(l)
  BY <1>3, BeginStep
<1>4. CASE list_item(l)
  BY <1>4, ListItemStep
<1>5. CASE field_line(l)
  BY <1>5, FieldLineStep
<1>6. CASE path_line(l)
  BY <1>6, PathLineStep
<1>7. CASE intent_line(l)
  BY <1>7, IntentLineStep
<1> QED BY <1>1, <1>2, <1>3, <1>4, <1>5, <1>6, <1>7
        DEF parse_line, outside_section, malformed_line

-----------------------------------------------------------------------------
(* The end of the file.                                                    *)

\* A path with a prefix has a route.
HasRoute(p) == p.lists.routes = <<>> => Text(p, "route_destination_prefix") = Empty

\* Filling in fields changes no lists; the default route is the only one then.
LEMMA NormalizedPathItem ==
  ASSUME NEW c, NEW p, IsItem("paths", p)
  PROVE  /\ IsItem("paths", NormalizedPath(c, p))
         /\ NormalizedPath(c, p).lists.segments = p.lists.segments
         /\ Len(NormalizedPath(c, p).lists.routes) >= Len(p.lists.routes)
         /\ HasRoute(NormalizedPath(c, p))
<1>1. "paths" \in Sections /\ ListsOf["paths"] = {"waypoints", "segments", "routes"}
  BY DEF Sections, ListsOf
<1>2. PICK p1 : p1 = Filled(p, "egress_tunnel_id", FirstText(p.lists.segments, "tunnel_id"))
  OBVIOUS
<1>3. PICK p2 : p2 = Filled(p1, "route_destination_prefix",
                            TunnelText(c, Text(p1, "egress_tunnel_id"), "remote_traffic_selector"))
  OBVIOUS
<1>4. PICK q : q = Filled(p2, "route_next_hop",
                          TunnelText(c, Text(p1, "egress_tunnel_id"), "remote_endpoint"))
  OBVIOUS
<1>5. PICK p3 : p3 = WithDefaultRoute(q)
  OBVIOUS
<1>6. PICK p4 : p4 = Filled(p3, "route_destination_prefix",
                            FirstText(p3.lists.routes, "destination_prefix"))
  OBVIOUS
<1>7. PICK p5 : p5 = Filled(p4, "route_next_hop", FirstText(p3.lists.routes, "next_hop"))
  OBVIOUS
<1>8. NormalizedPath(c, p) = p5
  BY <1>2, <1>3, <1>4, <1>5, <1>6, <1>7 DEF NormalizedPath
<1>9. IsItem("paths", q) /\ q.lists = p.lists
  BY <1>1, <1>2, <1>3, <1>4, FilledItem
<1>10. /\ IsItem("paths", p3)
       /\ p3.lists.segments = p.lists.segments
       /\ Len(p3.lists.routes) >= Len(p.lists.routes)
       /\ p3.lists.routes = <<>> => Text(p3, "route_destination_prefix") = Empty
  <2>1. IsList(q.lists.routes) /\ Len(q.lists.routes) \in Nat
    BY <1>1, <1>9, ListFacts DEF IsItem
  <2>2. CASE p3 = q
    BY <1>5, <1>9, <2>1, <2>2 DEF WithDefaultRoute
  <2>3. CASE q.lists.routes = <<>> /\ p3 = [q EXCEPT !.lists.routes = <<DefaultRoute(q)>>]
    <3>1. PICK r : r = <<DefaultRoute(q)>>
      OBVIOUS
    <3>2. IsList(r) /\ Len(r) = 1
      BY <3>1, ListOne
    <3>3. Limit["routes"] \in Nat /\ Limit["routes"] >= 1
      BY <1>1, Limits, SectionNames
    <3>4. HasList(q, "routes", r, p3)
      BY <2>3, <3>1 DEF HasList
    <3>5. /\ IsItem("paths", p3) /\ p3.lists["routes"] = r
          /\ \A other \in ListsOf["paths"] : other # "routes" => p3.lists[other] = q.lists[other]
      <4>1. PICK s, name : s = "paths" /\ name = "routes"
        OBVIOUS
      <4>2. /\ s \in Sections /\ name \in ListsOf[s] /\ IsItem(s, q)
            /\ HasList(q, name, r, p3) /\ IsList(r) /\ Len(r) <= Limit[name]
        BY <1>1, <1>9, <3>2, <3>3, <3>4, <4>1
      <4>3. /\ IsItem(s, p3) /\ p3.lists[name] = r
            /\ \A other \in ListsOf[s] : other # name => p3.lists[other] = q.lists[other]
        BY <4>2, ListItem
      <4> QED BY <4>1, <4>3
    <3>6. Len(p.lists.routes) = 0
      BY <1>9, <2>3, NoElements
    <3>7. r # <<>>
      BY <3>2, NoElements
    <3> QED BY <1>1, <1>9, <3>2, <3>5, <3>6, <3>7
  <2> QED BY <1>5, <2>2, <2>3 DEF WithDefaultRoute
<1>11. /\ IsItem("paths", p5) /\ p5.lists = p3.lists
  BY <1>1, <1>6, <1>7, <1>10, FilledItem
<1>12. HasRoute(p5)
  <2>1. SUFFICES ASSUME p5.lists.routes = <<>>
                 PROVE  Text(p5, "route_destination_prefix") = Empty
    BY DEF HasRoute
  <2>2. Text(p3, "route_destination_prefix") = Empty /\ p3.lists.routes = <<>>
    BY <1>10, <1>11, <2>1
  <2>3. FirstText(p3.lists.routes, "destination_prefix") = Empty
    BY <2>2 DEF FirstText
  <2>4. p4 = p3
    BY <1>6, <2>3 DEF Filled
  <2>5. "fields" \in DOMAIN p4 /\ "route_next_hop" # "route_destination_prefix"
    BY <1>10, <2>4 DEF IsItem
  <2>6. Text(p5, "route_destination_prefix") = Text(p4, "route_destination_prefix")
    BY <1>7, <2>5, SetText DEF Filled
  <2> QED BY <2>2, <2>4, <2>6
<1> QED BY <1>8, <1>10, <1>11, <1>12

LEMMA NormalizedEdgeItem ==
  ASSUME NEW e, IsItem("vpp_edges", e)
  PROVE  IsItem("vpp_edges", NormalizedEdge(e))
<1>1. "vpp_edges" \in Sections
  BY DEF Sections
<1> QED BY <1>1, FilledItem DEF NormalizedEdge

\* What the end of the file leaves: the same items, with the same segments.
LEMMA EndStep ==
  ASSUME ReadInv, status = "reading", end_of_file
  PROVE  /\ ReadInv'
         /\ status' # "reading"
         /\ \A i \in 1 .. Len(config'.paths) : HasRoute(config'.paths[i])
<1>1. /\ config' = yaml_normalize(config)
      /\ status' \in {"loaded", "refused"}
      /\ UNCHANGED parser
  BY DEF end_of_file
<1>2. PICK c, d : c = config /\ d = config'
  OBVIOUS
<1>3. {"paths", "vpp_edges"} \subseteq Sections /\ ItemsOf(c)
      /\ \A name \in {"segments", "routes"} : name \in ListsOf["paths"]
  BY <1>2 DEF Sections, ReadInv, ListsOf
<1>4. \A s \in Sections : IsList(c[s]) /\ Len(c[s]) \in Nat /\ DOMAIN c[s] = 1 .. Len(c[s])
  BY <1>3, ListFacts DEF ItemsOf
<1>5. /\ DOMAIN d = Sections
      /\ d.paths = [i \in 1 .. Len(c.paths) |-> NormalizedPath(c, c.paths[i])]
      /\ d.vpp_edges = [i \in 1 .. Len(c.vpp_edges) |-> NormalizedEdge(c.vpp_edges[i])]
      /\ \A s \in Sections : s \notin {"paths", "vpp_edges"} => d[s] = c[s]
  <2>1. DOMAIN c = Sections
    BY <1>3 DEF ItemsOf
  <2>2. d = [c EXCEPT !.paths = [i \in DOMAIN c.paths |-> NormalizedPath(c, c.paths[i])],
                      !.vpp_edges = [i \in DOMAIN c.vpp_edges |-> NormalizedEdge(c.vpp_edges[i])]]
    BY <1>1, <1>2 DEF yaml_normalize
  <2> QED BY <1>3, <1>4, <2>1, <2>2
<1>6. /\ IsList(d.paths) /\ Len(d.paths) = Len(c.paths)
      /\ \A i \in 1 .. Len(c.paths) : d.paths[i] = NormalizedPath(c, c.paths[i])
  <2>1. PICK q, n : q = d.paths /\ n = Len(c.paths)
    OBVIOUS
  <2>2. q = [i \in 1 .. n |-> q[i]] /\ n \in Nat
        /\ \A i \in 1 .. n : q[i] = NormalizedPath(c, c.paths[i])
    BY <1>3, <1>4, <1>5, <2>1
  <2>3. IsList(q) /\ Len(q) = n
    BY <2>2, ListOfFunction
  <2> QED BY <2>1, <2>2, <2>3
<1>7. /\ IsList(d.vpp_edges) /\ Len(d.vpp_edges) = Len(c.vpp_edges)
      /\ \A i \in 1 .. Len(c.vpp_edges) : d.vpp_edges[i] = NormalizedEdge(c.vpp_edges[i])
  <2>1. PICK q, n : q = d.vpp_edges /\ n = Len(c.vpp_edges)
    OBVIOUS
  <2>2. q = [i \in 1 .. n |-> q[i]] /\ n \in Nat
        /\ \A i \in 1 .. n : q[i] = NormalizedEdge(c.vpp_edges[i])
    BY <1>3, <1>4, <1>5, <2>1
  <2>3. IsList(q) /\ Len(q) = n
    BY <2>2, ListOfFunction
  <2> QED BY <2>1, <2>2, <2>3
<1>8. \A i \in 1 .. Len(c.paths) :
        /\ IsItem("paths", d.paths[i])
        /\ d.paths[i].lists.segments = c.paths[i].lists.segments
        /\ Len(d.paths[i].lists.routes) >= Len(c.paths[i].lists.routes)
        /\ HasRoute(d.paths[i])
  BY <1>3, <1>6, NormalizedPathItem DEF ItemsOf
<1>9. \A i \in 1 .. Len(c.vpp_edges) : IsItem("vpp_edges", d.vpp_edges[i])
  BY <1>3, <1>7, NormalizedEdgeItem DEF ItemsOf
<1>10. ItemsOf(d)
  <2>1. ASSUME NEW s \in Sections
        PROVE  /\ IsList(d[s]) /\ Len(d[s]) = Len(c[s])
               /\ \A i \in 1 .. Len(d[s]) : IsItem(s, d[s][i])
    <3>1. CASE s = "paths"
      BY <1>6, <1>8, <3>1
    <3>2. CASE s = "vpp_edges"
      BY <1>7, <1>9, <3>2
    <3>3. CASE s \notin {"paths", "vpp_edges"}
      BY <1>3, <1>5, <3>3 DEF ItemsOf
    <3> QED BY <3>1, <3>2, <3>3
  <2> QED BY <1>3, <1>5, <2>1 DEF ItemsOf
<1>11. \A s \in Sections : Len(d[s]) = Len(c[s])
  BY <1>5, <1>6, <1>7
<1>12. ContextInv'
  BY <1>1, <1>2, <1>11 DEF ReadInv, ContextInv, parser
<1>13. ASSUME NEW name \in {"segments", "routes"}, NEW e, Placed(c.paths, name, e)
       PROVE  Placed(d.paths, name, e)
  <2>1. \A i \in 1 .. Len(c.paths) : Len(c.paths[i].lists[name]) \in Nat
    BY <1>3, ListFacts DEF ItemsOf, IsItem
  <2>2. NotShorter(c, d, name)
    BY <1>3, <1>4, <1>6, <1>8, <2>1 DEF NotShorter
  <2> QED BY <1>3, <1>10, <1>13, <2>2, PlacedAfter
<1>14. ElementInv'
  BY <1>1, <1>2, <1>13 DEF ReadInv, ElementInv, parser
<1> QED BY <1>1, <1>2, <1>6, <1>8, <1>10, <1>12, <1>14 DEF ReadInv

-----------------------------------------------------------------------------
(* The theorems.                                                           *)

LoadedInv ==
  status = "loaded" =>
    /\ en_yaml_config_validate(config)
    /\ \A i \in 1 .. Len(config.paths) : HasRoute(config.paths[i])

YamlInv == ReadInv /\ LoadedInv

LEMMA YamlBegins ==
  ASSUME YamlInit
  PROVE  YamlInv
<1>1. ItemsOf(config)
  BY NoElements, Limits, SectionNames DEF YamlInit, NoItems, ItemsOf
<1>2. ContextInv
  BY NoElements, SectionNames DEF YamlInit, ContextInv, Sections
<1>3. ElementInv
  BY DEF YamlInit, ElementInv, Placed, Newest, Sections
<1> QED BY <1>1, <1>2, <1>3 DEF YamlInit, YamlInv, ReadInv, LoadedInv

LEMMA YamlStep ==
  ASSUME YamlInv, [YamlNext]_vars
  PROVE  YamlInv' /\ (UNCHANGED config \/ ChangesNewest)
<1>1. CASE read_line
  <2>1. PICK l \in Vocabularies[kind] : parse_line(l)
    BY <1>1 DEF read_line
  <2>2. ReadInv' /\ ChangesNewest
    BY <1>1, <2>1, ParseStep DEF read_line, YamlInv
  <2>3. status' \in {"reading", "refused"}
    BY <1>1, <2>1 DEF read_line, parse_line, section_line, outside_section, malformed_line,
      begin_item, list_item, field_line, path_line, intent_line, Refuse, StoreField,
      StoreInElement, StoreInIntent, OpenList, OpenMapping
  <2> QED BY <2>2, <2>3 DEF YamlInv, LoadedInv
<1>2. CASE end_of_file
  <2>1. /\ ReadInv' /\ status' # "reading"
        /\ \A i \in 1 .. Len(config'.paths) : HasRoute(config'.paths[i])
    BY <1>2, EndStep DEF end_of_file, YamlInv
  <2>2. status' = "loaded" => en_yaml_config_validate(config')
    BY <1>2 DEF end_of_file
  <2> QED BY <2>1, <2>2 DEF YamlInv, LoadedInv, ChangesNewest
<1>3. CASE UNCHANGED vars
  BY <1>3 DEF vars, parser, YamlInv, ReadInv, LoadedInv, ContextInv, ElementInv
<1> QED BY <1>1, <1>2, <1>3 DEF YamlNext

LEMMA YamlInvariant == YamlSpec => []YamlInv
BY YamlBegins, YamlStep, PTL DEF YamlSpec

\* No line is stored where there is no room, or in an item, list or element that was
\* not begun (en_yaml_config_load_file).
THEOREM YamlStoresInPlace == YamlSpec => []YamlTypeOK
<1>1. YamlInv => YamlTypeOK
  <2>1. SUFFICES ASSUME YamlInv
                 PROVE  YamlTypeOK
    OBVIOUS
  <2>2. ReadInv
    BY <2>1 DEF YamlInv
  <2>3. ASSUME NEW s \in Sections
        PROVE  /\ Len(config[s]) <= Limit[s]
               /\ \A i \in DOMAIN config[s] : \A list \in ListsOf[s] :
                    Len(config[s][i].lists[list]) <= Limit[list]
    <3>1. DOMAIN config[s] = 1 .. Len(config[s])
      BY <2>2, ListFacts DEF ReadInv, ItemsOf
    <3> QED BY <2>2, <3>1 DEF ReadInv, ItemsOf, IsItem
  <2>4. /\ top \in Sections \cup {"none"}
        /\ context \in {"none"} \cup (IF top = "none" THEN {} ELSE ListsOf[top])
                       \cup (IF top = "intents" THEN IntentMappings ELSE {})
    BY <2>2, SectionNames DEF ReadInv, ContextInv
  <2>5. ASSUME NEW name \in {"segments", "routes"}, NEW e, e # Nowhere,
               Placed(config.paths, name, e)
        PROVE  e[2] \in DOMAIN config.paths[e[1]].lists[name]
    <3>1. "paths" \in Sections /\ name \in ListsOf["paths"]
      BY DEF Sections, ListsOf
    <3>2. e[1] \in 1 .. Len(config.paths) /\ e[2] \in 1 .. Len(config.paths[e[1]].lists[name])
      BY <2>5 DEF Placed
    <3>3. IsList(config.paths[e[1]].lists[name])
      BY <2>2, <3>1, <3>2 DEF ReadInv, ItemsOf, IsItem
    <3> QED BY <3>2, <3>3, ListFacts
  <2>6. ItemExists
    <3>1. context # "none" => top \in Sections /\ current[top] # 0
      BY <2>2, SectionNames DEF ReadInv, ContextInv, Sections
    <3>2. \A s \in Sections : current[s] \in {0, Len(config[s])}
      BY <2>2 DEF ReadInv, ContextInv
    <3>3. Placed(config.paths, "segments", segment) /\ Placed(config.paths, "routes", route)
      BY <2>2 DEF ReadInv, ElementInv
    <3> QED BY <2>5, <3>1, <3>2, <3>3 DEF ItemExists
  <2> QED BY <2>2, <2>3, <2>4, <2>6 DEF YamlTypeOK, ReadInv
<1> QED BY <1>1, YamlInvariant, PTL

\* Whatever the order of the lines, a line changes the newest item of its section, but
\* for a field in a list of segments or routes without an element.
THEOREM YamlChangesNewest == YamlSpec => OnlyNewestChanges
<1>1. ASSUME YamlInv, [YamlNext]_vars
      PROVE  [ status' = "reading" /\ ~NoElementYet =>
                 \A s \in Sections : \A i \in 1 .. Len(config[s]) - 1 :
                   config'[s][i] = config[s][i] ]_vars
  BY <1>1, YamlStep DEF ChangesNewest
<1> QED BY <1>1, YamlInvariant, PTL DEF YamlSpec, OnlyNewestChanges

\* An id that is unique and that some item has is that of one item.
LEMMA OneHas ==
  ASSUME NEW items, NEW id,
         \A i, j \in DOMAIN items : Text(items[i], "id") = Text(items[j], "id") => i = j,
         Has(items, "id", id)
  PROVE  Cardinality(At(items, "id", id)) = 1
<1>1. PICK i : i \in At(items, "id", id)
  BY DEF Has
<1>2. At(items, "id", id) = {i}
  BY <1>1 DEF At
<1> QED BY <1>2, FS_Singleton

\* What a loaded configuration may be relied on for: ids name one item, candidates and
\* tunnels are there, every path is carried, every route is complete and starts at an edge
\* (yaml_normalize, en_yaml_config_validate).
THEOREM YamlLoadedUsable == YamlSpec => []LoadedIsUsable
<1>1. YamlInv => LoadedIsUsable
  <2>1. SUFFICES ASSUME YamlInv, status = "loaded"
                 PROVE  LoadedIsUsable
    BY DEF LoadedIsUsable
  <2> DEFINE Ids(s) == \A i, j \in DOMAIN config[s] :
                         Text(config[s][i], "id") = Text(config[s][j], "id") => i = j
  <2>2. en_yaml_config_validate(config) /\ \A i \in 1 .. Len(config.paths) : HasRoute(config.paths[i])
    BY <2>1 DEF YamlInv, LoadedInv
  <2>3. DOMAIN config.paths = 1 .. Len(config.paths)
    <3>1. "paths" \in Sections
      BY DEF Sections
    <3> QED BY <2>1, <3>1, ListFacts DEF YamlInv, ReadInv, ItemsOf
  <2>4. Ids("nodes")
    BY <2>2 DEF en_yaml_config_validate, UniqueIn, ValidNode, Tokens
  <2>5. Ids("tunnels")
    BY <2>2 DEF en_yaml_config_validate, UniqueIn, ValidTunnel, Tokens
  <2>6. Ids("paths")
    BY <2>2 DEF en_yaml_config_validate, UniqueIn, ValidPath, Tokens
  <2>7. Ids("intents")
    BY <2>2 DEF en_yaml_config_validate, UniqueIn, ValidIntent, Tokens
  <2>8. ASSUME NEW i \in DOMAIN config.intents, NEW j \in DOMAIN config.intents[i].lists.candidates
        PROVE  Cardinality(At(config.paths, "id", config.intents[i].lists.candidates[j])) = 1
    <3>1. Has(config.paths, "id", config.intents[i].lists.candidates[j])
      BY <2>2 DEF en_yaml_config_validate, ValidIntent
    <3> QED BY <2>6, <3>1, OneHas
  <2>9. ASSUME NEW i \in DOMAIN config.paths
        PROVE  LET p == config.paths[i]
               IN /\ p.lists.segments # <<>> \/ p.lists.routes # <<>>
                  /\ Text(p, "route_destination_prefix") # Empty => p.lists.routes # <<>>
                  /\ \A j \in DOMAIN p.lists.segments :
                       Cardinality(At(config.tunnels, "id",
                                      Text(p.lists.segments[j], "tunnel_id"))) = 1
                  /\ \A j \in DOMAIN p.lists.routes :
                       LET r == p.lists.routes[j]
                       IN /\ Empty \notin {Text(r, "node_id"), Text(r, "destination_prefix"),
                                           Text(r, "next_hop")}
                          /\ config.vpp_edges # <<>> =>
                               \E k \in DOMAIN config.vpp_edges :
                                 Text(config.vpp_edges[k], "node_id") = Text(r, "node_id")
    <3> DEFINE p == config.paths[i]
    <3>1. ValidPath(config, p)
      BY <2>2 DEF en_yaml_config_validate
    <3>2. p.lists.segments # <<>> \/ p.lists.routes # <<>>
      BY <3>1 DEF ValidPath
    <3>3. Text(p, "route_destination_prefix") # Empty => p.lists.routes # <<>>
      BY <2>2, <2>3 DEF HasRoute
    <3>4. ASSUME NEW j \in DOMAIN p.lists.segments
          PROVE  Cardinality(At(config.tunnels, "id", Text(p.lists.segments[j], "tunnel_id"))) = 1
      <4>1. Has(config.tunnels, "id", Text(p.lists.segments[j], "tunnel_id"))
        BY <3>1 DEF ValidPath, ValidSegment
      <4> QED BY <2>5, <4>1, OneHas
    <3>5. ASSUME NEW j \in DOMAIN p.lists.routes
          PROVE  LET r == p.lists.routes[j]
                 IN /\ Empty \notin {Text(r, "node_id"), Text(r, "destination_prefix"),
                                     Text(r, "next_hop")}
                    /\ config.vpp_edges # <<>> =>
                         \E k \in DOMAIN config.vpp_edges :
                           Text(config.vpp_edges[k], "node_id") = Text(r, "node_id")
      <4> DEFINE r == p.lists.routes[j]
      <4>1. ValidRoute(config, r)
        BY <3>1 DEF ValidPath
      <4>2. Empty \notin {Text(r, "node_id"), Text(r, "destination_prefix"), Text(r, "next_hop")}
        BY <4>1 DEF ValidRoute, Tokens, Token
      <4>3. config.vpp_edges # <<>> =>
              \E k \in DOMAIN config.vpp_edges :
                Text(config.vpp_edges[k], "node_id") = Text(r, "node_id")
        BY <4>1 DEF ValidRoute, AtEdge, EdgesOf, At
      <4> QED BY <4>2, <4>3
    <3> QED BY <3>2, <3>3, <3>4, <3>5
  <2> QED BY <2>4, <2>5, <2>6, <2>7, <2>8, <2>9 DEF LoadedIsUsable
<1> QED BY <1>1, YamlInvariant, PTL
-----------------------------------------------------------------------------
(* What is open, and what the parser makes of it.                          *)

\* The open blocks: a section, its item, and what is deeper than an item.
StackInv ==
  /\ IsList(open)
  /\ \A i \in 1 .. Len(open) : open[i].indent \in Int
  /\ Len(open) >= 1 => open[1].indent = 0 /\ open[1].name = top /\ top \in Sections
  /\ Len(open) >= 2 => open[2].indent = 2 /\ open[2].name = "-" /\ current[top] # 0
  /\ \A i \in 3 .. Len(open) : open[i].indent > 2

\* Which blocks of an intent can be lists and mappings; the innermost one is the context.
IntentBlocks == IntentMappings \cup ListsOf["intents"]
IntentBlock(p) ==
  /\ open[p].name \in IntentMappings =>
       p = 3 \/ (p = 4 /\ open[p].name = "constraints" /\ open[3].name = "path_selection")
  /\ open[p].name \in ListsOf["intents"] =>
       p \in {4, 5} /\ open[p - 1].name \in {"path_selection", "constraints"}
InnerContext(p) ==
  open[p].name \in IntentBlocks /\ (\A q \in p + 1 .. Len(open) : open[q].name \notin IntentBlocks) =>
    /\ context = open[p].name
    /\ context \in ListsOf["intents"] =>
         list_parent = open[p - 1].name /\ list_indent = open[p].indent
IntentStack ==
  top = "intents" => \A p \in 3 .. Len(open) : IntentBlock(p) /\ InnerContext(p)

\* A list of another item that is open is the context, and its last element the one that
\* was begun last.
LastElement(name) ==
  <<current.paths, Len(config.paths[current.paths].lists[name])>>
ElementStack(name, e) ==
  Len(open) >= 4 /\ open[3].name = name => e = LastElement(name) /\ e[2] # 0
ListStack ==
  top # "intents" /\ Len(open) >= 3 /\ open[3].name \in ListsOf[top] =>
    /\ context = open[3].name
    /\ ElementStack("segments", segment) /\ ElementStack("routes", route)

Understood == config = meant /\ StackInv /\ IntentStack /\ ListStack
MeantInv == status = "reading" /\ meant # Unknown => Understood

-----------------------------------------------------------------------------
(* Where a line stands.                                                    *)

\* A dash opens a block, and a key without a value another one.
OpensBlocks(l, n) ==
  IF l.item
  THEN /\ Len(open') \in {n + 1, n + 2}
       /\ open'[n + 1].indent = l.indent /\ open'[n + 1].name = "-"
       /\ Len(open') = n + 2 =>
            open'[n + 2].indent = l.indent + 2 /\ open'[n + 2].name = l.key /\ l.key # NoKey
  ELSE IF l.key # NoKey /\ l.value = Empty
  THEN Len(open') = n + 1 /\ open'[n + 1].indent = l.indent /\ open'[n + 1].name = l.key
  ELSE Len(open') = n

\* The line l stands in the first n blocks, and closes the next one.
Stands(l, n) ==
  /\ n \in Nat /\ n <= Len(open)
  /\ \A i \in 1 .. n : ~ Closes(l, open[i])
  /\ n < Len(open) => Closes(l, open[n + 1])
  /\ IsList(open') /\ \A i \in 1 .. n : open'[i] = open[i]
  /\ OpensBlocks(l, n)

LEMMA EnclosingBlocks ==
  ASSUME IsList(open), NEW l, NEW names, IsList(names), Names(Enclosing(l)) = names,
         NEW n, n = Len(names)
  PROVE  /\ n \in Nat /\ n <= Len(open)
         /\ IsList(Enclosing(l)) /\ Len(Enclosing(l)) = n
         /\ \A i \in 1 .. n : /\ Enclosing(l)[i] = open[i] /\ open[i].name = names[i]
                              /\ ~ Closes(l, open[i])
         /\ n < Len(open) => Closes(l, open[n + 1])
<1> DEFINE within == {m \in DOMAIN open : \A j \in 1 .. m : ~ Closes(l, open[j])}
<1>1. n \in Nat /\ DOMAIN names = 1 .. n /\ Len(open) \in Nat /\ DOMAIN open = 1 .. Len(open)
  BY ListFacts
<1>2. PICK e : e = Enclosing(l)
  OBVIOUS
<1>3. DOMAIN e = within /\ \A i \in within : e[i] = open[i]
  BY <1>2 DEF Enclosing
<1>4. within = 1 .. n /\ \A i \in 1 .. n : names[i] = e[i].name
  BY <1>1, <1>2, <1>3 DEF Names
<1>5. e = [i \in 1 .. n |-> e[i]]
  BY <1>2, <1>4 DEF Enclosing
<1>6. IsList(e) /\ Len(e) = n
  BY <1>1, <1>5, ListOfFunction
<1>7. \A i \in 1 .. n : i \in DOMAIN open /\ ~ Closes(l, open[i])
  BY <1>1, <1>4
<1>8. n <= Len(open)
  BY <1>1, <1>7
<1>9. ASSUME n < Len(open), ~ Closes(l, open[n + 1])
      PROVE  FALSE
  <2>1. n + 1 \in DOMAIN open /\ n + 1 \notin 1 .. n
    BY <1>1, <1>9
  <2>2. \A j \in 1 .. n + 1 : ~ Closes(l, open[j])
    BY <1>1, <1>7, <1>9
  <2> QED BY <1>4, <2>1, <2>2
<1> QED BY <1>1, <1>2, <1>3, <1>4, <1>6, <1>7, <1>8, <1>9

\* Two lists, one after the other.
LEMMA ListConcat ==
  ASSUME NEW q, IsList(q), NEW r, IsList(r)
  PROVE  /\ IsList(q \o r) /\ Len(q \o r) = Len(q) + Len(r)
         /\ \A i \in 1 .. Len(q) : (q \o r)[i] = q[i]
         /\ \A i \in 1 .. Len(r) : (q \o r)[Len(q) + i] = r[i]
<1> DEFINE S == {q[i] : i \in DOMAIN q} \cup {r[i] : i \in DOMAIN r}
<1>1. q \in Seq(S) /\ r \in Seq(S)
  BY SeqMonotonic DEF IsList
<1>0. Len(q) \in Nat /\ Len(r) \in Nat
  BY ListFacts
<1> HIDE DEF S
<1>2. /\ q \o r \in Seq(S) /\ Len(q \o r) = Len(q) + Len(r)
      /\ \A i \in 1 .. Len(q) + Len(r) :
           (q \o r)[i] = IF i <= Len(q) THEN q[i] ELSE r[i - Len(q)]
  BY <1>1, ConcatProperties
<1>3. DOMAIN (q \o r) = 1 .. Len(q \o r)
  BY <1>2, LenProperties
<1>4. Len(q \o r) \in Nat /\ q \o r = [i \in 1 .. Len(q \o r) |-> (q \o r)[i]]
  BY <1>2, LenProperties
<1>5. IsList(q \o r)
  BY <1>4, ListOfFunction
<1> QED BY <1>0, <1>2, <1>5

LEMMA OpenedBlocks ==
  ASSUME NEW l, l.item \in BOOLEAN, l.indent \in Int, NEW e, IsList(e), NEW n, n = Len(e), open' = e \o Opened(l)
  PROVE  IsList(open') /\ OpensBlocks(l, n) /\ \A i \in 1 .. n : open'[i] = e[i]
<1> DEFINE dash == [indent |-> l.indent, name |-> "-"]
           block == [indent |-> l.indent + (IF l.item THEN 2 ELSE 0), name |-> l.key]
           begun == IF l.item THEN <<dash>> ELSE <<>>
           named == IF l.key = NoKey \/ l.value # Empty THEN <<>> ELSE <<block>>
<1>1. PICK a, b : a = begun /\ b = named
  OBVIOUS
<1>2. open' = e \o (a \o b)
  BY <1>1 DEF Opened
<1>3. /\ IsList(a) /\ Len(a) = IF l.item THEN 1 ELSE 0
      /\ l.item => a[1] = dash
  BY <1>1, ListOne, NoElements
<1>4. /\ IsList(b) /\ Len(b) = IF l.key = NoKey \/ l.value # Empty THEN 0 ELSE 1
      /\ Len(b) = 1 => b[1] = block /\ l.key # NoKey
  BY <1>1, ListOne, NoElements
<1>11. IsList(a) /\ IsList(b)
  BY <1>3, <1>4
<1> HIDE DEF begun, named
<1>5. PICK o : o = a \o b
  OBVIOUS
<1>6. /\ IsList(o) /\ Len(o) = Len(a) + Len(b)
      /\ \A i \in 1 .. Len(a) : o[i] = a[i]
      /\ \A i \in 1 .. Len(b) : o[Len(a) + i] = b[i]
  BY <1>5, <1>11, ListConcat
<1>7. /\ IsList(open') /\ Len(open') = n + Len(o)
      /\ \A i \in 1 .. n : open'[i] = e[i]
      /\ \A i \in 1 .. Len(o) : open'[n + i] = o[i]
  BY <1>2, <1>5, <1>6, ListConcat
<1>8. n \in Nat
  BY ListFacts
<1>9. CASE l.item
  <2>1. Len(a) = 1 /\ a[1] = dash /\ Len(b) \in {0, 1}
    BY <1>3, <1>4, <1>9
  <2>2. Len(o) \in {1, 2} /\ o[1] = dash
    <3>1. PICK j, k : j = Len(a) /\ k = Len(b)
      OBVIOUS
    <3>2. j = 1 /\ k \in {0, 1} /\ Len(o) = j + k
      BY <1>6, <2>1, <3>1
    <3>3. o[1] = a[1]
      BY <1>6, <2>1
    <3> QED BY <2>1, <3>2, <3>3
  <2>3. Len(open') \in {n + 1, n + 2} /\ open'[n + 1] = dash
    <3>1. 1 \in 1 .. Len(o) /\ Len(o) \in {1, 2}
      BY <2>2
    <3>2. open'[n + 1] = o[1]
      BY <1>7, <3>1
    <3> QED BY <1>7, <1>8, <2>2, <3>1, <3>2
  <2>4. ASSUME Len(open') = n + 2
        PROVE  open'[n + 2] = block /\ l.key # NoKey
    <3>1. Len(o) = 2 /\ Len(b) = 1
      BY <1>6, <1>7, <1>8, <2>1, <2>2, <2>4
    <3>2. o[2] = block /\ l.key # NoKey
      BY <1>4, <1>6, <2>1, <3>1
    <3> QED BY <1>7, <3>1, <3>2
  <2>5. dash.indent = l.indent /\ dash.name = "-" /\ block.indent = l.indent + 2
        /\ block.name = l.key
    BY <1>9
  <2> HIDE DEF dash, block
  <2>6. OpensBlocks(l, n)
    BY <1>9, <2>3, <2>4, <2>5 DEF OpensBlocks
  <2> QED BY <1>7, <2>6
<1>10. CASE ~ l.item
  <2>1. Len(a) = 0
    BY <1>3, <1>10
  <2>2. CASE l.key # NoKey /\ l.value = Empty
    <3>1. Len(b) = 1 /\ b[1] = block /\ Len(o) = 1
      BY <1>4, <1>6, <2>1, <2>2
    <3>2. o[1] = block
      BY <1>6, <2>1, <3>1
    <3>3. Len(open') = n + 1 /\ open'[n + 1] = block
      BY <1>7, <1>8, <3>1, <3>2
    <3>4. block.indent = l.indent /\ block.name = l.key
      BY <1>10
    <3> HIDE DEF block
    <3>5. Len(open') = n + 1 /\ open'[n + 1].indent = l.indent /\ open'[n + 1].name = l.key
      BY <3>3, <3>4
    <3>6. OpensBlocks(l, n)
      BY <1>10, <2>2, <3>5 DEF OpensBlocks
    <3> QED BY <1>7, <3>6
  <2>3. CASE ~ (l.key # NoKey /\ l.value = Empty)
    <3>1. Len(b) = 0 /\ Len(o) = 0
      BY <1>4, <1>6, <2>1, <2>3
    <3> QED BY <1>7, <1>8, <1>10, <2>3, <3>1 DEF OpensBlocks
  <2> QED BY <2>2, <2>3
<1> QED BY <1>9, <1>10

InLayout(l, names) ==
  \/ SectionLine(l, names) \/ FirstLine(l, names) \/ ItemLine(l, names)
  \/ ElementLine(l, names) \/ ListLine(l, names)
  \/ \E mapping \in IntentMappings : MappingLine(l, mapping, names)

LEMMA ShortLists ==
  ASSUME NEW a, NEW b, NEW c, NEW d, NEW e
  PROVE  /\ IsList(<<a, b>>) /\ Len(<<a, b>>) = 2
         /\ IsList(<<a, b, c>>) /\ Len(<<a, b, c>>) = 3
         /\ IsList(<<a, b, c, d>>) /\ Len(<<a, b, c, d>>) = 4
         /\ IsList(<<a, b, c, d, e>>) /\ Len(<<a, b, c, d, e>>) = 5
<1>1. <<a, b>> = [i \in 1 .. 2 |-> <<a, b>>[i]]
  OBVIOUS
<1>2. <<a, b, c>> = [i \in 1 .. 3 |-> <<a, b, c>>[i]]
  OBVIOUS
<1>3. <<a, b, c, d>> = [i \in 1 .. 4 |-> <<a, b, c, d>>[i]]
  OBVIOUS
<1>4. <<a, b, c, d, e>> = [i \in 1 .. 5 |-> <<a, b, c, d, e>>[i]]
  OBVIOUS
<1> QED BY <1>1, <1>2, <1>3, <1>4, ListOfFunction

LEMMA LayoutNames ==
  ASSUME NEW l, NEW names, InLayout(l, names)
  PROVE  IsList(names)
<1>1. CASE SectionLine(l, names)
  BY <1>1, NoElements DEF SectionLine
<1>2. CASE FirstLine(l, names)
  BY <1>2, ListOne DEF FirstLine
<1>3. CASE ItemLine(l, names)
  BY <1>3, ShortLists DEF ItemLine
<1>4. CASE ElementLine(l, names)
  BY <1>4, ShortLists DEF ElementLine
<1>5. CASE ListLine(l, names)
  BY <1>5, ShortLists DEF ListLine
<1>6. CASE \E mapping \in IntentMappings : MappingLine(l, mapping, names)
  BY <1>6, ShortLists DEF MappingLine
<1> QED BY <1>1, <1>2, <1>3, <1>4, <1>5, <1>6 DEF InLayout

\* A line that is understood is one of the layout, and stands where its indentation says.
LEMMA Standing ==
  ASSUME IsList(open), kind \in DOMAIN Vocabularies, NEW l \in Vocabularies[kind],
         understand(l), meant' # Unknown
  PROVE  /\ l.item \in BOOLEAN /\ l.indent \in Nat
         /\ \E names \in l.under :
              /\ InLayout(l, names) /\ IsList(names) /\ Stands(l, Len(names))
              /\ \A i \in 1 .. Len(names) : open[i].name = names[i]
              /\ meant # Unknown /\ meant' = Meaning(meant, l, names)
              /\ ~ (/\ names = <<"intents", "-", "path_selection">>
                    /\ l.key \in Known["path_selection"]
                    /\ \E i \in DOMAIN open : open[i].name = "constraints")
<1>1. PICK blocks, names : blocks = Enclosing(l) /\ names = Names(blocks)
  OBVIOUS
<1>2. /\ meant # Unknown /\ names \in l.under /\ ~ Lost(l, blocks)
      /\ meant' = Meaning(meant, l, names) /\ open' = blocks \o Opened(l)
  BY <1>1 DEF understand
<1>3. l.item \in BOOLEAN /\ l.indent \in Nat
  BY YamlAssumption
<1>4. InLayout(l, names)
  BY <1>2, LayoutAssumption DEF InLayout
<1>5. IsList(names)
  BY <1>4, LayoutNames
<1>6. PICK n : n = Len(names)
  OBVIOUS
<1>7. /\ n \in Nat /\ n <= Len(open) /\ IsList(blocks) /\ Len(blocks) = n
      /\ \A i \in 1 .. n : blocks[i] = open[i] /\ open[i].name = names[i] /\ ~ Closes(l, open[i])
      /\ n < Len(open) => Closes(l, open[n + 1])
  BY <1>1, <1>5, <1>6, EnclosingBlocks
<1>8. IsList(open') /\ OpensBlocks(l, n) /\ \A i \in 1 .. n : open'[i] = blocks[i]
  BY <1>2, <1>3, <1>7, OpenedBlocks
<1>9. Stands(l, n)
  BY <1>7, <1>8 DEF Stands
<1> QED BY <1>1, <1>2, <1>3, <1>4, <1>5, <1>6, <1>7, <1>9 DEF Lost

-----------------------------------------------------------------------------
(* What a line means.                                                      *)

LEMMA MeaningOfItem ==
  ASSUME NEW m, NEW l, NEW s \in Sections
  PROVE  /\ Meaning(m, l, <<>>) = m
         /\ Becomes(m, s, Append(m[s], WithField(NewItem(s), s, l.key, l.value)),
                    Meaning(m, l, <<s>>))
         /\ Becomes(m, s, FieldMeaning(m[s], s, l), Meaning(m, l, <<s, "-">>))
<1>1. Meaning(m, l, <<>>) = m
  BY DEF Meaning
<1>2. PICK one : one = <<s>>
  OBVIOUS
<1>3. one # <<>> /\ Len(one) = 1 /\ one[1] = s
  BY <1>2, ListOne, NoElements
<1>4. Becomes(m, s, Append(m[s], WithField(NewItem(s), s, l.key, l.value)), Meaning(m, l, one))
  BY <1>3 DEF Meaning, Becomes
<1>5. PICK two : two = <<s, "-">>
  OBVIOUS
<1>6. two # <<>> /\ Len(two) = 2 /\ two[1] = s /\ Owner(two) = s
  BY <1>5, ShortLists, NoElements DEF Owner
<1>7. s \notin ListsOf[s]
  BY DEF Sections, ListsOf
<1>8. Becomes(m, s, FieldMeaning(m[s], s, l), Meaning(m, l, two))
  BY <1>6, <1>7 DEF Meaning, Becomes
<1> QED BY <1>1, <1>2, <1>4, <1>5, <1>8

\* The lines of a mapping are fields of the intent.
LEMMA MeaningInMapping ==
  ASSUME NEW m, NEW l, NEW mapping \in IntentMappings, NEW names, IsList(names),
         Len(names) >= 3, names[1] = "intents", names[Len(names)] = mapping
  PROVE  Becomes(m, "intents", FieldMeaning(m["intents"], mapping, l), Meaning(m, l, names))
<1>1. Len(names) \in Nat /\ names # <<>> /\ Len(names) # 1
  BY ListFacts
<1>2. mapping \notin ListsOf["intents"] /\ mapping # "-"
  BY DEF IntentMappings, ListsOf
<1>3. Owner(names) = mapping
  BY <1>2 DEF Owner
<1> QED BY <1>1, <1>2, <1>3 DEF Meaning, Becomes

\* The lines of a list are its elements, and deeper ones fields of the last.
LEMMA MeaningInList ==
  ASSUME NEW m, NEW l, NEW s \in Sections, NEW list \in ListsOf[s], NEW names, IsList(names),
         Len(names) >= 3, names[1] = s,
         \/ names[Len(names)] = list
         \/ names[Len(names)] = "-" /\ names[Len(names) - 1] = list
  PROVE  StoresList(m, s, Len(m[s]), list, ElementMeaning(m[s][Len(m[s])].lists[list], list, l),
                    Meaning(m, l, names))
<1>1. Len(names) \in Nat /\ names # <<>> /\ Len(names) # 1
  BY ListFacts
<1>2. list # "-"
  BY DEF Sections, ListsOf
<1>3. Owner(names) = list
  BY <1>2 DEF Owner
<1> QED BY <1>1, <1>3 DEF Meaning, StoresList

\* The keys of lists and mappings are not fields.
LEMMA KeysOfLists ==
  ASSUME NEW key \in Arrays \cup IntentMappings, NEW mapping \in DOMAIN Known
  PROVE  FieldOf(mapping, key) = key /\ key \notin Known[mapping]
<1>1. key \in {"endpoints", "capabilities", "waypoints", "segments", "routes", "candidates",
               "comparison_order", "forbidden_waypoints", "required_waypoints",
               "required_capabilities", "allowed_vlans", "nodes", "tunnels", "paths", "intents",
               "vpp_edges", "traffic", "path_selection", "constraints", "transition", "fallback"}
  BY DEF Arrays, Sections, ListsOf, IntentMappings
<1>2. FieldOf(mapping, key) = key
  BY <1>1 DEF FieldOf
<1>3. key \notin Known[mapping]
  BY <1>1 DEF Known
<1> QED BY <1>2, <1>3

\* A key is a field of a mapping, or opens a list or mapping in it.
LEMMA FieldKeys ==
  ASSUME NEW l, NEW mapping \in IntentMappings, IsFieldOf(mapping, l)
  PROVE  /\ l.key \notin Arrays \cup IntentMappings
         /\ l.key \notin IntentFields
         /\ mapping = "path_selection" => l.key \in Known["path_selection"]
<1>1. CASE mapping = "traffic"
  <2>1. "intents" \in DOMAIN Known /\ l.key \in Known["intents"] /\ l.key \notin IntentFields
    BY <1>1 DEF IsFieldOf, Known
  <2> QED BY <1>1, <2>1, KeysOfLists
<1>2. CASE mapping # "traffic"
  <2>1. mapping \in DOMAIN Known /\ FieldOf(mapping, l.key) \in Known[mapping]
    BY <1>2 DEF IsFieldOf, IntentMappings, Known
  <2>2. l.key \notin Arrays \cup IntentMappings
    BY <2>1, KeysOfLists
  <2>3. l.key \notin IntentFields
    BY <1>2, <2>1 DEF IntentFields, FieldOf, Known, IntentMappings
  <2>4. mapping = "path_selection" => l.key \in Known["path_selection"]
    BY <2>1 DEF FieldOf
  <2> QED BY <2>2, <2>3, <2>4
<1> QED BY <1>1, <1>2

-----------------------------------------------------------------------------
(* A line that is read.                                                    *)

\* The line l is read, and stands under blocks of these names.
Read(l, names) ==
  /\ status = "reading" /\ status' = "reading" /\ parse_line(l)
  /\ l.item \in BOOLEAN /\ l.indent \in Nat
  /\ IsList(names) /\ Stands(l, Len(names))
  /\ \A i \in 1 .. Len(names) : open[i].name = names[i]
  /\ meant' = Meaning(config, l, names)

\* What reads a line that does not begin a section.
LEMMA LineRead ==
  ASSUME NEW l, NEW names, Read(l, names), ~ IsSection(l), top \in Sections
  PROVE  /\ InSection(l)
         /\ ~ Refuse
         /\ l.item /\ l.indent = 2 => begin_item(l)
         /\ l.item /\ l.indent # 2 => list_item(l)
         /\ ~ l.item /\ top \in {"nodes", "tunnels", "vpp_edges"} => field_line(l)
         /\ ~ l.item /\ top = "paths" => path_line(l)
         /\ ~ l.item /\ top = "intents" => intent_line(l)
<1>1. ~ Refuse
  BY DEF Refuse, Read
<1>2. ~ section_line(l) /\ ~ outside_section(l) /\ ~ malformed_line(l)
  BY <1>1 DEF section_line, outside_section, malformed_line
<1>3. begin_item(l) \/ list_item(l) \/ field_line(l) \/ path_line(l) \/ intent_line(l)
  BY <1>2 DEF Read, parse_line
<1>4. InSection(l)
  BY <1>3 DEF begin_item, list_item, field_line, path_line, intent_line
<1>5. begin_item(l) => l.item /\ l.indent = 2
  BY DEF begin_item
<1>6. list_item(l) => l.item /\ l.indent # 2
  BY DEF list_item
<1>7. /\ field_line(l) => ~ l.item /\ top \in {"nodes", "tunnels", "vpp_edges"}
      /\ path_line(l) => ~ l.item /\ top = "paths"
      /\ intent_line(l) => ~ l.item /\ top = "intents"
  BY DEF field_line, path_line, intent_line
<1> QED BY <1>1, <1>3, <1>4, <1>5, <1>6, <1>7

\* A line under an item is deeper than the dash of the item.
LEMMA DeeperLine ==
  ASSUME StackInv, NEW l, l.item \in BOOLEAN, l.indent \in Nat, NEW n, Stands(l, n), n >= 1
  PROVE  /\ top \in Sections /\ open[1].name = top /\ ~ IsSection(l)
         /\ n >= 2 => l.indent > 2 /\ current[top] # 0
<1>1. n \in Nat /\ n <= Len(open) /\ Len(open) \in Nat
  BY ListFacts DEF StackInv, Stands
<1>2. top \in Sections /\ open[1].name = top /\ open[1].indent = 0 /\ ~ Closes(l, open[1])
  BY <1>1 DEF StackInv, Stands
<1>3. ~ IsSection(l)
  BY <1>2 DEF Closes, IsSection
<1>4. ASSUME n >= 2
      PROVE  l.indent > 2 /\ current[top] # 0
  <2>1. current[top] # 0 /\ open[2].indent = 2 /\ open[2].name = "-" /\ ~ Closes(l, open[2])
    BY <1>1, <1>4 DEF StackInv, Stands
  <2>2. l.indent > 2
    BY <2>1 DEF Closes
  <2> QED BY <2>1, <2>2
<1> QED BY <1>2, <1>3, <1>4

\* The blocks after a line under an item.
LEMMA StackKept ==
  ASSUME StackInv, NEW l, l.item \in BOOLEAN, l.indent \in Nat, NEW n, Stands(l, n), n >= 2,
         UNCHANGED <<top, current>>
  PROVE  StackInv'
<1>1. n \in Nat /\ n <= Len(open) /\ Len(open) \in Nat
  BY ListFacts DEF StackInv, Stands
<1>2. l.indent > 2
  BY <1>1, DeeperLine
<1>3. IsList(open') /\ Len(open') \in Nat /\ Len(open') >= n
      /\ \A i \in 1 .. n : open'[i] = open[i]
  BY <1>1, ListFacts DEF Stands, OpensBlocks
<1>4. \A i \in n + 1 .. Len(open') : open'[i].indent \in Int /\ open'[i].indent > 2
  <2>1. CASE l.item
    <3>1. /\ Len(open') \in {n + 1, n + 2} /\ open'[n + 1].indent = l.indent
          /\ Len(open') = n + 2 => open'[n + 2].indent = l.indent + 2
      BY <2>1 DEF Stands, OpensBlocks
    <3>2. \A i \in n + 1 .. Len(open') : i = n + 1 \/ (i = n + 2 /\ Len(open') = n + 2)
      BY <1>1, <3>1
    <3> QED BY <1>2, <3>1, <3>2
  <2>2. CASE ~ l.item
    <3>1. Len(open') = n \/ (Len(open') = n + 1 /\ open'[n + 1].indent = l.indent)
      BY <2>2 DEF Stands, OpensBlocks
    <3>2. \A i \in n + 1 .. Len(open') : i = n + 1 /\ Len(open') = n + 1
      BY <1>1, <3>1
    <3> QED BY <1>2, <3>1, <3>2
  <2> QED BY <2>1, <2>2
<1>5. \A i \in 1 .. Len(open') : i \in 1 .. n \/ i \in n + 1 .. Len(open')
  BY <1>1, <1>3
<1>6. \A i \in 1 .. n : i \in 1 .. Len(open)
  BY <1>1
<1>7. \A i \in 1 .. Len(open') : open'[i].indent \in Int
  BY <1>3, <1>4, <1>5, <1>6 DEF StackInv
<1>8. \A i \in 3 .. Len(open') : open'[i].indent > 2
  <2>1. \A i \in 3 .. Len(open') :
            (i \in 3 .. Len(open) /\ i \in 1 .. n) \/ i \in n + 1 .. Len(open')
    BY <1>1, <1>3
  <2> QED BY <1>3, <1>4, <2>1 DEF StackInv
<1>9. open'[1] = open[1] /\ open'[2] = open[2] /\ Len(open) >= 2
  BY <1>1, <1>3
<1> QED BY <1>3, <1>7, <1>8, <1>9 DEF StackInv

\* A section begins: nothing is stored, and nothing else is open.
LEMMA SectionMeant ==
  ASSUME ReadInv, Understood, NEW l, NEW names, Read(l, names), SectionLine(l, names)
  PROVE  Understood'
<1>1. IsSection(l) /\ names = <<>> /\ Len(names) = 0
  BY NoElements DEF SectionLine, IsSection
<1>2. section_line(l)
  <2>1. ~ Refuse
    BY DEF Read, Refuse
  <2> QED BY <1>1, <2>1 DEF Read, parse_line, outside_section, malformed_line, begin_item,
            list_item, field_line, path_line, intent_line, InSection
<1>3. top' = l.key /\ l.key \in Sections /\ l.indent = 0 /\ ~ l.item /\ config' = config
  BY <1>1, <1>2 DEF section_line, SectionLine
<1>4. PICK m : m = config
  OBVIOUS
<1>5. Meaning(m, l, names) = m
  BY <1>1, MeaningOfItem DEF Sections
<1>6. config' = meant'
  BY <1>3, <1>4, <1>5 DEF Read
<1>7. /\ IsList(open') /\ Len(open') \in {0, 1}
      /\ Len(open') = 1 => open'[1].indent = 0 /\ open'[1].name = l.key
  BY <1>1, <1>3 DEF Read, Stands, OpensBlocks
<1>10. PICK k : k = Len(open')
  OBVIOUS
<1>11. k \in {0, 1}
  BY <1>7, <1>10
<1>8. StackInv'
  <2>1. \A i \in 1 .. k : i = 1 /\ k = 1
    BY <1>11
  <2>2. \A i \in 3 .. k : FALSE
    BY <1>11
  <2>3. ~ (k >= 2) /\ (k >= 1 => k = 1)
    BY <1>11
  <2> QED BY <1>3, <1>7, <1>10, <2>1, <2>2, <2>3 DEF StackInv
<1>9. IntentStack' /\ ListStack'
  <2>1. \A i \in 3 .. k : FALSE
    BY <1>11
  <2>2. ~ (k >= 3)
    BY <1>11
  <2> QED BY <1>10, <2>1, <2>2 DEF IntentStack, ListStack
<1> QED BY <1>6, <1>8, <1>9 DEF Understood

\* An item begins, and may open a list.
LEMMA FirstMeant ==
  ASSUME ReadInv, Understood, NEW l, NEW names, Read(l, names), FirstLine(l, names)
  PROVE  Understood'
<1>1. PICK s \in Sections :
        names = <<s>> /\ (s = "intents" => l.key \notin ListsOf["intents"] \cup IntentMappings)
  BY DEF FirstLine, Sections
<1>2. Len(names) = 1 /\ names[1] = s /\ l.item /\ l.indent = 2
  BY <1>1, ListOne DEF FirstLine
<1>3. top = s /\ ~ IsSection(l)
  <2>1. PICK n : n = Len(names)
    OBVIOUS
  <2>2. n = 1 /\ Stands(l, n) /\ l.item \in BOOLEAN /\ l.indent \in Nat /\ StackInv
    BY <1>2, <2>1 DEF Understood, Read
  <2>3. open[1].name = top /\ ~ IsSection(l)
    BY <2>2, DeeperLine
  <2>4. open[1].name = s
    BY <1>2 DEF Read
  <2> QED BY <2>3, <2>4
<1>4. begin_item(l) /\ ~ Refuse
  BY <1>2, <1>3, LineRead
<1>5. /\ config' = [config EXCEPT ![top] = Append(@, WithField(NewItem(top), top, l.key, l.value))]
      /\ current' = [current EXCEPT ![top] = Len(config[top]) + 1]
      /\ context' = ContextAfter(l.key, "none")
      /\ top' = top
  BY <1>4 DEF begin_item
<1>6. config' = meant'
  <2>1. PICK m : m = config
    OBVIOUS
  <2>2. Becomes(m, s, Append(m[s], WithField(NewItem(s), s, l.key, l.value)), Meaning(m, l, names))
    BY <1>1, MeaningOfItem
  <2> QED BY <1>3, <1>5, <2>1, <2>2 DEF Read, Becomes
<1>7. current'[top] # 0
  <2>1. Len(config[s]) \in Nat /\ s \in DOMAIN current
    BY ListFacts DEF ReadInv, ItemsOf, ContextInv
  <2> QED BY <1>3, <1>5, <2>1
<1>8. /\ IsList(open') /\ Len(open') \in {2, 3} /\ open'[1] = open[1]
      /\ open'[2].indent = 2 /\ open'[2].name = "-"
      /\ Len(open') = 3 => open'[3].indent = 4 /\ open'[3].name = l.key
  BY <1>2 DEF Read, Stands, OpensBlocks
<1>13. PICK k : k = Len(open')
  OBVIOUS
<1>14. k \in {2, 3}
  BY <1>8, <1>13
<1>9. open[1].indent = 0 /\ open[1].name = top /\ IsList(open)
  BY <1>2, ListFacts DEF Understood, StackInv, Read, Stands
<1>10. StackInv'
  <2>1. \A i \in 1 .. Len(open') : i = 1 \/ i = 2 \/ (i = 3 /\ Len(open') = 3)
    BY <1>13, <1>14
  <2>2. \A i \in 3 .. Len(open') : i = 3 /\ Len(open') = 3
    BY <1>13, <1>14
  <2>3. \A i \in 1 .. Len(open') : open'[i].indent \in Int
    BY <1>8, <1>9, <2>1
  <2>4. \A i \in 3 .. Len(open') : open'[i].indent > 2
    BY <1>8, <2>2
  <2> QED BY <1>3, <1>5, <1>7, <1>8, <1>9, <2>3, <2>4 DEF StackInv
<1>11. IntentStack'
  <2>1. ASSUME s = "intents", NEW p \in 3 .. Len(open')
        PROVE  open'[p].name \notin IntentBlocks /\ open'[p].name \notin IntentMappings
               /\ open'[p].name \notin ListsOf["intents"]
    <3>0. p = 3 /\ k = 3
      BY <1>13, <1>14
    <3>1. p = 3 /\ open'[p].name = l.key
      BY <1>8, <1>13, <3>0
    <3> QED BY <1>1, <2>1, <3>1 DEF IntentBlocks
  <2> QED BY <1>3, <1>5, <2>1 DEF IntentStack, IntentBlock, InnerContext
<1>12. ListStack'
  <2>1. ASSUME s # "intents", Len(open') >= 3, open'[3].name \in ListsOf[s]
        PROVE  context' = open'[3].name
    <3>0. k = 3
      BY <1>13, <1>14, <2>1
    <3>1. open'[3].name = l.key
      BY <1>8, <1>13, <3>0
    <3>2. s # "tunnels"
      BY <2>1 DEF ListsOf
    <3>3. s \in {"nodes", "paths", "vpp_edges"}
      BY <2>1, <3>2 DEF Sections
    <3> QED BY <1>3, <1>5, <2>1, <3>1, <3>3 DEF ContextAfter
  <2>2. ~ (Len(open') >= 4)
    BY <1>13, <1>14
  <2> QED BY <1>3, <1>5, <2>1, <2>2 DEF ListStack, ElementStack
<1> QED BY <1>6, <1>10, <1>11, <1>12 DEF Understood

\* A field that a mapping does not have changes nothing; any other is set in the newest item.
LEMMA FieldMeant ==
  ASSUME ReadInv, NEW l, NEW s \in Sections, NEW owner, current[s] # 0,
         \/ owner = s
         \/ s = "intents" /\ owner \in IntentMappings,
         config' = [config EXCEPT ![s][current[s]] =
                      WithField(@, IF owner = "traffic" THEN "intents" ELSE owner, l.key, l.value)]
  PROVE  Becomes(config, s, FieldMeaning(config[s], owner, l), config')
<1>1. PICK i, q, mapping : i = current[s] /\ q = config[s]
                           /\ mapping = IF owner = "traffic" THEN "intents" ELSE owner
  OBVIOUS
<1>2. i = Len(q) /\ i \in 1 .. Len(q) /\ IsList(q)
  BY <1>1, NewestItem DEF ReadInv, ItemsOf
<1>3. config' = [config EXCEPT ![s] = [q EXCEPT ![i] = WithField(q[i], mapping, l.key, l.value)]]
  BY <1>1
<1>4. [q EXCEPT ![i] = WithField(q[i], mapping, l.key, l.value)] = LastSet(q, mapping, l)
  BY <1>2 DEF LastSet
<1>5. CASE owner = "traffic" \/ (owner \in DOMAIN Known /\ l.key \notin Arrays \cup IntentMappings)
  <2>1. FieldMeaning(q, owner, l) = LastSet(q, mapping, l)
    BY <1>1, <1>5 DEF FieldMeaning
  <2> QED BY <1>1, <1>3, <1>4, <2>1 DEF Becomes
<1>6. CASE ~ (owner = "traffic" \/ (owner \in DOMAIN Known /\ l.key \notin Arrays \cup IntentMappings))
  <2>1. owner \in DOMAIN Known /\ mapping = owner
    BY <1>1, <1>6 DEF Known, Sections, IntentMappings
  <2>2. l.key \in Arrays \cup IntentMappings
    BY <1>6, <2>1
  <2>3. WithField(q[i], mapping, l.key, l.value) = q[i]
    BY <2>1, <2>2, KeysOfLists DEF WithField
  <2>4. [q EXCEPT ![i] = q[i]] = q
    BY <1>2, ListFacts
  <2>5. FieldMeaning(q, owner, l) = q
    BY <1>6 DEF FieldMeaning
  <2> QED BY <1>1, <1>3, <2>3, <2>4, <2>5 DEF Becomes
<1> QED BY <1>5, <1>6

\* Two ways to say what changed leave the same.
LEMMA SameChange ==
  /\ \A c, s, q, d, e : Becomes(c, s, q, d) /\ Becomes(c, s, q, e) => d = e
  /\ \A c, s, i, name, q, d, e :
       StoresList(c, s, i, name, q, d) /\ StoresList(c, s, i, name, q, e) => d = e
BY DEF Becomes, StoresList

\* A line under the dash of an item that is not an intent.
LEMMA ItemMeant ==
  ASSUME ReadInv, Understood, NEW l, NEW s \in Sections \ {"intents"},
         NEW names, names = <<s, "-">>, Read(l, names), ~ l.item, s = "paths" => l.indent < 6
  PROVE  Understood'
<1>1. PICK n : n = Len(names)
  OBVIOUS
<1>2. n = 2 /\ names[1] = s /\ Stands(l, n) /\ StackInv /\ l.item \in BOOLEAN /\ l.indent \in Nat
  BY <1>1, ShortLists DEF Read, Understood
<1>3. open[1].name = s
  BY <1>1, <1>2 DEF Read
<1>4. top = s /\ ~ IsSection(l) /\ l.indent > 2 /\ current[s] # 0
  BY <1>2, <1>3, DeeperLine
<1>5. StoreField(s, l) /\ ~ Refuse /\ InSection(l)
  <2>1. CASE s = "paths"
    <3>1. path_line(l) /\ ~ Refuse /\ InSection(l)
      BY <1>4, <2>1, LineRead
    <3>2. ~ (l.indent >= 6)
      BY <1>2, <2>1
    <3> QED BY <2>1, <3>1, <3>2 DEF path_line
  <2>2. CASE s # "paths"
    <3>1. s \in {"nodes", "tunnels", "vpp_edges"}
      BY <2>2 DEF Sections
    <3>2. field_line(l) /\ ~ Refuse /\ InSection(l)
      BY <1>4, <3>1, LineRead
    <3> QED BY <1>4, <3>2 DEF field_line
  <2> QED BY <2>1, <2>2
<1>6. /\ config' = [config EXCEPT ![s][current[s]] = WithField(@, s, l.key, l.value)]
      /\ context' = ContextAfter(l.key, context)
      /\ UNCHANGED <<status, top, list_parent, list_indent, current, segment, route>>
  BY <1>4, <1>5 DEF StoreField
<1>7. Becomes(config, s, FieldMeaning(config[s], s, l), config')
  <2>1. s # "traffic"
    BY DEF Sections
  <2> QED BY <1>4, <1>6, <2>1, FieldMeant
<1>8. config' = meant'
  <2>1. Becomes(config, s, FieldMeaning(config[s], s, l), Meaning(config, l, <<s, "-">>))
    BY MeaningOfItem
  <2>2. Becomes(config, s, FieldMeaning(config[s], s, l), meant')
    BY <2>1 DEF Read
  <2> QED BY <1>7, <2>2, SameChange
<1>9. StackInv'
  BY <1>2, <1>6, StackKept
<1>10. PICK k : k = Len(open')
  OBVIOUS
<1>11. k = 2 \/ (k = 3 /\ open'[3].name = l.key)
  BY <1>2, <1>10 DEF Stands, OpensBlocks
<1>12. ListStack'
  <2>1. ASSUME k >= 3, open'[3].name \in ListsOf[s]
        PROVE  context' = open'[3].name
    <3>1. open'[3].name = l.key
      BY <1>11, <2>1
    <3>2. s # "tunnels"
      BY <2>1 DEF ListsOf
    <3>3. s \in {"nodes", "paths", "vpp_edges"}
      BY <3>2 DEF Sections
    <3> QED BY <1>4, <1>6, <2>1, <3>1, <3>3 DEF ContextAfter
  <2>2. ~ (k >= 4)
    BY <1>11
  <2> QED BY <1>4, <1>6, <1>10, <2>1, <2>2 DEF ListStack, ElementStack
<1> QED BY <1>4, <1>6, <1>8, <1>9, <1>12 DEF Understood, IntentStack

\* An item of a list that is open, in an item that is not an intent.
LEMMA ListItemMeant ==
  ASSUME ReadInv, NEW l, NEW s \in Sections, NEW list \in ListsOf[s], top = s, context = list,
         current[s] # 0, list_item(l), ~ Refuse,
         list \in {"segments", "routes"} \/ l.key = NoKey, l.item = TRUE
  PROVE  LET i == Len(config[s])
             q == config[s][i].lists[list]
         IN /\ StoresList(config, s, i, list, ElementMeaning(q, list, l), config')
            /\ segment' = IF list = "segments" THEN <<i, Len(q) + 1>> ELSE segment
            /\ route' = IF list = "routes" THEN <<i, Len(q) + 1>> ELSE route
            /\ config'[s][i].lists[list] = ElementMeaning(q, list, l)
            /\ Len(ElementMeaning(q, list, l)) = Len(q) + 1 /\ Len(q) \in Nat
            /\ UNCHANGED <<status, top, context, list_parent, list_indent, current>>
<1>1. PICK i, q : i = Len(config[s]) /\ q = config[s][i].lists[list]
  OBVIOUS
<1>2. i = current[s] /\ i \in 1 .. Len(config[s]) /\ IsItem(s, config[s][i])
  BY <1>1, NewestItem
<1>3. IsList(q) /\ Len(q) \in Nat /\ Len(q) <= Limit[list]
  BY <1>1, <1>2, ListFacts DEF IsItem
<1>4. PICK e : e = IF list \in {"segments", "routes"}
                   THEN WithField(NewElement(list), list, l.key, l.value) ELSE ItemText(l)
  OBVIOUS
<1>5. /\ ~ ItemRefused(l, q)
      /\ config' = [config EXCEPT ![s][i].lists[list] = Append(q, e)]
      /\ segment' = IF list = "segments" THEN <<i, Len(q) + 1>> ELSE segment
      /\ route' = IF list = "routes" THEN <<i, Len(q) + 1>> ELSE route
      /\ UNCHANGED <<status, top, context, list_parent, list_indent, current>>
  BY <1>1, <1>2, <1>4 DEF list_item
<1>6. ElementMeaning(q, list, l) = Append(q, e)
  BY <1>4 DEF ElementMeaning, ItemText
<1>7. StoresList(config, s, i, list, ElementMeaning(q, list, l), config')
  BY <1>5, <1>6 DEF StoresList
<1>8. PICK r : r = Append(q, e)
  OBVIOUS
<1>9. IsList(r) /\ Len(r) = Len(q) + 1
  BY <1>3, <1>8, ListAppend
<1>10. Len(r) <= Limit[list]
  <2>1. list \in Arrays
    BY SectionNames
  <2>2. Limit[list] \in Nat
    BY <2>1, Limits
  <2>3. ~ (Len(q) >= Limit[list])
    BY <1>5 DEF ItemRefused
  <2> QED BY <1>3, <1>9, <2>2, <2>3
<1>11. PICK c, d : c = config /\ d = config'
  OBVIOUS
<1>12. ItemsOf(c) /\ i \in 1 .. Len(c[s]) /\ StoresList(c, s, i, list, r, d)
  BY <1>2, <1>6, <1>7, <1>8, <1>11 DEF ReadInv
<1>13. d[s][i].lists[list] = r
  BY <1>9, <1>10, <1>12, ListReplaced
<1> QED BY <1>1, <1>3, <1>5, <1>6, <1>7, <1>8, <1>9, <1>11, <1>13

\* A line with a dash in a list of an item that is not an intent.
LEMMA ListMeant ==
  ASSUME ReadInv, Understood, NEW l, NEW s \in Sections \ {"intents"}, NEW list \in ListsOf[s],
         NEW names, names = <<s, "-", list>>, Read(l, names), l.item = TRUE,
         list \in {"segments", "routes"} \/ l.key = NoKey
  PROVE  Understood'
<1>1. PICK n : n = Len(names)
  OBVIOUS
<1>2. n = 3 /\ Stands(l, n) /\ StackInv /\ l.item \in BOOLEAN /\ l.indent \in Nat /\ IsList(names)
      /\ names[1] = s /\ names[3] = list
  BY <1>1, ShortLists DEF Read, Understood
<1>3. open[1].name = s /\ open[3].name = list
  BY <1>1, <1>2 DEF Read
<1>4. top = s /\ ~ IsSection(l) /\ l.indent > 2 /\ current[s] # 0
  <2>1. Stands(l, n) /\ n >= 1 /\ n >= 2 /\ StackInv /\ l.item \in BOOLEAN /\ l.indent \in Nat
    BY <1>2
  <2>2. /\ top \in Sections /\ open[1].name = top /\ ~ IsSection(l)
        /\ l.indent > 2 /\ current[top] # 0
    BY <2>1, DeeperLine
  <2> QED BY <1>3, <2>2
<1>5. Len(open) >= 3
  BY <1>2 DEF Stands
<1>6. context = list
  BY <1>3, <1>4, <1>5 DEF Understood, ListStack
<1>7. list_item(l) /\ ~ Refuse
  <2>1. l.indent # 2
    BY <1>4
  <2> QED BY <1>4, <2>1, LineRead
<1>8. PICK i, q : i = Len(config[s]) /\ q = config[s][i].lists[list]
  OBVIOUS
<1>9. /\ StoresList(config, s, i, list, ElementMeaning(q, list, l), config')
      /\ segment' = IF list = "segments" THEN <<i, Len(q) + 1>> ELSE segment
      /\ route' = IF list = "routes" THEN <<i, Len(q) + 1>> ELSE route
      /\ Len(config'[s][i].lists[list]) = Len(q) + 1 /\ Len(q) \in Nat
      /\ UNCHANGED <<status, top, context, list_parent, list_indent, current>>
  <2>1. s \in Sections /\ top = s /\ context = list /\ current[s] # 0 /\ list_item(l) /\ ~ Refuse
    BY <1>4, <1>6, <1>7
  <2>2. LET k == Len(config[s])
            r == config[s][k].lists[list]
        IN /\ StoresList(config, s, k, list, ElementMeaning(r, list, l), config')
           /\ segment' = IF list = "segments" THEN <<k, Len(r) + 1>> ELSE segment
           /\ route' = IF list = "routes" THEN <<k, Len(r) + 1>> ELSE route
           /\ config'[s][k].lists[list] = ElementMeaning(r, list, l)
           /\ Len(ElementMeaning(r, list, l)) = Len(r) + 1 /\ Len(r) \in Nat
           /\ UNCHANGED <<status, top, context, list_parent, list_indent, current>>
    BY <2>1, ListItemMeant
  <2> QED BY <1>8, <2>2
<1>10. config' = meant'
  <2>1. Len(names) >= 3 /\ names[Len(names)] = list
    BY <1>1, <1>2
  <2>2. StoresList(config, s, i, list, ElementMeaning(q, list, l), Meaning(config, l, names))
    BY <1>2, <1>8, <2>1, MeaningInList
  <2>3. StoresList(config, s, i, list, ElementMeaning(q, list, l), meant')
    BY <2>2 DEF Read
  <2> QED BY <1>9, <2>3, SameChange
<1>11. StackInv'
  <2>1. Stands(l, n) /\ n >= 2 /\ StackInv /\ l.item \in BOOLEAN /\ l.indent \in Nat
    BY <1>2
  <2>2. UNCHANGED <<top, current>>
    BY <1>9
  <2> QED BY <2>1, <2>2, StackKept
<1>12. open'[3].name = list
  BY <1>2, <1>3 DEF Stands
<1>13. ASSUME NEW name \in {"segments", "routes"}, name = list
       PROVE  <<i, Len(q) + 1>> = LastElement(name)' /\ Len(q) + 1 # 0
  <2>1. "paths" \in Sections /\ name \in ListsOf["paths"]
    BY DEF Sections, ListsOf
  <2>2. s = "paths"
    BY <1>13, <2>1, SectionNames
  <2>3. i = current[s]
    BY <1>4, <1>8, NewestItem
  <2> QED BY <1>9, <1>13, <2>2, <2>3 DEF LastElement
<1>14. ListStack'
  <2>1. ASSUME NEW e, e = segment'
        PROVE  Len(open') >= 4 /\ open'[3].name = "segments" => e = LastElement("segments")' /\ e[2] # 0
    BY <1>9, <1>12, <1>13, <2>1
  <2>2. ASSUME NEW e, e = route'
        PROVE  Len(open') >= 4 /\ open'[3].name = "routes" => e = LastElement("routes")' /\ e[2] # 0
    BY <1>9, <1>12, <1>13, <2>2
  <2>3. ElementStack("segments", segment)' /\ ElementStack("routes", route)'
    BY <2>1, <2>2 DEF ElementStack
  <2> QED BY <1>6, <1>9, <1>12, <2>3 DEF ListStack
<1> QED BY <1>4, <1>9, <1>10, <1>11, <1>14 DEF Understood, IntentStack

\* A deeper line under the dash of a segment or route.
LEMMA ElementMeant ==
  ASSUME ReadInv, Understood, NEW l, NEW names, Read(l, names), ElementLine(l, names)
  PROVE  Understood'
<1>0. PICK list \in {"segments", "routes"} : names = <<"paths", "-", list, "-">>
  BY DEF ElementLine
<1>1. PICK n : n = Len(names)
  OBVIOUS
<1>2. /\ n = 4 /\ Stands(l, n) /\ StackInv /\ ~ l.item /\ l.item \in BOOLEAN /\ l.indent \in Nat
      /\ IsList(names) /\ l.indent >= 6
      /\ names[1] = "paths" /\ names[3] = list /\ names[4] = "-"
  BY <1>0, <1>1, ShortLists DEF Read, Understood, ElementLine
<1>3. open[1].name = "paths" /\ open[3].name = list
  BY <1>1, <1>2 DEF Read
<1>4. top = "paths" /\ ~ IsSection(l) /\ current["paths"] # 0 /\ top \in Sections
  BY <1>2, <1>3, DeeperLine
<1>5. Len(open) >= 4 /\ Len(open) >= 3 /\ list \in ListsOf["paths"]
  BY <1>2 DEF Stands, ListsOf
<1>6. PICK e : e = IF list = "segments" THEN segment ELSE route
  OBVIOUS
<1>7. context = list /\ ElementStack(list, e)
  BY <1>3, <1>4, <1>5, <1>6 DEF Understood, ListStack
<1>8. e = LastElement(list) /\ e[2] # 0
  BY <1>3, <1>5, <1>7 DEF ElementStack
<1>9. e # Nowhere
  BY <1>8 DEF Nowhere
<1>10. path_line(l) /\ ~ Refuse
  BY <1>2, <1>4, LineRead
<1>11. StoreInElement(list, e, l)
  BY <1>2, <1>6, <1>7, <1>9, <1>10 DEF path_line
<1>12. PICK i, q : i = Len(config["paths"]) /\ q = config["paths"][i].lists[list]
  OBVIOUS
<1>13. i = current["paths"] /\ i \in 1 .. Len(config["paths"]) /\ IsItem("paths", config["paths"][i])
  BY <1>4, <1>12, NewestItem DEF Sections
<1>14. IsList(q) /\ Len(q) \in Nat /\ Len(q) <= Limit[list]
  BY <1>5, <1>12, <1>13, ListFacts DEF IsItem
<1>15. e[1] = i /\ e[2] = Len(q)
  BY <1>8, <1>12, <1>13 DEF LastElement
<1>16. PICK j : j = Len(q)
  OBVIOUS
<1>17. /\ config' = [config EXCEPT !["paths"][i].lists[list] =
                       [q EXCEPT ![j] = WithField(q[j], list, l.key, l.value)]]
       /\ UNCHANGED <<status, parser>>
  BY <1>11, <1>12, <1>15, <1>16 DEF StoreInElement
<1>18. ElementMeaning(q, list, l) = [q EXCEPT ![j] = WithField(q[j], list, l.key, l.value)]
  BY <1>2, <1>16 DEF ElementMeaning, LastSet
<1>19. StoresList(config, "paths", i, list, ElementMeaning(q, list, l), config')
  BY <1>17, <1>18 DEF StoresList
<1>20. config' = meant'
  <2>1. /\ Len(names) >= 3
        /\ names[Len(names)] = "-" /\ names[Len(names) - 1] = list
    BY <1>1, <1>2
  <2>2. "paths" \in Sections
    BY DEF Sections
  <2>3. StoresList(config, "paths", i, list, ElementMeaning(q, list, l), Meaning(config, l, names))
    BY <1>2, <1>5, <1>12, <2>1, <2>2, MeaningInList
  <2>4. StoresList(config, "paths", i, list, ElementMeaning(q, list, l), meant')
    BY <2>3 DEF Read
  <2> QED BY <1>19, <2>4, SameChange
<1>21. StackInv'
  <2>1. UNCHANGED <<top, current>>
    BY <1>17 DEF parser
  <2> QED BY <1>2, <2>1, StackKept
<1>22. Len(config'["paths"][i].lists[list]) = Len(q)
  <2>1. PICK r : r = ElementMeaning(q, list, l)
    OBVIOUS
  <2>2. j \in 1 .. Len(q)
    BY <1>8, <1>14, <1>15, <1>16
  <2>3. PICK w : w = WithField(q[j], list, l.key, l.value)
    OBVIOUS
  <2>4. r = [q EXCEPT ![j] = w]
    BY <1>18, <2>1, <2>3
  <2>5. IsList(r) /\ Len(r) = Len(q)
    BY <1>14, <2>2, <2>4, ListExcept
  <2>6. PICK c, d, s : c = config /\ d = config' /\ s = "paths"
    OBVIOUS
  <2>7. ItemsOf(c) /\ s \in Sections /\ i \in 1 .. Len(c[s]) /\ list \in ListsOf[s]
        /\ Len(r) <= Limit[list] /\ StoresList(c, s, i, list, r, d)
    BY <1>5, <1>13, <1>14, <1>19, <2>1, <2>5, <2>6 DEF ReadInv, Sections
  <2>8. d[s][i].lists[list] = r
    BY <2>5, <2>7, ListReplaced
  <2> QED BY <2>5, <2>6, <2>8
<1>23. e = LastElement(list)'
  <2>1. current' = current
    BY <1>17 DEF parser
  <2>2. e = <<i, Len(q)>>
    BY <1>8, <1>12, <1>13 DEF LastElement
  <2> QED BY <1>13, <1>22, <2>1, <2>2 DEF LastElement
<1>24. open'[3].name = list
  BY <1>2, <1>3 DEF Stands
<1>25. segment' = segment /\ route' = route /\ context' = context /\ top' = top
  BY <1>17 DEF parser
<1>26. ListStack'
  <2>1. open'[3].name = "segments" => segment' = LastElement("segments")' /\ segment'[2] # 0
    BY <1>6, <1>8, <1>23, <1>24, <1>25
  <2>2. open'[3].name = "routes" => route' = LastElement("routes")' /\ route'[2] # 0
    BY <1>6, <1>8, <1>23, <1>24, <1>25
  <2> QED BY <1>7, <1>24, <1>25, <2>1, <2>2 DEF ListStack, ElementStack
<1>27. top' # "intents"
  BY <1>4, <1>25
<1> QED BY <1>20, <1>21, <1>26, <1>27 DEF Understood, IntentStack

-----------------------------------------------------------------------------
(* The lines of an intent.                                                 *)

LEMMA IntentNames ==
  /\ ListsOf["intents"] \subseteq Arrays /\ "-" \notin IntentBlocks
  /\ \A mapping \in IntentMappings : mapping \notin ListsOf["intents"] /\ mapping \in IntentBlocks
  /\ \A list \in ListsOf["intents"] : list \notin IntentMappings /\ list \in IntentBlocks
                                      /\ list \notin {"path_selection", "constraints"}
  /\ \A mapping \in IntentMappings : ListsIn(mapping) \subseteq ListsOf["intents"]
  /\ \A mapping \in IntentMappings : \A list \in ListsIn(mapping) :
       \/ mapping = "path_selection" /\ list \in {"candidates", "comparison_order"}
       \/ mapping = "constraints" /\ list \in ConstraintLists
  /\ {"candidates", "comparison_order"} \cup ConstraintLists \subseteq Arrays
  /\ {"path_selection", "constraints"} \subseteq IntentMappings
  /\ IntentFields \cap IntentBlocks = {}
<1>1. "intents" \in Sections /\ ListsOf["intents"] \subseteq Arrays
  BY DEF Arrays, Sections
<1>2. "-" \notin IntentBlocks
  BY DEF IntentBlocks, IntentMappings, ListsOf
<1>3. /\ \A mapping \in IntentMappings : mapping \notin ListsOf["intents"] /\ mapping \in IntentBlocks
      /\ \A list \in ListsOf["intents"] : list \notin IntentMappings /\ list \in IntentBlocks
      /\ {"path_selection", "constraints"} \subseteq IntentMappings
  BY DEF IntentBlocks, IntentMappings, ListsOf
<1>4. /\ \A mapping \in IntentMappings : ListsIn(mapping) \subseteq ListsOf["intents"]
      /\ \A mapping \in IntentMappings : \A list \in ListsIn(mapping) :
           \/ mapping = "path_selection" /\ list \in {"candidates", "comparison_order"}
           \/ mapping = "constraints" /\ list \in ConstraintLists
  BY DEF IntentMappings, ListsIn, ListsOf, ConstraintLists
<1>5. {"candidates", "comparison_order"} \cup ConstraintLists \subseteq ListsOf["intents"]
  BY DEF ListsOf, ConstraintLists
<1>6. IntentFields \cap IntentBlocks = {}
  BY DEF IntentFields, IntentBlocks, IntentMappings, ListsOf
<1> QED BY <1>1, <1>2, <1>3, <1>4, <1>5, <1>6

\* The blocks of an intent that stay are what they were.
LEMMA IntentBlocksKept ==
  ASSUME StackInv, IntentStack, top = "intents", NEW l, NEW n, Stands(l, n), NEW p \in 3 .. n
  PROVE  IntentBlock(p)' /\ open'[p] = open[p] /\ open'[p - 1] = open[p - 1] /\ IntentBlock(p)
<1>1. n \in Nat /\ n <= Len(open) /\ Len(open) \in Nat
  BY ListFacts DEF StackInv, Stands
<1>2. p \in 1 .. n /\ p - 1 \in 1 .. n /\ 3 \in 1 .. n /\ p \in 3 .. Len(open)
  BY <1>1
<1>3. open'[p] = open[p] /\ open'[p - 1] = open[p - 1] /\ open'[3] = open[3]
  BY <1>2 DEF Stands
<1>4. IntentBlock(p)
  BY <1>2 DEF IntentStack
<1> QED BY <1>3, <1>4 DEF IntentBlock

\* A line that opens no list or mapping leaves the one it stands in.
LEMMA IntentFieldKept ==
  ASSUME StackInv, IntentStack, top = "intents", top' = "intents", NEW l, NEW n, Stands(l, n),
         n >= 2, l.item = FALSE, l.key \notin IntentBlocks,
         n >= 3 => open[n].name \in IntentMappings /\ context' = open[n].name
  PROVE  IntentStack'
<1>1. n \in Nat
  BY DEF Stands
<1>2. PICK k : k = Len(open')
  OBVIOUS
<1>3. k = n \/ (k = n + 1 /\ open'[n + 1].name = l.key)
  BY <1>2 DEF Stands, OpensBlocks
<1>4. ASSUME NEW p \in 3 .. k
      PROVE  IntentBlock(p)' /\ InnerContext(p)'
  <2>1. p \in 3 .. n \/ (p = n + 1 /\ open'[p].name = l.key)
    BY <1>1, <1>3
  <2>2. CASE p = n + 1 /\ open'[p].name = l.key
    <3>1. open'[p].name \notin IntentBlocks
      BY <2>2
    <3> QED BY <3>1 DEF IntentBlock, InnerContext, IntentBlocks
  <2>3. CASE p \in 3 .. n
    <3>1. IntentBlock(p)' /\ open'[p] = open[p]
      BY <2>3, IntentBlocksKept
    <3>2. n >= 3 /\ n \in 3 .. n
      BY <1>1, <2>3
    <3>3. open'[n] = open[n]
      BY <3>2, IntentBlocksKept
    <3>4. open'[n].name \in IntentBlocks /\ context' = open'[n].name
          /\ context' \notin ListsOf["intents"]
      BY <3>2, <3>3, IntentNames
    <3>5. CASE p = n
      BY <3>1, <3>4, <3>5 DEF InnerContext
    <3>6. CASE p # n
      <4>1. n \in p + 1 .. k
        BY <1>1, <1>3, <2>3, <3>6
      <4> QED BY <1>2, <3>1, <3>4, <4>1 DEF InnerContext
    <3> QED BY <3>5, <3>6
  <2> QED BY <2>1, <2>2, <2>3
<1> QED BY <1>2, <1>4 DEF IntentStack

\* A list or mapping that a line opens is the innermost one, and becomes the context.
LEMMA IntentBlockOpened ==
  ASSUME StackInv, IntentStack, top = "intents", top' = "intents", NEW l, NEW n, Stands(l, n),
         n >= 2, l.item = FALSE, l.key \in IntentBlocks, l.key # NoKey, l.value = Empty,
         context' = l.key,
         l.key \in IntentMappings =>
           n = 2 \/ (n = 3 /\ l.key = "constraints" /\ open[3].name = "path_selection"),
         l.key \in ListsOf["intents"] =>
           /\ n \in {3, 4} /\ open[n].name \in {"path_selection", "constraints"}
           /\ list_parent' = open[n].name /\ list_indent' = l.indent
  PROVE  IntentStack'
<1>1. n \in Nat
  BY DEF Stands
<1>2. PICK k : k = Len(open')
  OBVIOUS
<1>3. k = n + 1 /\ open'[n + 1].name = l.key /\ open'[n + 1].indent = l.indent
      /\ \A i \in 1 .. n : open'[i] = open[i]
  BY <1>2 DEF Stands, OpensBlocks
<1>4. ASSUME NEW p \in 3 .. k
      PROVE  IntentBlock(p)' /\ InnerContext(p)'
  <2>1. p \in 3 .. n \/ p = n + 1
    BY <1>1, <1>3
  <2>2. CASE p = n + 1
    <3>1. open'[p].name = l.key /\ open'[p].indent = l.indent /\ open'[p - 1] = open[n]
      BY <1>1, <1>3, <2>2
    <3>2. n = 3 => open'[3] = open[3]
      BY <1>1, <1>3
    <3>3. l.key \in IntentMappings =>
            p = 3 \/ (p = 4 /\ l.key = "constraints" /\ open'[3].name = "path_selection")
      BY <1>1, <2>2, <3>2
    <3>4. l.key \in ListsOf["intents"] =>
            p \in {4, 5} /\ open'[p - 1].name \in {"path_selection", "constraints"}
      BY <1>1, <2>2, <3>1
    <3>5. IntentBlock(p)'
      BY <3>1, <3>3, <3>4 DEF IntentBlock
    <3>6. InnerContext(p)'
      BY <3>1 DEF InnerContext
    <3> QED BY <3>5, <3>6
  <2>3. CASE p \in 3 .. n
    <3>1. IntentBlock(p)'
      BY <2>3, IntentBlocksKept
    <3>2. n + 1 \in p + 1 .. k
      BY <1>1, <1>3, <2>3
    <3>3. InnerContext(p)'
      BY <1>2, <1>3, <3>2 DEF InnerContext
    <3> QED BY <3>1, <3>3
  <2> QED BY <2>1, <2>2, <2>3
<1> QED BY <1>2, <1>4 DEF IntentStack

\* A line in a mapping finds the mapping the context again when it ends a list in it.
LEMMA MappingContext ==
  ASSUME StackInv, IntentStack, top = "intents", NEW l, l.item = FALSE, l.indent \in Nat,
         NEW n \in {3, 4}, Stands(l, n), NEW mapping \in IntentMappings, open[n].name = mapping,
         mapping = "path_selection" => \A i \in 1 .. Len(open) : open[i].name # "constraints"
  PROVE  IntentContext(l) = mapping
<1>1. n <= Len(open) /\ Len(open) \in Nat /\ IsList(open)
  BY ListFacts DEF StackInv, Stands
<1>2. \A p \in 3 .. Len(open) : p \in 1 .. Len(open) /\ IntentBlock(p) /\ InnerContext(p)
  BY <1>1 DEF IntentStack
<1>3. CASE n < Len(open) /\ open[n + 1].name \in ListsOf["intents"]
  <2>1. PICK p : p = n + 1
    OBVIOUS
  <2>2. p \in {4, 5} /\ p \in 3 .. Len(open) /\ open[p].name \in ListsOf["intents"] /\ p - 1 = n
    BY <1>1, <1>3, <2>1
  <2>3. ASSUME NEW q \in p + 1 .. Len(open)
        PROVE  open[q].name \notin IntentBlocks
    <3>1. q \in 3 .. Len(open) /\ q > 4 /\ IntentBlock(q)
      BY <1>1, <1>2, <2>2
    <3>2. open[q].name \notin IntentMappings
      BY <3>1 DEF IntentBlock
    <3>3. open[q].name \notin ListsOf["intents"]
      <4>1. SUFFICES ASSUME open[q].name \in ListsOf["intents"]
                     PROVE  FALSE
        OBVIOUS
      <4>2. q = 5 /\ open[q - 1].name \in {"path_selection", "constraints"}
        BY <3>1, <4>1 DEF IntentBlock
      <4>3. q - 1 = p
        BY <2>2, <4>2
      <4> QED BY <2>2, <4>2, <4>3, IntentNames
    <3> QED BY <3>2, <3>3 DEF IntentBlocks
  <2>4. open[p].name \in IntentBlocks
    BY <2>2, IntentNames
  <2>5. context = open[p].name /\ list_parent = open[p - 1].name /\ list_indent = open[p].indent
    BY <1>2, <2>2, <2>3, <2>4 DEF InnerContext
  <2>6. Closes(l, open[p]) /\ open[p].indent \in Int
    BY <1>1, <1>3, <2>1, <2>2 DEF Stands, StackInv
  <2>7. l.indent <= list_indent
    BY <2>5, <2>6 DEF Closes
  <2> QED BY <2>2, <2>5, <2>7 DEF IntentContext
<1>4. CASE ~ (n < Len(open) /\ open[n + 1].name \in ListsOf["intents"])
  <2>1. n \in 3 .. Len(open)
    BY <1>1
  <2>2. ASSUME NEW q \in n + 1 .. Len(open)
        PROVE  open[q].name \notin IntentBlocks
    <3>1. q \in 3 .. Len(open) /\ q >= 4 /\ q > n /\ IntentBlock(q) /\ q \in 1 .. Len(open)
      BY <1>1, <1>2
    <3>2. open[q].name \notin IntentMappings
      <4>1. SUFFICES ASSUME open[q].name \in IntentMappings
                     PROVE  FALSE
        OBVIOUS
      <4>2. q = 4 /\ open[q].name = "constraints" /\ open[3].name = "path_selection"
        BY <3>1, <4>1 DEF IntentBlock
      <4>3. n = 3
        BY <3>1, <4>2
      <4> QED BY <3>1, <4>2, <4>3
    <3>3. open[q].name \notin ListsOf["intents"]
      <4>1. SUFFICES ASSUME open[q].name \in ListsOf["intents"]
                     PROVE  FALSE
        OBVIOUS
      <4>2. q \in {4, 5} /\ open[q - 1].name \in {"path_selection", "constraints"}
        BY <3>1, <4>1 DEF IntentBlock
      <4>3. q # n + 1
        BY <1>1, <1>4, <3>1, <4>1
      <4>4. n = 3 /\ q = 5
        BY <3>1, <4>2, <4>3
      <4>5. 4 \in 3 .. Len(open) /\ 4 \in 1 .. Len(open) /\ open[4].name \in {"path_selection", "constraints"}
        BY <1>1, <3>1, <4>2, <4>4
      <4>6. IntentBlock(4) /\ open[4].name \in IntentMappings
        BY <1>2, <4>5, IntentNames
      <4>7. open[4].name = "constraints" /\ open[3].name = "path_selection"
        BY <4>6 DEF IntentBlock
      <4> QED BY <4>4, <4>5, <4>7
    <3> QED BY <3>2, <3>3 DEF IntentBlocks
  <2>3. context = mapping
    BY <1>2, <2>1, <2>2, IntentNames DEF InnerContext
  <2> QED BY <2>3, IntentNames DEF IntentContext
<1> QED BY <1>3, <1>4

\* A line under the dash of an intent.
LEMMA IntentPlace ==
  ASSUME StackInv, NEW l, NEW names, Read(l, names), NEW n, n = Len(names), n >= 2,
         names[1] = "intents"
  PROVE  /\ n \in Nat /\ Stands(l, n) /\ l.item \in BOOLEAN /\ l.indent \in Nat
         /\ top = "intents" /\ ~ IsSection(l) /\ l.indent > 2 /\ current["intents"] # 0
         /\ Len(open) \in Nat /\ n <= Len(open)
         /\ \A i \in 1 .. n : open[i].name = names[i]
<1>1. Stands(l, n) /\ l.item \in BOOLEAN /\ l.indent \in Nat /\ n \in Nat /\ n >= 1
  BY DEF Read, Stands
<1>2. \A i \in 1 .. n : open[i].name = names[i]
  BY DEF Read
<1>3. open[1].name = "intents"
  BY <1>1, <1>2
<1>4. /\ open[1].name = top /\ ~ IsSection(l)
      /\ l.indent > 2 /\ current[top] # 0
  BY <1>1, DeeperLine
<1>5. Len(open) \in Nat /\ n <= Len(open)
  BY <1>1, ListFacts DEF StackInv, Stands
<1> QED BY <1>1, <1>2, <1>3, <1>4, <1>5

\* A field stored in the mapping that it stands in.
LEMMA IntentFieldMeant ==
  ASSUME ReadInv, StackInv, IntentStack, NEW l, NEW names, Read(l, names), l.item = FALSE,
         NEW n, n = Len(names), n >= 2, names[1] = "intents", l.key \notin IntentBlocks,
         NEW owner, ~ Refuse,
         StoreInIntent(IF owner = "traffic" THEN "intents" ELSE owner, l),
         \/ owner = "intents" /\ n = 2 /\ names = <<"intents", "-">>
         \/ owner \in IntentMappings /\ n >= 3 /\ names[n] = owner /\ IntentContext(l) = owner
  PROVE  config' = meant' /\ StackInv' /\ IntentStack' /\ top' = "intents"
<1>1. /\ n \in Nat /\ Stands(l, n) /\ l.item \in BOOLEAN /\ l.indent \in Nat
      /\ top = "intents" /\ current["intents"] # 0
      /\ \A i \in 1 .. n : open[i].name = names[i]
  BY IntentPlace
<1>2. /\ config' = [config EXCEPT !["intents"][current["intents"]] =
                      WithField(@, IF owner = "traffic" THEN "intents" ELSE owner, l.key, l.value)]
      /\ context' = IntentContext(l)
      /\ UNCHANGED <<status, top, list_parent, list_indent, current, segment, route>>
  BY DEF StoreInIntent
<1>3. "intents" \in Sections /\ "intents" \notin IntentMappings
  BY DEF Sections, IntentMappings
<1>4. Becomes(config, "intents", FieldMeaning(config["intents"], owner, l), config')
  <2>1. PICK s : s = "intents"
    OBVIOUS
  <2>2. /\ s \in Sections /\ current[s] # 0
        /\ owner = s \/ (s = "intents" /\ owner \in IntentMappings)
        /\ config' = [config EXCEPT ![s][current[s]] =
                      WithField(@, IF owner = "traffic" THEN "intents" ELSE owner, l.key, l.value)]
    BY <1>1, <1>2, <1>3, <2>1
  <2>3. Becomes(config, s, FieldMeaning(config[s], owner, l), config')
    BY <2>2, FieldMeant
  <2> QED BY <2>1, <2>3
<1>5. Becomes(config, "intents", FieldMeaning(config["intents"], owner, l), Meaning(config, l, names))
  <2>1. CASE owner = "intents" /\ names = <<"intents", "-">>
    BY <1>3, <2>1, MeaningOfItem
  <2>2. CASE owner \in IntentMappings /\ n >= 3 /\ names[n] = owner
    <3>1. IsList(names) /\ Len(names) >= 3 /\ names[Len(names)] = owner
      BY <2>2 DEF Read
    <3> QED BY <2>2, <3>1, MeaningInMapping
  <2> QED BY <2>1, <2>2
<1>6. config' = meant'
  <2>1. Becomes(config, "intents", FieldMeaning(config["intents"], owner, l), meant')
    BY <1>5 DEF Read
  <2> QED BY <1>4, <2>1, SameChange
<1>7. StackInv'
  <2>1. UNCHANGED <<top, current>>
    BY <1>2
  <2> QED BY <1>1, <2>1, StackKept
<1>8. IntentStack'
  <2>1. top' = "intents"
    BY <1>1, <1>2
  <2>2. n >= 3 => open[n].name \in IntentMappings /\ context' = open[n].name
    <3>1. ASSUME n >= 3
          PROVE  open[n].name = owner /\ owner \in IntentMappings /\ context' = owner
      <4>1. owner \in IntentMappings /\ names[n] = owner /\ IntentContext(l) = owner
        BY <3>1
      <4>2. n \in 1 .. n
        BY <1>1
      <4> QED BY <1>1, <1>2, <4>1, <4>2
    <3> QED BY <3>1
  <2> QED BY <1>1, <2>1, <2>2, IntentFieldKept
<1> QED BY <1>1, <1>2, <1>6, <1>7, <1>8

\* The sections are all there is in the configuration.
SectionsOnly == config = [s \in Sections |-> config[s]]

\* A list or mapping of an intent that a line opens.
LEMMA IntentOpenMeant ==
  ASSUME ReadInv, StackInv, IntentStack, SectionsOnly,
         NEW l, NEW names, Read(l, names), l.item = FALSE,
         NEW n, n = Len(names), n >= 2, names[1] = "intents",
         l.key \in IntentBlocks, l.key # NoKey, l.value = Empty, NEW owner, owner # "traffic",
         \/ owner = "intents" /\ n = 2 /\ names = <<"intents", "-">>
         \/ owner \in IntentMappings /\ n >= 3 /\ names[n] = owner,
         \/ /\ l.key \in IntentMappings /\ OpenMapping(l)
            /\ n = 2 \/ (n = 3 /\ l.key = "constraints" /\ owner = "path_selection")
         \/ /\ l.key \in ListsOf["intents"] /\ OpenList(l, owner)
            /\ n \in {3, 4} /\ owner \in {"path_selection", "constraints"}
  PROVE  config' = meant' /\ StackInv' /\ IntentStack' /\ top' = "intents"
<1>1. /\ n \in Nat /\ Stands(l, n) /\ l.item \in BOOLEAN /\ l.indent \in Nat
      /\ top = "intents" /\ current["intents"] # 0
      /\ \A i \in 1 .. n : open[i].name = names[i]
  BY IntentPlace
<1>2. /\ context' = l.key
      /\ UNCHANGED <<status, config, top, current, segment, route>>
  BY DEF OpenMapping, OpenList
<1>3. "intents" \in Sections
  BY DEF Sections
<1>4. l.key \in Arrays \cup IntentMappings
  BY IntentNames DEF IntentBlocks
<1>5. FieldMeaning(config["intents"], owner, l) = config["intents"]
  BY <1>4 DEF FieldMeaning
<1>6. Becomes(config, "intents", config["intents"], Meaning(config, l, names))
  <2>1. CASE owner = "intents" /\ names = <<"intents", "-">>
    BY <1>3, <1>5, <2>1, MeaningOfItem
  <2>2. CASE owner \in IntentMappings /\ n >= 3 /\ names[n] = owner
    <3>1. IsList(names) /\ Len(names) >= 3 /\ names[Len(names)] = owner
      BY <2>2 DEF Read
    <3> QED BY <1>5, <2>2, <3>1, MeaningInMapping
  <2> QED BY <2>1, <2>2
<1>7. config' = meant'
  <2>1. Becomes(config, "intents", config["intents"], config)
    BY <1>3 DEF Becomes, SectionsOnly
  <2> QED BY <1>2, <1>6, <2>1, SameChange DEF Read
<1>8. StackInv'
  <2>1. UNCHANGED <<top, current>>
    BY <1>2
  <2> QED BY <1>1, <2>1, StackKept
<1>9. top' = "intents"
  BY <1>1, <1>2
<1>10. n >= 3 => open[n].name = owner
  <2>1. n >= 3 => n \in 1 .. n
    BY <1>1
  <2>2. n >= 3 => names[n] = owner
    OBVIOUS
  <2> QED BY <1>1, <2>1, <2>2
<1>11. l.key \in IntentMappings =>
         n = 2 \/ (n = 3 /\ l.key = "constraints" /\ open[3].name = "path_selection")
  BY <1>10, IntentNames
<1>12. l.key \in ListsOf["intents"] =>
         /\ n \in {3, 4} /\ open[n].name \in {"path_selection", "constraints"}
         /\ list_parent' = open[n].name /\ list_indent' = l.indent
  <2>1. SUFFICES ASSUME l.key \in ListsOf["intents"]
                 PROVE  /\ n \in {3, 4} /\ open[n].name \in {"path_selection", "constraints"}
                        /\ list_parent' = open[n].name /\ list_indent' = l.indent
    OBVIOUS
  <2>2. OpenList(l, owner) /\ n \in {3, 4} /\ owner \in {"path_selection", "constraints"}
    BY <2>1, IntentNames
  <2>3. open[n].name = owner
    BY <1>10, <2>2
  <2> QED BY <2>2, <2>3 DEF OpenList
<1>13. IntentStack'
  BY <1>1, <1>2, <1>9, <1>11, <1>12, IntentBlockOpened
<1> QED BY <1>7, <1>8, <1>9, <1>13

\* The lines of an intent that stand in none of its mappings.
LEMMA IntentItemMeant ==
  ASSUME ReadInv, Understood, SectionsOnly, NEW l, NEW names, Read(l, names), l.item = FALSE,
         names = <<"intents", "-">>,
         l.key \in IntentFields \/ (l.key \in IntentMappings /\ l.value = Empty)
  PROVE  Understood'
<1>1. PICK n : n = Len(names)
  OBVIOUS
<1>2. n = 2 /\ names[1] = "intents" /\ StackInv /\ IntentStack
  BY <1>1, ShortLists DEF Understood
<1>3. /\ l.item \in BOOLEAN /\ top = "intents" /\ ~ IsSection(l) /\ current["intents"] # 0
      /\ "intents" \in Sections
  <2>1. n >= 2
    BY <1>2
  <2> QED BY <1>1, <1>2, <2>1, IntentPlace DEF Sections
<1>4. intent_line(l) /\ ~ Refuse /\ InSection(l)
  BY <1>3, LineRead
<1>5. l.key # NoKey
  BY <1>4 DEF InSection
<1>6. config' = meant' /\ StackInv' /\ IntentStack' /\ top' = "intents"
  <2>1. PICK owner : owner = "intents"
    OBVIOUS
  <2>2. n >= 2 /\ owner # "traffic" /\ owner = "intents" /\ n = 2 /\ names = <<"intents", "-">>
    BY <1>2, <2>1
  <2>3. CASE l.key \in IntentFields
    <3>1. StoreInIntent("intents", l)
      BY <1>3, <1>4, <2>3 DEF intent_line, IntentFields
    <3>2. StoreInIntent(IF owner = "traffic" THEN "intents" ELSE owner, l)
      BY <2>2, <3>1
    <3>3. l.key \notin IntentBlocks
      BY <2>3, IntentNames
    <3> QED BY <1>1, <1>2, <1>4, <2>2, <3>2, <3>3, IntentFieldMeant
  <2>4. CASE l.key \in IntentMappings /\ l.value = Empty
    <3>1. l.key \in IntentBlocks /\ l.key \notin IntentFields
      BY <2>4, IntentNames
    <3>2. OpenMapping(l)
      BY <1>3, <1>4, <2>4, <3>1 DEF intent_line, IntentFields
    <3> QED BY <1>1, <1>2, <1>5, <2>2, <2>4, <3>1, <3>2, IntentOpenMeant
  <2> QED BY <2>3, <2>4
<1> QED BY <1>6 DEF Understood, ListStack

\* A line in a mapping of an intent.
LEMMA MappingMeant ==
  ASSUME ReadInv, Understood, SectionsOnly, NEW l, NEW names, Read(l, names),
         NEW mapping \in IntentMappings, MappingLine(l, mapping, names),
         ~ (/\ names = <<"intents", "-", "path_selection">>
            /\ l.key \in Known["path_selection"]
            /\ \E i \in DOMAIN open : open[i].name = "constraints")
  PROVE  Understood'
<1>1. PICK n : n = Len(names)
  OBVIOUS
<1>2. /\ l.item = FALSE /\ StackInv /\ IntentStack
      /\ names[1] = "intents" /\ names[n] = mapping
      /\ \/ n = 3 /\ names = <<"intents", "-", mapping>>
         \/ n = 4 /\ mapping = "constraints"
  <2>1. l.item = FALSE /\ StackInv /\ IntentStack
    BY DEF MappingLine, Understood, Read
  <2>2. CASE names = <<"intents", "-", mapping>>
    <3>1. Len(names) = 3 /\ names[1] = "intents" /\ names[3] = mapping
      BY <2>2, ShortLists
    <3> QED BY <1>1, <2>1, <2>2, <3>1
  <2>3. CASE mapping = "constraints" /\ names = <<"intents", "-", "path_selection", mapping>>
    <3>1. Len(names) = 4 /\ names[1] = "intents" /\ names[4] = mapping
      BY <2>3, ShortLists
    <3> QED BY <1>1, <2>1, <2>3, <3>1
  <2> QED BY <2>2, <2>3 DEF MappingLine
<1>3. n \in {3, 4} /\ n \in Nat /\ n >= 2 /\ n >= 3
  BY <1>2
<1>4. /\ Stands(l, n) /\ l.item \in BOOLEAN /\ l.indent \in Nat
      /\ top = "intents" /\ ~ IsSection(l) /\ current["intents"] # 0
      /\ "intents" \in Sections
      /\ \A i \in 1 .. n : open[i].name = names[i]
  BY <1>1, <1>2, <1>3, IntentPlace DEF Sections
<1>5. intent_line(l) /\ ~ Refuse /\ InSection(l)
  BY <1>2, <1>4, LineRead
<1>6. l.key # NoKey
  BY <1>2, <1>5 DEF InSection
<1>7. open[n].name = mapping
  BY <1>2, <1>3, <1>4
<1>8. ASSUME IsFieldOf(mapping, l) \/ mapping # "path_selection"
      PROVE  IntentContext(l) = mapping
  <2>1. ASSUME mapping = "path_selection"
        PROVE  \A i \in 1 .. Len(open) : open[i].name # "constraints"
    <3>1. l.key \in Known["path_selection"]
      BY <1>8, <2>1, FieldKeys
    <3>2. names = <<"intents", "-", "path_selection">>
      BY <1>2, <2>1
    <3>3. DOMAIN open = 1 .. Len(open)
      BY <1>2, ListFacts DEF StackInv
    <3> QED BY <3>1, <3>2, <3>3
  <2> QED BY <1>2, <1>3, <1>4, <1>7, <2>1, MappingContext
<1>9. config' = meant' /\ StackInv' /\ IntentStack' /\ top' = "intents"
  <2>1. CASE IsFieldOf(mapping, l)
    <3>1. l.key \notin Arrays \cup IntentMappings /\ l.key \notin IntentFields
      BY <2>1, FieldKeys
    <3>2. IntentContext(l) = mapping
      BY <1>8, <2>1
    <3>3. l.key \notin IntentBlocks /\ l.key \notin {"candidates", "comparison_order"}
          /\ l.key \notin ConstraintLists
      BY <3>1, IntentNames DEF IntentBlocks
    <3>4. StoreInIntent(IF mapping \in IntentMappings \ {"traffic"} THEN mapping ELSE "intents", l)
      BY <1>4, <1>5, <3>1, <3>2, <3>3 DEF intent_line, IntentFields
    <3>5. StoreInIntent(IF mapping = "traffic" THEN "intents" ELSE mapping, l)
      BY <3>4
    <3>6. mapping \in IntentMappings /\ n >= 3 /\ names[n] = mapping /\ IntentContext(l) = mapping
      BY <1>2, <1>3, <3>2
    <3> QED BY <1>1, <1>2, <1>3, <1>5, <3>3, <3>5, <3>6, IntentFieldMeant
  <2>2. CASE l.key \in ListsIn(mapping) /\ l.value = Empty
    <3>1. /\ l.key \in ListsOf["intents"] /\ l.key \in IntentBlocks /\ l.key \notin IntentMappings
          /\ \/ mapping = "path_selection" /\ l.key \in {"candidates", "comparison_order"}
             \/ mapping = "constraints" /\ l.key \in ConstraintLists
      BY <2>2, IntentNames
    <3>2. l.key \notin IntentFields
      BY <3>1, IntentNames
    <3>3. mapping \in {"path_selection", "constraints"} /\ mapping # "traffic"
      BY <3>1
    <3>4. OpenList(l, mapping)
      <4>1. CASE mapping = "path_selection" /\ l.key \in {"candidates", "comparison_order"}
        BY <1>4, <1>5, <3>1, <3>2, <4>1 DEF intent_line, IntentFields
      <4>2. CASE mapping = "constraints" /\ l.key \in ConstraintLists
        <5>1. IntentContext(l) = "constraints"
          BY <1>8, <4>2
        <5>2. l.key \notin {"candidates", "comparison_order"}
          BY <4>2 DEF ConstraintLists
        <5> QED BY <1>4, <1>5, <3>1, <3>2, <4>2, <5>1, <5>2 DEF intent_line, IntentFields
      <4> QED BY <3>1, <4>1, <4>2
    <3> QED BY <1>1, <1>2, <1>3, <1>6, <2>2, <3>1, <3>3, <3>4, IntentOpenMeant
  <2>3. CASE mapping = "path_selection" /\ l.key = "constraints" /\ l.value = Empty
    <3>1. l.key \in IntentMappings /\ l.key \in IntentBlocks
      BY <2>3, IntentNames
    <3>2. l.key \notin IntentFields
      BY <3>1, IntentNames
    <3>3. OpenMapping(l)
      BY <1>4, <1>5, <3>1, <3>2 DEF intent_line, IntentFields
    <3>4. mapping # "traffic" /\ n = 3
      BY <1>2, <2>3
    <3> QED BY <1>1, <1>2, <1>3, <1>6, <2>3, <3>1, <3>3, <3>4, IntentOpenMeant
  <2> QED BY <2>1, <2>2, <2>3 DEF MappingLine
<1> QED BY <1>9 DEF Understood, ListStack

\* An element of a list of an intent.
LEMMA IntentListMeant ==
  ASSUME ReadInv, Understood, NEW l, NEW names, Read(l, names), l.item = TRUE, l.key = NoKey,
         NEW mapping \in IntentMappings, NEW list \in ListsIn(mapping),
         \/ names = <<"intents", "-", mapping, list>>
         \/ names = <<"intents", "-", "path_selection", mapping, list>>
  PROVE  Understood'
<1>1. PICK n : n = Len(names)
  OBVIOUS
<1>2. n \in {4, 5} /\ names[1] = "intents" /\ names[n] = list /\ IsList(names)
  <2>1. CASE names = <<"intents", "-", mapping, list>>
    <3>1. Len(names) = 4 /\ names[1] = "intents" /\ names[4] = list /\ IsList(names)
      BY <2>1, ShortLists
    <3> QED BY <1>1, <3>1
  <2>2. CASE names = <<"intents", "-", "path_selection", mapping, list>>
    <3>1. Len(names) = 5 /\ names[1] = "intents" /\ names[5] = list /\ IsList(names)
      BY <2>2, ShortLists
    <3> QED BY <1>1, <3>1
  <2> QED BY <2>1, <2>2
<1>3. n \in Nat /\ n >= 2 /\ n >= 3 /\ StackInv /\ IntentStack
  BY <1>2 DEF Understood
<1>4. /\ Stands(l, n) /\ l.item \in BOOLEAN /\ l.indent \in Nat
      /\ top = "intents" /\ ~ IsSection(l) /\ l.indent > 2 /\ current["intents"] # 0
      /\ "intents" \in Sections /\ Len(open) \in Nat /\ n <= Len(open)
      /\ \A i \in 1 .. n : open[i].name = names[i]
  BY <1>1, <1>2, <1>3, IntentPlace DEF Sections
<1>5. /\ list \in ListsOf["intents"] /\ list \in IntentBlocks
      /\ list \notin {"path_selection", "constraints"}
  BY IntentNames
<1>6. open[n].name = list
  BY <1>2, <1>3, <1>4
<1>7. ASSUME NEW q \in n + 1 .. Len(open)
      PROVE  open[q].name \notin IntentBlocks
  <2>1. q \in 3 .. Len(open) /\ q >= 5 /\ q > n
    BY <1>2, <1>4
  <2>2. IntentBlock(q)
    BY <1>3, <1>4, <2>1 DEF IntentStack
  <2>3. open[q].name \notin IntentMappings
    BY <2>1, <2>2 DEF IntentBlock
  <2>4. open[q].name \notin ListsOf["intents"]
    <3>1. SUFFICES ASSUME open[q].name \in ListsOf["intents"]
                   PROVE  FALSE
      OBVIOUS
    <3>2. q \in {4, 5} /\ open[q - 1].name \in {"path_selection", "constraints"}
      BY <2>2, <3>1 DEF IntentBlock
    <3>3. n = 4 /\ q - 1 = n
      BY <1>2, <2>1, <3>2
    <3> QED BY <1>5, <1>6, <3>2, <3>3
  <2> QED BY <2>3, <2>4 DEF IntentBlocks
<1>8. context = list /\ list_parent = open[n - 1].name /\ list_indent = open[n].indent
  <2>1. n \in 3 .. Len(open)
    BY <1>3, <1>4
  <2>2. InnerContext(n)
    BY <1>3, <1>4, <2>1 DEF IntentStack
  <2> QED BY <1>5, <1>6, <1>7, <2>2 DEF InnerContext
<1>9. list_item(l) /\ ~ Refuse
  <2>1. l.indent # 2
    BY <1>4
  <2> QED BY <1>4, <2>1, LineRead
<1>10. PICK s, i, q : s = "intents" /\ i = Len(config[s]) /\ q = config[s][i].lists[list]
  OBVIOUS
<1>11. /\ StoresList(config, s, i, list, ElementMeaning(q, list, l), config')
       /\ UNCHANGED <<status, top, context, list_parent, list_indent, current>>
  <2>1. /\ s \in Sections /\ list \in ListsOf[s] /\ top = s /\ context = list /\ current[s] # 0
        /\ list_item(l) /\ ~ Refuse
    BY <1>4, <1>5, <1>8, <1>9, <1>10
  <2>2. LET k == Len(config[s])
            r == config[s][k].lists[list]
        IN /\ StoresList(config, s, k, list, ElementMeaning(r, list, l), config')
           /\ segment' = IF list = "segments" THEN <<k, Len(r) + 1>> ELSE segment
           /\ route' = IF list = "routes" THEN <<k, Len(r) + 1>> ELSE route
           /\ config'[s][k].lists[list] = ElementMeaning(r, list, l)
           /\ Len(ElementMeaning(r, list, l)) = Len(r) + 1 /\ Len(r) \in Nat
           /\ UNCHANGED <<status, top, context, list_parent, list_indent, current>>
    BY <2>1, ListItemMeant
  <2> QED BY <1>10, <2>2
<1>12. config' = meant'
  <2>1. Len(names) >= 3 /\ names[Len(names)] = list /\ names[1] = s /\ s \in Sections
        /\ list \in ListsOf[s]
    BY <1>1, <1>2, <1>3, <1>4, <1>5, <1>10
  <2>2. StoresList(config, s, i, list, ElementMeaning(q, list, l), Meaning(config, l, names))
    BY <1>2, <1>10, <2>1, MeaningInList
  <2>3. StoresList(config, s, i, list, ElementMeaning(q, list, l), meant')
    BY <2>2 DEF Read
  <2> QED BY <1>11, <2>3, SameChange
<1>13. StackInv'
  <2>1. UNCHANGED <<top, current>>
    BY <1>11
  <2> QED BY <1>3, <1>4, <2>1, StackKept
<1>14. top' = "intents"
  BY <1>4, <1>11
<1>15. PICK k : k = Len(open')
  OBVIOUS
<1>16. k = n + 1 /\ open'[n + 1].name = "-"
  BY <1>3, <1>4, <1>15 DEF Stands, OpensBlocks
<1>17. ASSUME NEW p \in 3 .. k
       PROVE  IntentBlock(p)' /\ InnerContext(p)'
  <2>1. p \in 3 .. n \/ (p = n + 1 /\ open'[p].name = "-")
    BY <1>3, <1>16
  <2>2. CASE p = n + 1 /\ open'[p].name = "-"
    <3>1. open'[p].name \notin IntentBlocks
      BY <2>2, IntentNames
    <3> QED BY <3>1 DEF IntentBlock, InnerContext, IntentBlocks
  <2>3. CASE p \in 3 .. n
    <3>1. IntentBlock(p)' /\ open'[p] = open[p] /\ open'[p - 1] = open[p - 1]
      BY <1>3, <1>4, <2>3, IntentBlocksKept
    <3>2. n \in 3 .. n /\ n \in 1 .. n
      BY <1>3
    <3>3. open'[n].name = list
      BY <1>4, <1>6, <3>2 DEF Stands
    <3>4. CASE p = n
      <4>1. context' = open'[p].name /\ list_parent' = open'[p - 1].name
            /\ list_indent' = open'[p].indent
        BY <1>8, <1>11, <3>1, <3>3, <3>4
      <4> QED BY <3>1, <4>1 DEF InnerContext
    <3>5. CASE p # n
      <4>1. n \in p + 1 .. k
        BY <1>3, <1>16, <2>3, <3>5
      <4> QED BY <1>5, <1>15, <3>1, <3>3, <4>1 DEF InnerContext
    <3> QED BY <3>4, <3>5
  <2> QED BY <2>1, <2>2, <2>3
<1>18. IntentStack'
  BY <1>15, <1>17 DEF IntentStack
<1> QED BY <1>12, <1>13, <1>14, <1>18 DEF Understood, ListStack

-----------------------------------------------------------------------------
(* Every line.                                                             *)

LEMMA SectionsKept ==
  ASSUME ReadInv, SectionsOnly, NEW l, parse_line(l)
  PROVE  SectionsOnly'
<1>1. ASSUME NEW s, NEW x, config' = [config EXCEPT ![s] = x]
      PROVE  SectionsOnly'
  <2>1. DOMAIN config = Sections
    BY DEF ReadInv, ItemsOf
  <2> QED BY <1>1, <2>1 DEF SectionsOnly
<1>2. ASSUME UNCHANGED config
      PROVE  SectionsOnly'
  BY <1>2 DEF SectionsOnly
<1>3. CASE begin_item(l)
  BY <1>1, <1>2, <1>3 DEF begin_item, Refuse
<1>4. CASE list_item(l)
  BY <1>1, <1>2, <1>4 DEF list_item, Refuse
<1>5. ASSUME NEW mapping, StoreField(mapping, l)
      PROVE  SectionsOnly'
  BY <1>1, <1>2, <1>5 DEF StoreField, Refuse
<1>6. CASE path_line(l)
  BY <1>1, <1>5, <1>6 DEF path_line, StoreInElement
<1>7. CASE intent_line(l)
  BY <1>1, <1>2, <1>7 DEF intent_line, StoreInIntent, OpenList, OpenMapping, Refuse
<1>8. CASE section_line(l) \/ outside_section(l) \/ malformed_line(l)
  BY <1>2, <1>8 DEF section_line, outside_section, malformed_line, Refuse
<1>9. CASE field_line(l)
  BY <1>5, <1>9 DEF field_line
<1> QED BY <1>3, <1>4, <1>6, <1>7, <1>8, <1>9 DEF parse_line

\* What the parser makes of a line is what the indentation says.
LEMMA LineMeant ==
  ASSUME ReadInv, Understood, SectionsOnly, NEW l, NEW names, Read(l, names), InLayout(l, names),
         ~ (/\ names = <<"intents", "-", "path_selection">>
            /\ l.key \in Known["path_selection"]
            /\ \E i \in DOMAIN open : open[i].name = "constraints")
  PROVE  Understood'
<1>1. CASE SectionLine(l, names)
  BY <1>1, SectionMeant
<1>2. CASE FirstLine(l, names)
  BY <1>2, FirstMeant
<1>3. CASE ItemLine(l, names)
  <2>1. ~ l.item /\ l.item = FALSE
    BY <1>3 DEF ItemLine, Read
  <2>2. CASE \E s \in Sections \ {"intents"} : names = <<s, "-">> /\ (s = "paths" => l.indent < 6)
    BY <2>1, <2>2, ItemMeant
  <2>3. CASE /\ names = <<"intents", "-">>
             /\ l.key \in IntentFields \/ (l.key \in IntentMappings /\ l.value = Empty)
    BY <2>1, <2>3, IntentItemMeant
  <2> QED BY <1>3, <2>2, <2>3 DEF ItemLine
<1>4. CASE ElementLine(l, names)
  BY <1>4, ElementMeant
<1>5. CASE ListLine(l, names)
  <2>1. l.item = TRUE
    BY <1>5 DEF ListLine, Read
  <2>2. ASSUME NEW s \in Sections \ {"intents"}, NEW list \in ListsOf[s],
               names = <<s, "-", list>>, list \in {"segments", "routes"} \/ l.key = NoKey
        PROVE  Understood'
    BY <2>1, <2>2, ListMeant
  <2>3. ASSUME l.key = NoKey, NEW mapping \in IntentMappings, NEW list \in ListsIn(mapping),
               \/ names = <<"intents", "-", mapping, list>>
               \/ names = <<"intents", "-", "path_selection", mapping, list>>
        PROVE  Understood'
    BY <2>1, <2>3, IntentListMeant
  <2> QED BY <1>5, <2>2, <2>3 DEF ListLine
<1>6. ASSUME NEW mapping \in IntentMappings, MappingLine(l, mapping, names)
      PROVE  Understood'
  BY <1>6, MappingMeant
<1> QED BY <1>1, <1>2, <1>3, <1>4, <1>5, <1>6 DEF InLayout

\* The parser has understood what it has read, as far as it follows the layout.
MeaningInv == kind \in DOMAIN Vocabularies /\ (status = "reading" => SectionsOnly) /\ MeantInv

LEMMA MeaningBegins ==
  ASSUME YamlInit
  PROVE  MeaningInv
<1>1. kind \in DOMAIN Vocabularies /\ status = "reading" /\ config = NoItems /\ meant = NoItems
      /\ open = <<>>
  BY DEF YamlInit
<1>2. SectionsOnly
  BY <1>1 DEF NoItems, SectionsOnly
<1>3. IsList(open) /\ Len(open) = 0
  BY <1>1, NoElements
<1>4. StackInv
  BY <1>3 DEF StackInv
<1>5. IntentStack /\ ListStack
  BY <1>3 DEF IntentStack, ListStack
<1> QED BY <1>1, <1>2, <1>4, <1>5 DEF MeaningInv, MeantInv, Understood

LEMMA MeaningStep ==
  ASSUME YamlInv, MeaningInv, [YamlNext]_vars
  PROVE  MeaningInv'
<1>1. CASE read_line
  <2>1. PICK l \in Vocabularies[kind] : parse_line(l) /\ understand(l)
    BY <1>1 DEF read_line
  <2>2. status = "reading" /\ kind' = kind /\ kind \in DOMAIN Vocabularies /\ SectionsOnly /\ ReadInv
    BY <1>1 DEF read_line, MeaningInv, YamlInv
  <2>3. SectionsOnly'
    BY <2>1, <2>2, SectionsKept
  <2>4. ASSUME status' = "reading", meant' # Unknown
        PROVE  Understood'
    <3>1. meant # Unknown
      BY <2>1, <2>4 DEF understand
    <3>2. Understood
      BY <2>2, <3>1 DEF MeaningInv, MeantInv
    <3>3. IsList(open)
      BY <3>2 DEF Understood, StackInv
    <3>4. l.item \in BOOLEAN /\ l.indent \in Nat
      BY <2>1, <2>2, <2>4, <3>3, Standing
    <3>5. PICK names :
            /\ InLayout(l, names) /\ IsList(names) /\ Stands(l, Len(names))
            /\ \A i \in 1 .. Len(names) : open[i].name = names[i]
            /\ meant' = Meaning(meant, l, names)
            /\ ~ (/\ names = <<"intents", "-", "path_selection">>
                  /\ l.key \in Known["path_selection"]
                  /\ \E i \in DOMAIN open : open[i].name = "constraints")
      BY <2>1, <2>2, <2>4, <3>3, Standing
    <3>6. meant' = Meaning(config, l, names)
      BY <3>2, <3>5 DEF Understood
    <3>7. Read(l, names)
      BY <2>1, <2>2, <2>4, <3>4, <3>5, <3>6 DEF Read
    <3> QED BY <2>2, <3>2, <3>5, <3>7, LineMeant
  <2> QED BY <2>2, <2>3, <2>4 DEF MeaningInv, MeantInv
<1>2. CASE end_of_file
  <2>1. status' # "reading" /\ kind' = kind
    BY <1>2 DEF end_of_file
  <2> QED BY <2>1 DEF MeaningInv, MeantInv
<1>3. CASE UNCHANGED vars
  <2>1. UNCHANGED <<kind, status, config, top, context, list_parent, list_indent, current,
                    segment, route, open, meant>>
    BY <1>3 DEF vars, parser
  <2>2. StackInv => StackInv'
    BY <2>1 DEF StackInv
  <2>3. IntentStack => IntentStack'
    BY <2>1 DEF IntentStack, IntentBlock, InnerContext
  <2>4. ListStack => ListStack'
    BY <2>1 DEF ListStack, ElementStack, LastElement
  <2>5. SectionsOnly => SectionsOnly'
    BY <2>1 DEF SectionsOnly
  <2> QED BY <2>1, <2>2, <2>3, <2>4, <2>5 DEF MeaningInv, MeantInv, Understood
<1> QED BY <1>1, <1>2, <1>3 DEF YamlNext

\* Every line of a file that follows the documented layout is stored in the item, list or
\* mapping that its indentation puts it in, whatever the order of the lines (parse_line,
\* with the context and the element that it keeps from line to line).
THEOREM YamlParsedAsMeant == YamlSpec => []ParsedAsMeant
<1>1. YamlInit => MeaningInv
  BY MeaningBegins
<1>2. YamlInv /\ MeaningInv /\ [YamlNext]_vars => MeaningInv'
  BY MeaningStep
<1>3. MeaningInv => ParsedAsMeant
  BY DEF MeaningInv, MeantInv, Understood, ParsedAsMeant
<1> QED BY <1>1, <1>2, <1>3, YamlInvariant, PTL DEF YamlSpec
=============================================================================
